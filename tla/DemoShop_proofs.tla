-------------------------- MODULE DemoShop_proofs ---------------------------
(***************************************************************************)
(* Theorems about DemoShop: for any number of tabs, calls and faults.      *)
(***************************************************************************)
EXTENDS DemoShop, TLAPS

-----------------------------------------------------------------------------
(* Type correctness, part by part.                                         *)

CallRows == [tab : Tabs \cup {NoTab}, kind : Kinds, at : Working \cup Answers \cup {"idle"}, shown : BOOLEAN]
TabRows  == [screen : Screens, page : Pages]

TypeTabs    == tab \in [Tabs -> TabRows] /\ store \in {"none", "queued", "won_checkout"}
TypeCalls   == call \in [Calls -> CallRows]
TypeServers == /\ gate \in [result : Results, live : BOOLEAN, used : BOOLEAN, logged : BOOLEAN]
               /\ returned \in Nat /\ orders \in Nat /\ keysFit \in BOOLEAN
TypeHistory == burnt \in BOOLEAN /\ crowded \in BOOLEAN

LEMMA Parts == TypeOK <=> TypeTabs /\ TypeCalls /\ TypeServers /\ TypeHistory /\ faults \in 0..MaxFaults
  BY DEF TypeOK, TypeTabs, TypeCalls, TypeServers, TypeHistory, CallRows, TabRows

LEMMA PartsNext == TypeTabs' /\ TypeCalls' /\ TypeServers' /\ TypeHistory' /\ faults' \in 0..MaxFaults => TypeOK'
  BY DEF TypeOK, TypeTabs, TypeCalls, TypeServers, TypeHistory, CallRows, TabRows

LEMMA PartsKept ==
  ASSUME TypeOK
  PROVE  /\ UNCHANGED <<tab, store>> => TypeTabs'
         /\ UNCHANGED call => TypeCalls'
         /\ UnchangedServers => TypeServers'
         /\ UNCHANGED <<burnt, crowded>> => TypeHistory'
<1> USE Parts
<1>1. UNCHANGED <<tab, store>> => TypeTabs'
  BY DEF TypeTabs
<1>2. UNCHANGED call => TypeCalls'
  BY DEF TypeCalls
<1>3. UnchangedServers => TypeServers'
  BY DEF TypeServers, UnchangedServers
<1>4. UNCHANGED <<burnt, crowded>> => TypeHistory'
  BY DEF TypeHistory
<1> QED
  BY <1>1, <1>2, <1>3, <1>4

LEMMA IdleIsRow == Idle \in CallRows /\ Idle.at = "idle"
  BY DEF Idle, CallRows, Kinds

LEMMA FreshIsRow == Fresh \in TabRows /\ Unset \in TabRows
  BY DEF Fresh, Unset, TabRows, Screens, Pages

LEMMA MountedIsRow ==
  ASSUME NEW s \in Screens
  PROVE  Mounted(s) \in TabRows
<1>1. PICK p : Mounted(s) = [screen |-> s, page |-> p] /\ p \in {"loading", "time", "expired", "untried", "plain"}
  BY Zenon DEF Mounted
<1> QED
  BY <1>1 DEF TabRows, Pages

LEMMA TypeInit == Init => TypeOK
<1> SUFFICES ASSUME Init PROVE TypeOK
  OBVIOUS
<1>1. TypeTabs /\ TypeCalls
  BY IdleIsRow, FreshIsRow DEF Init, TypeTabs, TypeCalls
<1>2. TypeServers /\ TypeHistory
  BY DEF Init, TypeServers, TypeHistory, Results
<1>3. faults \in 0..MaxFaults
  BY DemoShopAssumption DEF Init
<1> QED
  BY <1>1, <1>2, <1>3, Parts

\* A call gets another answer, is over, or is hidden.
LEMMA AnswerType ==
  ASSUME TypeCalls, NEW c \in Calls, NEW a \in Working \cup Answers \cup {"idle"}, Answer(c, a)
  PROVE  TypeCalls'
  BY DEF TypeCalls, Answer, CallRows

LEMMA HiddenType ==
  ASSUME TypeCalls, NEW t, NEW s, NEW c \in Calls
  PROVE  /\ Hidden(t, s)[c] \in CallRows
         /\ Hidden(t, s)[c].at = call[c].at /\ Hidden(t, s)[c].kind = call[c].kind
  BY DEF TypeCalls, Hidden, CallRows

LEMMA GoToType ==
  ASSUME TypeOK, NEW t \in Tabs, NEW s \in Screens, NEW over, GoTo(t, s, over)
  PROVE  TypeCalls' /\ tab' \in [Tabs -> TabRows] /\ crowded' \in BOOLEAN
<1>1. TypeCalls /\ tab \in [Tabs -> TabRows] /\ gate.live \in BOOLEAN
  BY Parts DEF TypeTabs, TypeServers
<1>2. TypeCalls'
  BY <1>1, HiddenType, IdleIsRow DEF GoTo, TypeCalls
<1>3. tab' \in [Tabs -> TabRows]
  BY <1>1, MountedIsRow DEF GoTo
<1>4. crowded' \in BOOLEAN
  BY Zenon DEF GoTo
<1> QED
  BY <1>2, <1>3, <1>4

LEMMA StayType ==
  ASSUME TypeOK, NEW over, Stay(over)
  PROVE  TypeCalls' /\ UNCHANGED <<tab, crowded>>
  BY IdleIsRow, Parts DEF Stay, TypeCalls

-----------------------------------------------------------------------------

LEMMA TypeStart ==
  ASSUME TypeOK, NEW t \in Tabs, NEW c \in Calls, NEW kind \in Kinds, Start(t, c, kind)
  PROVE  TypeCalls'
<1>1. [tab |-> t, kind |-> kind, at |-> "sent", shown |-> TRUE] \in CallRows
  BY DEF CallRows, Working
<1> QED
  BY <1>1, Parts DEF Start, TypeCalls

\* What a tab begins.
LEMMA TypeBegins ==
  ASSUME TypeOK, NEW t \in Tabs, NEW c \in Calls,
         Join(t, c) \/ Poll(t, c) \/ TryAgain(t, c) \/ \E kind \in {"buy", "fail"} : Pay(t, c, kind)
  PROVE  TypeOK'
<1>1. \E kind \in Kinds : Start(t, c, kind)
  BY DEF Join, Poll, TryAgain, Pay, Kinds
<1>2. TypeCalls'
  BY <1>1, TypeStart
<1>3. UNCHANGED <<tab, store, crowded>> /\ UnchangedServers /\ UnchangedFaults
  BY DEF Join, Poll, TryAgain, Pay
<1> QED
  BY <1>2, <1>3, Parts, PartsKept, PartsNext DEF UnchangedFaults

\* The keys of the shop's server change, and nothing else.
LEMMA TypeKeys == ASSUME TypeOK, NEW t \in Tabs, NEW fit \in BOOLEAN, SaveKeys(t, fit) PROVE TypeOK'
<1>1. TypeServers'
  BY Parts DEF SaveKeys, SetKeys, TypeServers
<1>2. UNCHANGED <<tab, store, call, crowded>> /\ UnchangedFaults
  BY DEF SaveKeys
<1> QED
  BY <1>1, <1>2, Parts, PartsKept, PartsNext DEF UnchangedFaults

\* A page learns something, or the tab goes back to the product.
Learns(t) == SaveConfig(t) \/ Availability(t) \/ TimeUp(t)

LEMMA TypeScreens ==
  ASSUME TypeOK, NEW t \in Tabs, Learns(t) \/ Expired(t) \/ Reset(t)
  PROVE  TypeOK'
<1>1. UnchangedServers /\ UnchangedFaults
  BY DEF Learns, SaveConfig, Availability, TimeUp, Expired, Reset
<1>2. CASE Learns(t)
  <2>1. tab' \in [Tabs -> TabRows]
    <3>1. tab' = [tab EXCEPT ![t] = Fresh] \/ \E p \in Pages : tab' = [tab EXCEPT ![t].page = p]
      BY <1>2 DEF Learns, SaveConfig, Availability, TimeUp, Pages
    <3> QED
      BY <3>1, Parts, FreshIsRow DEF TypeTabs, TabRows
  <2>2. UNCHANGED <<store, call, crowded>>
    BY <1>2 DEF Learns, SaveConfig, Availability, TimeUp
  <2> QED
    BY <1>1, <2>1, <2>2, Parts, PartsKept, PartsNext DEF UnchangedFaults, TypeTabs, TypeHistory
<1>3. CASE Expired(t) \/ Reset(t)
  <2>1. GoTo(t, "product", {}) /\ store' = "none" /\ "product" \in Screens
    BY <1>3 DEF Expired, Reset, Keep, Screens
  <2>2. TypeCalls' /\ tab' \in [Tabs -> TabRows] /\ crowded' \in BOOLEAN
    BY <2>1, GoToType
  <2> QED
    BY <1>1, <2>1, <2>2, Parts, PartsKept, PartsNext DEF UnchangedFaults, TypeTabs, TypeHistory
<1> QED
  BY <1>2, <1>3

LEMMA TypeReload == ASSUME TypeOK, NEW t \in Tabs, Reload(t) PROVE TypeOK'
<1>1. TypeCalls /\ tab \in [Tabs -> TabRows] /\ gate.live \in BOOLEAN
  BY Parts DEF TypeTabs, TypeServers
<1>2. tab' \in [Tabs -> TabRows]
  <2>1. Mounted("queue") \in TabRows /\ Mounted("checkout") \in TabRows
    BY MountedIsRow DEF Screens
  <2>2. Resumed \in TabRows
    BY <2>1, FreshIsRow DEF Resumed
  <2> QED
    BY <1>1, <2>2 DEF Reload
<1>3. TypeCalls'
  <2>1. ASSUME NEW c \in Calls
        PROVE  [call[c] EXCEPT !.tab = NoTab, !.shown = FALSE] \in CallRows
    BY <1>1 DEF TypeCalls, CallRows
  <2> QED
    BY <1>1, <2>1, IdleIsRow DEF Reload, TypeCalls
<1>4. crowded' \in BOOLEAN /\ UNCHANGED <<store, burnt>> /\ UnchangedServers
  BY Zenon DEF Reload
<1>5. faults' \in 0..MaxFaults
  <2>1. faults < MaxFaults /\ faults' = faults + 1
    BY Zenon DEF Reload
  <2> QED
    BY <2>1, Parts, DemoShopAssumption
<1> QED
  BY <1>2, <1>3, <1>4, <1>5, Parts, PartsKept, PartsNext DEF TypeTabs, TypeHistory

\* The answers a server may give.
LEMMA AnswerNames ==
  /\ {"won", "lapsed", "sold_out", "queued", "already", "missing", "ordered", "used", "invalid", "released", "error"} \subseteq Answers
  /\ {"paying", "returning", "logging", "sent"} \subseteq Working
  BY DEF Answers, Working

LEMMA StatusNowType == TypeOK => StatusNow \in Answers
  BY Parts DEF TypeServers, Results, StatusNow, Answers

\* The servers answer; only gate, returned and orders change with the call.
LEMMA TypeServed ==
  ASSUME TypeOK, NEW c \in Calls, Served(c)
  PROVE  TypeOK'
<1>1. UnchangedTabs /\ UnchangedFaults
  BY DEF Served, JoinServed, StatusServed, Verify, Confirm, Release, ReturnUnit, LogRelease
<1>2. \E a \in Working \cup Answers : Answer(c, a)
  <2>1. CASE JoinServed(c)
    <3>1. \/ Answer(c, "already") \/ Answer(c, StatusNow)
          \/ \E r \in Results \ {"won"} : Answer(c, IF r = "none" THEN "error" ELSE r)
      BY <2>1, Zenon DEF JoinServed
    <3> QED
      BY <3>1, AnswerNames, StatusNowType DEF Results
  <2>2. CASE StatusServed(c)
    BY <2>2, StatusNowType DEF StatusServed
  <2>3. CASE Verify(c)
    <3>1. Answer(c, "invalid") \/ Answer(c, "used") \/ Answer(c, "paying")
      BY <2>3, Zenon DEF Verify
    <3> QED
      BY <3>1, AnswerNames
  <2>4. CASE Confirm(c) \/ Release(c) \/ ReturnUnit(c) \/ LogRelease(c)
    BY <2>4, AnswerNames DEF Confirm, Release, ReturnUnit, LogRelease
  <2> QED
    BY <2>1, <2>2, <2>3, <2>4 DEF Served
<1>3. TypeCalls'
  BY <1>2, AnswerType, Parts
<1>4. TypeServers'
  <2>1. TypeServers
    BY Parts
  <2>2. CASE JoinServed(c)
    <3>1. UNCHANGED <<keysFit, returned, orders>> /\ (UNCHANGED gate \/ \E r \in Results : gate' = [gate EXCEPT !.result = r])
      BY <2>2 DEF JoinServed
    <3> QED
      BY <2>1, <3>1 DEF TypeServers
  <2>3. CASE Verify(c)
    <3>1. UNCHANGED <<keysFit, returned, orders>> /\ (UNCHANGED gate \/ gate' = [gate EXCEPT !.used = TRUE])
      BY <2>3, Zenon DEF Verify
    <3> QED
      BY <2>1, <3>1 DEF TypeServers
  <2>4. CASE StatusServed(c) \/ Release(c)
    BY <2>4, PartsKept DEF StatusServed, Release
  <2>5. CASE Confirm(c) \/ ReturnUnit(c)
    BY <2>1, <2>5 DEF Confirm, ReturnUnit, TypeServers
  <2>6. CASE LogRelease(c)
    BY <2>1, <2>6 DEF LogRelease, TypeServers
  <2> QED
    BY <2>2, <2>3, <2>4, <2>5, <2>6 DEF Served
<1> QED
  BY <1>1, <1>3, <1>4, Parts, PartsKept, PartsNext DEF UnchangedTabs, UnchangedFaults

LEMMA TypeGateway == ASSUME TypeOK, Drain \/ Lapse PROVE TypeOK'
<1>1. UNCHANGED <<keysFit, returned, orders, call>> /\ UnchangedTabs /\ UnchangedFaults
  BY DEF Drain, Lapse
<1>2. TypeServers'
  BY <1>1, Parts DEF Drain, Lapse, TypeServers, Results
<1> QED
  BY <1>1, <1>2, Parts, PartsKept, PartsNext DEF UnchangedTabs, UnchangedFaults

\* An answer moves its tab, leaves it, or has the SDK ask again.
LEMMA AnsweredMoves ==
  ASSUME NEW c \in Calls, Answered(c)
  PROVE  /\ UnchangedServers /\ UnchangedFaults
         /\ \/ /\ call[c].tab # NoTab /\ store' \in {"none", "queued", "won_checkout", store}
               /\ \E s \in Screens : GoTo(call[c].tab, s, {c})
            \/ Stay({c}) /\ store' \in {"queued", store}
            \/ /\ UNCHANGED <<tab, store, crowded>> /\ call[c].kind \in {"join", "sdk_poll"}
               /\ call' = [call EXCEPT ![c].kind = "sdk_poll", ![c].at = "sent"] \/ Answer(c, "sent")
            \/ /\ UNCHANGED <<store, crowded>> /\ call' = [call EXCEPT ![c] = Idle]
               /\ tab' = tab \/ tab' = [tab EXCEPT ![call[c].tab].page = "tried"]
<1> USE DEF Screens, Won, SoldOut, Ignored, UnchangedOutside, Keep
<1>1. CASE TakeJoin(c)
  BY <1>1 DEF TakeJoin
<1>2. CASE TakeJoinLapsed(c) \/ Forgotten(c)
  BY <1>2 DEF TakeJoinLapsed, Forgotten
<1>7. CASE TakeTry(c)
  BY <1>7, Zenon DEF TakeTry
<1>3. CASE TakeSdkPoll(c)
  BY <1>3 DEF TakeSdkPoll
<1>4. CASE TakePoll(c)
  BY <1>4 DEF TakePoll
<1>5. CASE TakeBuy(c)
  BY <1>5 DEF TakeBuy
<1>6. CASE TakeFail(c)
  BY <1>6 DEF TakeFail
<1> QED
  BY <1>1, <1>2, <1>3, <1>4, <1>5, <1>6, <1>7 DEF Answered

LEMMA TypeAnswered == ASSUME TypeOK, NEW c \in Calls, Answered(c) PROVE TypeOK'
<1>1. UnchangedServers /\ UnchangedFaults
  BY AnsweredMoves
<1>2. store \in {"none", "queued", "won_checkout"} /\ tab \in [Tabs -> TabRows] /\ crowded \in BOOLEAN
      /\ call[c].tab \in Tabs \cup {NoTab} /\ TypeCalls
  BY Parts DEF TypeTabs, TypeHistory, TypeCalls, CallRows
<1>3. TypeCalls' /\ TypeTabs' /\ crowded' \in BOOLEAN
  <2>1. CASE /\ call[c].tab # NoTab /\ store' \in {"none", "queued", "won_checkout", store}
             /\ \E s \in Screens : GoTo(call[c].tab, s, {c})
    BY <1>2, <2>1, GoToType DEF TypeTabs
  <2>2. CASE Stay({c}) /\ store' \in {"queued", store}
    BY <1>2, <2>2, StayType DEF TypeTabs
  <2>3. CASE /\ UNCHANGED <<tab, store, crowded>>
             /\ call' = [call EXCEPT ![c].kind = "sdk_poll", ![c].at = "sent"] \/ Answer(c, "sent")
    <3>1. CASE call' = [call EXCEPT ![c].kind = "sdk_poll", ![c].at = "sent"]
      <4>1. [call[c] EXCEPT !.kind = "sdk_poll", !.at = "sent"] \in CallRows
        BY <1>2 DEF TypeCalls, CallRows, Kinds, Working
      <4> QED
        BY <1>2, <2>3, <3>1, <4>1 DEF TypeCalls, TypeTabs
    <3>2. CASE Answer(c, "sent")
      BY <1>2, <2>3, <3>2, AnswerType, AnswerNames DEF TypeTabs
    <3> QED
      BY <2>3, <3>1, <3>2
  <2>4. CASE /\ UNCHANGED <<store, crowded>> /\ call' = [call EXCEPT ![c] = Idle]
             /\ tab' = tab \/ tab' = [tab EXCEPT ![call[c].tab].page = "tried"]
    <3>1. tab' \in [Tabs -> TabRows]
      BY <1>2, <2>4 DEF TabRows, Pages
    <3>2. TypeCalls'
      BY <1>2, <2>4, IdleIsRow DEF TypeCalls
    <3> QED
      BY <1>2, <2>4, <3>1, <3>2 DEF TypeTabs
  <2> QED
    BY <2>1, <2>2, <2>3, <2>4, AnsweredMoves
<1> QED
  BY <1>1, <1>3, Parts, PartsKept, PartsNext DEF UnchangedFaults, TypeHistory

LEMMA TypeFaults ==
  ASSUME TypeOK, NEW c \in Calls, RequestDies(c) \/ ReplyLost(c) \/ VerifyTimesOut(c)
  PROVE  TypeOK'
<1>1. Fault(c)
  BY DEF RequestDies, ReplyLost, VerifyTimesOut
<1>2. TypeCalls'
  BY <1>1, AnswerType, AnswerNames, Parts DEF Fault
<1>3. burnt' \in BOOLEAN
  BY <1>1, Zenon DEF Fault
<1>4. faults' \in 0..MaxFaults
  BY <1>1, Parts, DemoShopAssumption DEF Fault
<1>5. TypeServers'
  <2>1. UNCHANGED <<keysFit, orders, returned>> /\ (UNCHANGED gate \/ gate' = [gate EXCEPT !.used = TRUE])
    BY <1>1 DEF Fault, RequestDies, ReplyLost, VerifyTimesOut
  <2> QED
    BY <2>1, Parts DEF TypeServers
<1> QED
  BY <1>1, <1>2, <1>3, <1>4, <1>5, Parts, PartsKept, PartsNext DEF Fault, UnchangedTabs, TypeHistory

LEMMA TypeStutter == ASSUME TypeOK, UNCHANGED vars PROVE TypeOK'
  BY Parts, PartsKept, PartsNext DEF vars, UnchangedServers

LEMMA TypeNext == ASSUME TypeOK, [Next]_vars PROVE TypeOK'
  BY TypeBegins, TypeScreens, TypeKeys, TypeReload, TypeServed, TypeGateway, TypeAnswered, TypeFaults, TypeStutter
     DEF Next, Learns

\* Every variable keeps its type, whatever overlaps and whatever is lost (App.tsx:41-51).
THEOREM DemoShopTypes == Spec => []TypeOK
  BY TypeInit, TypeNext, PTL DEF Spec

-----------------------------------------------------------------------------
(* One ticket, one order.  OneOrder is not inductive: the purchase that has  *)
(* passed the gateway but is not confirmed yet has to be counted in, and     *)
(* with it what becomes of a ticket that is used.                            *)

Paying == {c \in Calls : call[c].at = "paying"}

OrderInv ==
  /\ TypeOK
  /\ \A c, d \in Paying : c = d
  /\ \A c \in Paying : call[c].kind \in {"buy", "try"}
  /\ orders \in {0, 1}
  /\ orders = 1 \/ ~gate.used => Paying = {} /\ (orders = 1 => gate.used)
  /\ gate.used => orders = 1 \/ burnt \/ Paying # {}

LEMMA OrderInit == Init => OrderInv
<1> SUFFICES ASSUME Init PROVE OrderInv
  OBVIOUS
<1>1. Paying = {}
  BY IdleIsRow DEF Init, Paying
<1> QED
  BY <1>1, TypeInit DEF Init, OrderInv

\* The purchases under way go on, for the ticket and the orders there were.
PayingKept == /\ Paying' = Paying /\ \A c \in Paying : call'[c].kind = call[c].kind
              /\ orders' = orders /\ gate'.used = gate.used /\ (burnt => burnt')

LEMMA OrderKept ==
  ASSUME OrderInv, TypeOK', PayingKept
  PROVE  OrderInv'
  BY DEF OrderInv, PayingKept

\* A call that is not a purchase under way gets a row that is none either.
LEMMA RowKeepsPaying ==
  ASSUME OrderInv, NEW c \in Calls \ Paying, NEW row, row.at # "paying", call' = [call EXCEPT ![c] = row]
  PROVE  Paying' = Paying /\ \A d \in Paying : call'[d].kind = call[d].kind
<1>1. TypeCalls
  BY Parts DEF OrderInv
<1> QED
  BY <1>1 DEF TypeCalls, Paying

LEMMA AnswerKeepsPaying ==
  ASSUME OrderInv, NEW c \in Calls \ Paying, NEW a, a # "paying", Answer(c, a)
  PROVE  Paying' = Paying /\ \A d \in Paying : call'[d].kind = call[d].kind
<1> DEFINE row == [call[c] EXCEPT !.at = a]
<1>1. row.at = a /\ call' = [call EXCEPT ![c] = row]
  BY Parts DEF OrderInv, TypeCalls, CallRows, Answer
<1> HIDE DEF row
<1> QED
  BY <1>1, RowKeepsPaying

LEMMA GoToKeepsPaying ==
  ASSUME OrderInv, NEW t, NEW s, NEW over, over \cap Paying = {}, GoTo(t, s, over) \/ Stay(over)
  PROVE  Paying' = Paying /\ \A d \in Paying : call'[d].kind = call[d].kind
<1>1. TypeCalls
  BY Parts DEF OrderInv
<1>2. CASE GoTo(t, s, over)
  <2>1. call' = [c \in Calls |-> IF c \in over THEN Idle ELSE Hidden(t, s)[c]]
    BY <1>2 DEF GoTo
  <2> QED
    BY <1>1, <2>1, HiddenType, IdleIsRow DEF Paying
<1>3. CASE Stay(over)
  BY <1>1, <1>3, IdleIsRow DEF Stay, Paying
<1> QED
  BY <1>2, <1>3

LEMMA OrderBegins ==
  ASSUME OrderInv, TypeOK', NEW t \in Tabs, NEW c \in Calls,
         Join(t, c) \/ Poll(t, c) \/ TryAgain(t, c) \/ \E kind \in {"buy", "fail"} : Pay(t, c, kind)
  PROVE  OrderInv'
<1>1. PICK kind \in Kinds : Start(t, c, kind)
  BY DEF Join, Poll, TryAgain, Pay, Kinds
<1>2. c \in Calls \ Paying
  BY <1>1, IdleIsRow DEF Start, Paying
<1>3. Paying' = Paying /\ \A d \in Paying : call'[d].kind = call[d].kind
  BY <1>1, <1>2, RowKeepsPaying DEF Start
<1>4. UnchangedServers /\ UnchangedFaults
  BY DEF Join, Poll, TryAgain, Pay
<1> QED
  BY <1>3, <1>4, OrderKept DEF PayingKept, UnchangedServers, UnchangedFaults

LEMMA OrderScreens ==
  ASSUME OrderInv, TypeOK', NEW t \in Tabs, Learns(t) \/ Expired(t) \/ Reset(t) \/ Reload(t)
  PROVE  OrderInv'
<1>1. UnchangedServers /\ UNCHANGED burnt
  BY DEF Learns, SaveConfig, Availability, TimeUp, Expired, Reset, Reload, UnchangedFaults
<1>2. Paying' = Paying /\ \A d \in Paying : call'[d].kind = call[d].kind
  <2>1. CASE Learns(t)
    BY <2>1 DEF Learns, SaveConfig, Availability, TimeUp, Paying
  <2>2. CASE Expired(t) \/ Reset(t)
    BY <2>2, GoToKeepsPaying DEF Expired, Reset
  <2>3. CASE Reload(t)
    <3>1. TypeCalls /\ "paying" \in Working
      BY Parts, AnswerNames DEF OrderInv
    <3>2. call' = [c \in Calls |-> IF call[c].tab # t THEN call[c]
                                  ELSE IF call[c].at \in Working THEN [call[c] EXCEPT !.tab = NoTab, !.shown = FALSE]
                                  ELSE Idle]
      BY <2>3 DEF Reload
    <3>3. ASSUME NEW c \in Calls
          PROVE  /\ call'[c].at = "paying" <=> call[c].at = "paying"
                 /\ call[c].at = "paying" => call'[c].kind = call[c].kind
      <4>1. CASE call[c].tab # t
        BY <3>2, <4>1
      <4>2. CASE call[c].tab = t /\ call[c].at \in Working
        <5>1. call'[c] = [call[c] EXCEPT !.tab = NoTab, !.shown = FALSE]
          BY <3>2, <4>2
        <5> QED
          BY <3>1, <5>1 DEF TypeCalls, CallRows
      <4>3. CASE call[c].tab = t /\ call[c].at \notin Working
        BY <3>1, <3>2, <4>3, IdleIsRow
      <4> QED
        BY <4>1, <4>2, <4>3
    <3> QED
      BY <3>3 DEF Paying
  <2> QED
    BY <2>1, <2>2, <2>3
<1> QED
  BY <1>1, <1>2, OrderKept DEF PayingKept, UnchangedServers

\* The gateway takes the ticket for one purchase, which becomes the order.
LEMMA OrderVerify ==
  ASSUME OrderInv, TypeOK', NEW c \in Calls, Verify(c)
  PROVE  OrderInv'
<1>1. c \notin Paying /\ call[c].kind \in {"buy", "try"} /\ UNCHANGED <<returned, orders, burnt>>
  BY DEF Verify, Paying, UnchangedFaults
<1>2. CASE gate' = gate /\ (Answer(c, "invalid") \/ Answer(c, "used"))
  BY <1>1, <1>2, AnswerKeepsPaying, OrderKept DEF PayingKept
<1>3. CASE ~gate.used /\ Answer(c, "paying") /\ gate' = [gate EXCEPT !.used = TRUE]
  <2>1. Paying = {} /\ orders = 0
    BY <1>3 DEF OrderInv
  <2>2. Paying' = {c} /\ call'[c].kind \in {"buy", "try"}
    BY <1>1, <1>3, <2>1, Parts DEF OrderInv, TypeCalls, CallRows, Answer, Paying
  <2>3. gate'.used = TRUE
    BY <1>3, Parts DEF OrderInv, TypeServers
  <2> QED
    BY <1>1, <2>1, <2>2, <2>3 DEF OrderInv
<1>4. \/ gate' = gate /\ (Answer(c, "invalid") \/ Answer(c, "used"))
      \/ ~gate.used /\ Answer(c, "paying") /\ gate' = [gate EXCEPT !.used = TRUE]
  <2>1. gate.live \in BOOLEAN /\ gate.used \in BOOLEAN
    BY Parts DEF OrderInv, TypeServers
  <2> QED
    BY <2>1, Zenon DEF Verify
<1> QED
  BY <1>2, <1>3, <1>4

LEMMA OrderConfirm ==
  ASSUME OrderInv, TypeOK', NEW c \in Calls, Confirm(c)
  PROVE  OrderInv'
<1>1. c \in Paying /\ orders' = orders + 1 /\ Answer(c, "ordered") /\ UNCHANGED <<gate, burnt>>
  BY DEF Confirm, Paying, UnchangedFaults
<1>2. Paying = {c} /\ orders = 0 /\ gate.used
  BY <1>1 DEF OrderInv
<1>3. Paying' = {}
  BY <1>1, <1>2, Parts DEF OrderInv, TypeCalls, CallRows, Answer, Paying
<1> QED
  BY <1>1, <1>2, <1>3 DEF OrderInv

LEMMA OrderServed ==
  ASSUME OrderInv, TypeOK', NEW c \in Calls, Served(c)
  PROVE  OrderInv'
<1>1. CASE JoinServed(c) \/ StatusServed(c) \/ Release(c) \/ ReturnUnit(c) \/ LogRelease(c)
  <2>1. c \in Calls \ Paying
    BY <1>1 DEF JoinServed, StatusServed, Release, ReturnUnit, LogRelease, Paying
  <2>2. TypeServers
    BY Parts DEF OrderInv
  <2>3. orders' = orders /\ gate'.used = gate.used /\ burnt' = burnt
    BY <1>1, <2>2 DEF JoinServed, StatusServed, Release, ReturnUnit, LogRelease, UnchangedServers, UnchangedFaults, TypeServers
  <2>4. \E a : a # "paying" /\ Answer(c, a)
    <3>1. CASE JoinServed(c)
      <4>1. \/ Answer(c, "already") \/ Answer(c, StatusNow)
            \/ \E r \in Results \ {"won"} : Answer(c, IF r = "none" THEN "error" ELSE r)
        BY <3>1, Zenon DEF JoinServed
      <4>2. StatusNow # "paying"
        BY <2>2 DEF StatusNow, TypeServers, Results
      <4> QED
        BY <4>1, <4>2 DEF Results
    <3>2. CASE StatusServed(c)
      BY <2>2, <3>2 DEF StatusServed, StatusNow, TypeServers, Results
    <3>3. CASE Release(c) \/ ReturnUnit(c) \/ LogRelease(c)
      BY <3>3 DEF Release, ReturnUnit, LogRelease
    <3> QED
      BY <1>1, <3>1, <3>2, <3>3
  <2> QED
    BY <2>1, <2>3, <2>4, AnswerKeepsPaying, OrderKept DEF PayingKept
<1> QED
  BY <1>1, OrderVerify, OrderConfirm DEF Served

LEMMA OrderAnswered ==
  ASSUME OrderInv, TypeOK', NEW c \in Calls, Answered(c)
  PROVE  OrderInv'
<1>1. call[c].at \in Answers
  BY DEF Answered, TakeJoin, TakeJoinLapsed, TakeSdkPoll, TakePoll, TakeBuy, TakeTry, TakeFail, Forgotten, Answers
<1>2. c \in Calls \ Paying
  BY <1>1 DEF Answers, Paying
<1>3. UnchangedServers /\ UnchangedFaults
  BY AnsweredMoves
<1>4. Paying' = Paying /\ \A d \in Paying : call'[d].kind = call[d].kind
  <2>1. CASE (\E s \in Screens : GoTo(call[c].tab, s, {c})) \/ Stay({c})
    BY <1>2, <2>1, GoToKeepsPaying
  <2>2. CASE Answer(c, "sent")
    BY <1>2, <2>2, AnswerKeepsPaying
  <2>3. CASE call' = [call EXCEPT ![c].kind = "sdk_poll", ![c].at = "sent"]
    <3> DEFINE row == [call[c] EXCEPT !.kind = "sdk_poll", !.at = "sent"]
    <3>1. row.at = "sent" /\ call' = [call EXCEPT ![c] = row]
      BY <2>3, Parts DEF OrderInv, TypeCalls, CallRows
    <3> HIDE DEF row
    <3> QED
      BY <1>2, <3>1, RowKeepsPaying
  <2>4. CASE call' = [call EXCEPT ![c] = Idle]
    BY <1>2, <2>4, IdleIsRow, RowKeepsPaying
  <2> QED
    BY <2>1, <2>2, <2>3, <2>4, AnsweredMoves
<1> QED
  BY <1>3, <1>4, OrderKept DEF PayingKept, UnchangedServers, UnchangedFaults

\* A fault may burn the ticket, and says so.
LEMMA OrderFaults ==
  ASSUME OrderInv, TypeOK', NEW c \in Calls, RequestDies(c) \/ ReplyLost(c) \/ VerifyTimesOut(c)
  PROVE  OrderInv'
<1>1. /\ Answer(c, "error") /\ orders' = orders
      /\ burnt' = (burnt \/ call[c].kind \in {"buy", "fail", "try"})
  BY DEF RequestDies, ReplyLost, VerifyTimesOut, Fault
<1>2. gate.used => gate'.used
  BY Parts DEF OrderInv, TypeServers, RequestDies, ReplyLost, VerifyTimesOut
<1>3. CASE c \in Paying
  <2>1. Paying' \subseteq Paying /\ (\A d \in Paying' : call'[d].kind = call[d].kind)
    BY <1>1, Parts DEF OrderInv, TypeCalls, CallRows, Answer, Paying
  <2>2. gate' = gate /\ burnt' = TRUE
    BY <1>1, <1>3 DEF RequestDies, ReplyLost, VerifyTimesOut, OrderInv, Paying
  <2> QED
    BY <1>1, <1>3, <2>1, <2>2 DEF OrderInv
<1>4. CASE c \notin Paying
  <2>1. Paying' = Paying /\ \A d \in Paying : call'[d].kind = call[d].kind
    BY <1>1, <1>4, AnswerKeepsPaying
  <2>2. CASE gate' = gate
    BY <1>1, <2>1, <2>2, OrderKept DEF PayingKept
  <2>3. CASE VerifyTimesOut(c)
    <3>1. ~gate.used /\ burnt' = TRUE /\ gate' = [gate EXCEPT !.used = TRUE]
      BY <1>1, <2>3 DEF VerifyTimesOut
    <3>2. gate'.used = TRUE
      BY <3>1, Parts DEF OrderInv, TypeServers
    <3> QED
      BY <1>1, <2>1, <3>1, <3>2 DEF OrderInv
  <2> QED
    BY <2>2, <2>3 DEF RequestDies, ReplyLost
<1> QED
  BY <1>3, <1>4

LEMMA OrderOthers ==
  ASSUME OrderInv, TypeOK',
         Drain \/ Lapse \/ (\E t \in Tabs, fit \in BOOLEAN : SaveKeys(t, fit)) \/ UNCHANGED vars
  PROVE  OrderInv'
<1>1. UNCHANGED <<call, orders, burnt>> /\ gate'.used = gate.used
  BY Parts DEF OrderInv, TypeServers, Drain, Lapse, SaveKeys, UnchangedFaults, vars
<1> QED
  BY <1>1, OrderKept DEF PayingKept, Paying

LEMMA OrderNext == ASSUME OrderInv, [Next]_vars PROVE OrderInv'
<1>1. TypeOK'
  BY TypeNext DEF OrderInv
<1> QED
  BY <1>1, OrderBegins, OrderScreens, OrderServed, OrderAnswered, OrderFaults, OrderOthers DEF Next, Learns

\* A ticket buys one order, however many tabs, retries after lost replies and second tries
\* there are (server.ts:153-160).
THEOREM OneTicketOneOrder == Spec => []OneOrder
<1>1. OrderInv => OneOrder
  BY DEF OrderInv, OneOrder
<1> QED
  BY <1>1, OrderInit, OrderNext, PTL DEF Spec

\* A ticket that is used has bought its order or is just being paid for, unless a request or
\* a reply was lost (server.ts:149-189).
THEOREM OnlyFaultsBurn == Spec => []BurntOnlyByFault
<1>1. OrderInv => BurntOnlyByFault
  BY DEF OrderInv, BurntOnlyByFault, Paying
<1> QED
  BY <1>1, OrderInit, OrderNext, PTL DEF Spec

-----------------------------------------------------------------------------
(* Sold or returned.  What keeps a purchase and a release apart is that a   *)
(* checkout screen has one such call at a time, and that there is one       *)
(* checkout screen: as long as nothing was lost and the ticket was not      *)
(* crowded, the call that used the ticket, or gave it back, is still the    *)
(* one its screen waits for, or no checkout screen is left.                 *)

Clean == ~burnt /\ ~crowded
Deals == {c \in Calls : call[c].kind \in {"buy", "fail"}}
Bought(c) == call[c].kind = "buy" /\ call[c].at \in {"paying", "ordered"}
Gave(c)   == call[c].kind = "fail" /\ call[c].at \in {"logging", "released"}

\* A confirmed order and a second try come after the ticket was used, and only a release
\* returns and logs.
UsedInv ==
  /\ \A c \in Calls : call[c].at \in {"returning", "logging"} => call[c].kind = "fail"
  /\ \A c \in Calls : call[c].at = "ordered" => gate.used
  /\ \A c \in Calls : call[c].kind = "try" => gate.used /\ call[c].at # "paying"
  /\ \A t \in Tabs : tab[t].screen = "confirmed" => gate.used

DealInv ==
  /\ \A s, t \in OnCheckout : s = t
  /\ \A c \in Deals : call[c].shown /\ call[c].tab \in OnCheckout
  /\ \A c, d \in Deals : c = d
  /\ ~(gate.used /\ returned > 0)
  /\ gate.used /\ OnCheckout # {} => \E c \in Deals : Bought(c)
  /\ returned > 0 /\ OnCheckout # {} => \E c \in Deals : Gave(c)

SoldInv == OrderInv /\ UsedInv /\ (Clean => DealInv)

LEMMA SoldTypes ==
  ASSUME SoldInv
  PROVE  /\ TypeCalls /\ TypeServers /\ tab \in [Tabs -> TabRows]
         /\ burnt \in BOOLEAN /\ crowded \in BOOLEAN
  BY Parts DEF SoldInv, OrderInv, TypeTabs, TypeHistory

LEMMA SoldInit == Init => SoldInv
<1> SUFFICES ASSUME Init PROVE SoldInv
  OBVIOUS
<1>1. OrderInv
  BY OrderInit
<1>2. \A c \in Calls : call[c].kind = "poll" /\ call[c].at = "idle"
  BY DEF Init, Idle
<1>3. \A t \in Tabs : tab[t].screen \in {"product", "config"}
  BY DEF Init, Fresh, Unset
<1>4. Deals = {} /\ OnCheckout = {}
  BY <1>2, <1>3 DEF Deals, OnCheckout
<1>5. gate.used = FALSE /\ returned = 0
  BY DEF Init
<1>6. UsedInv
  BY <1>2, <1>3 DEF UsedInv
<1>7. DealInv
  BY <1>4, <1>5 DEF DealInv
<1> QED
  BY <1>1, <1>6, <1>7 DEF SoldInv

\* What happens to calls that are no deals, on tabs that keep their screens.
LEMMA UsedKept ==
  ASSUME UsedInv, gate.used => gate'.used,
         \A c \in Calls : call'[c].at = "ordered" => call[c].at = "ordered",
         \A c \in Calls : call'[c].at \in {"returning", "logging"} => call'[c].at = call[c].at /\ call'[c].kind = call[c].kind,
         \A c \in Calls : call'[c].kind = "try" => call[c].kind = "try" /\ (call'[c].at = "paying" => call[c].at = "paying"),
         \A t \in Tabs : tab'[t].screen = "confirmed" => tab[t].screen = "confirmed" \/ gate'.used
  PROVE  UsedInv'
  BY DEF UsedInv

DealsKept == Deals' = Deals /\ \A c \in Deals : call'[c] = call[c]

LEMMA DealKept ==
  ASSUME Clean => DealInv, Clean' => Clean, DealsKept, OnCheckout' = OnCheckout,
         gate'.used = gate.used, returned' = returned
  PROVE  Clean' => DealInv'
  BY DEF DealInv, DealsKept, Bought, Gave

\* Without a checkout screen, nothing but the ticket matters.
LEMMA NoDeals ==
  ASSUME DealInv, OnCheckout = {}
  PROVE  Deals = {}
  BY DEF DealInv

LEMMA EmptyDeal ==
  ASSUME Deals' = {}, OnCheckout' = {}, ~(gate'.used /\ returned' > 0)
  PROVE  DealInv'
  BY DEF DealInv

-----------------------------------------------------------------------------
(* What a tab begins.                                                       *)

LEMMA StartRows ==
  ASSUME TypeCalls, NEW t \in Tabs, NEW c \in Calls, NEW kind \in Kinds, Start(t, c, kind)
  PROVE  /\ call[c].kind = "poll" /\ c \notin Deals
         /\ call'[c] = [tab |-> t, kind |-> kind, at |-> "sent", shown |-> TRUE]
         /\ \A d \in Calls \ {c} : call'[d] = call[d]
  BY DEF TypeCalls, Start, Idle, Deals

LEMMA SoldBegins ==
  ASSUME SoldInv, OrderInv', NEW t \in Tabs, NEW c \in Calls,
         Join(t, c) \/ Poll(t, c) \/ TryAgain(t, c) \/ \E kind \in {"buy", "fail"} : Pay(t, c, kind)
  PROVE  SoldInv'
<1>1. PICK kind \in Kinds : /\ Start(t, c, kind)
                            /\ kind = "try" => TryAgain(t, c)
                            /\ kind \in {"buy", "fail"} => Pay(t, c, kind)
  BY DEF Join, Poll, TryAgain, Pay, Kinds
<1>2. UNCHANGED <<tab, crowded, gate, returned, orders, burnt>>
  BY DEF Join, Poll, TryAgain, Pay, UnchangedServers, UnchangedFaults
<1>3. /\ call[c].kind = "poll" /\ c \notin Deals
      /\ call'[c] = [tab |-> t, kind |-> kind, at |-> "sent", shown |-> TRUE]
      /\ \A d \in Calls \ {c} : call'[d] = call[d]
  BY <1>1, SoldTypes, StartRows
<1>4. OnCheckout' = OnCheckout /\ (Clean' <=> Clean)
  BY <1>2 DEF OnCheckout, Clean
<1>5. UsedInv'
  <2>1. kind = "try" => gate.used
    BY <1>1 DEF TryAgain, TryOffered, SoldInv, UsedInv
  <2>2. \A d \in Calls : call'[d].at = "ordered" => call[d].at = "ordered"
    BY <1>3
  <2>3. ASSUME NEW d \in Calls, call'[d].kind = "try" PROVE gate.used /\ call'[d].at # "paying"
    BY <1>3, <2>1, <2>3 DEF SoldInv, UsedInv
  <2>4. \A d \in Calls : call'[d].at \in {"returning", "logging"} => call'[d].kind = "fail"
    BY <1>3 DEF SoldInv, UsedInv
  <2> QED
    BY <1>2, <2>2, <2>3, <2>4 DEF SoldInv, UsedInv
<1>6. CASE kind \notin {"buy", "fail"}
  <2>1. DealsKept
    BY <1>3, <1>6 DEF DealsKept, Deals
  <2> QED
    BY <1>2, <1>4, <1>5, <2>1, DealKept DEF SoldInv
<1>7. CASE kind \in {"buy", "fail"}
  <2> SUFFICES ASSUME Clean PROVE DealInv'
    BY <1>4, <1>5 DEF SoldInv
  <2>1. DealInv /\ t \in OnCheckout /\ ~Loading(t)
    BY <1>1, <1>7 DEF SoldInv, Pay, PayOffered, OnCheckout
  <2>2. Deals = {}
    <3> SUFFICES ASSUME NEW d \in Deals PROVE FALSE
      OBVIOUS
    <3>1. call[d].shown /\ call[d].tab = t /\ d \in Calls
      BY <2>1 DEF DealInv, Deals
    <3> QED
      BY <2>1, <3>1 DEF Loading, CallsOf, Deals
  <2>3. Deals' = {c}
    BY <1>3, <1>7, <2>2 DEF Deals
  <2>4. ~gate.used /\ ~(returned > 0)
    BY <2>1, <2>2 DEF DealInv
  <2>5. call'[c].shown /\ call'[c].tab \in OnCheckout'
    BY <1>3, <1>4, <2>1
  <2> QED
    BY <1>2, <1>4, <2>1, <2>3, <2>4, <2>5 DEF DealInv
<1> QED
  BY <1>6, <1>7

-----------------------------------------------------------------------------
(* A tab that goes to another screen.                                       *)

LEMMA GoToFacts ==
  ASSUME TypeCalls, tab \in [Tabs -> TabRows], NEW t \in Tabs, NEW s \in Screens, NEW over, GoTo(t, s, over)
  PROVE  /\ \A r \in Tabs : tab'[r].screen = IF r = t THEN s ELSE tab[r].screen
         /\ \A c \in Calls \ over : /\ call'[c].kind = call[c].kind /\ call'[c].at = call[c].at
                                    /\ call[c].tab # t \/ tab[t].screen = s => call'[c] = call[c]
         /\ \A c \in Calls \cap over : call'[c] = Idle
<1>1. Mounted(s).screen = s
  BY DEF Mounted
<1>2. \A r \in Tabs : tab'[r].screen = IF r = t THEN s ELSE tab[r].screen
  BY <1>1 DEF GoTo
<1>3. call' = [c \in Calls |-> IF c \in over THEN Idle ELSE Hidden(t, s)[c]]
  BY DEF GoTo
<1>4. \A c \in Calls \ over : /\ call'[c].kind = call[c].kind /\ call'[c].at = call[c].at
                              /\ call[c].tab # t \/ tab[t].screen = s => call'[c] = call[c]
  BY <1>3, HiddenType DEF Hidden
<1>5. \A c \in Calls \cap over : call'[c] = Idle
  BY <1>3
<1> QED
  BY <1>2, <1>4, <1>5

\* A tab may take an answer and go anywhere but to an order that is not there.
LEMMA SoldGoTo ==
  ASSUME SoldInv, OrderInv', NEW t \in Tabs, NEW s \in Screens, NEW over, GoTo(t, s, over),
         UNCHANGED <<gate, returned, burnt>>,
         s = "confirmed" => gate.used,
         over \cap Deals = {} \/ (s # "checkout" /\ \A c \in over : call[c].tab = t)
  PROVE  SoldInv'
<1>1. /\ TypeCalls /\ tab \in [Tabs -> TabRows]
      /\ \A r \in Tabs : tab'[r].screen = IF r = t THEN s ELSE tab[r].screen
      /\ \A c \in Calls \ over : /\ call'[c].kind = call[c].kind /\ call'[c].at = call[c].at
                                 /\ call[c].tab # t \/ tab[t].screen = s => call'[c] = call[c]
      /\ \A c \in Calls \cap over : call'[c] = Idle
  BY SoldTypes, GoToFacts
<1>2. Idle.kind = "poll" /\ Idle.at = "idle"
  BY DEF Idle
<1>3. UsedInv'
  BY <1>1, <1>2, UsedKept DEF SoldInv
<1>4. crowded' = (\/ crowded
                  \/ s = "checkout" /\ tab[t].screen # s /\ Taken(t)
                  \/ tab[t].screen = "checkout" /\ s # "checkout"
                       /\ \E c \in CallsOf(t) \ over : call[c].shown)
  BY DEF GoTo
<1> SUFFICES ASSUME Clean' PROVE DealInv'
  BY <1>3 DEF SoldInv
<1>5. /\ Clean
      /\ s = "checkout" /\ tab[t].screen # s => ~Taken(t)
      /\ tab[t].screen = "checkout" /\ s # "checkout" => \A c \in CallsOf(t) \ over : ~call[c].shown
  BY <1>4, Zenon DEF Clean
<1>6. DealInv
  BY <1>5 DEF SoldInv
<1>7. Deals' = Deals \ over
  BY <1>1, <1>2 DEF Deals
<1>8. CASE tab[t].screen = s
  <2>1. OnCheckout' = OnCheckout
    BY <1>1, <1>8 DEF OnCheckout
  <2>2. over \cap Deals = {}
    <3>1. ASSUME s # "checkout", NEW c \in over, c \in Deals, call[c].tab = t PROVE FALSE
      BY <1>6, <1>8, <3>1 DEF DealInv, OnCheckout
    <3> QED
      BY <3>1
  <2>3. DealsKept
    BY <1>1, <1>7, <1>8, <2>2 DEF DealsKept, Deals
  <2> QED
    BY <1>5, <1>6, <2>1, <2>3, DealKept
<1>9. CASE tab[t].screen # s /\ s = "checkout"
  <2>1. OnCheckout = {} /\ ~gate.used /\ ~(returned > 0)
    BY <1>5, <1>9 DEF Taken, OnCheckout
  <2>2. OnCheckout' = {t}
    BY <1>1, <1>9, <2>1 DEF OnCheckout
  <2>3. Deals' = {}
    BY <1>6, <1>7, <2>1, NoDeals
  <2> QED
    BY <2>1, <2>2, <2>3 DEF DealInv
<1>10. CASE tab[t].screen # s /\ s # "checkout" /\ tab[t].screen = "checkout"
  <2>1. OnCheckout = {t}
    BY <1>6, <1>10 DEF DealInv, OnCheckout
  <2>2. OnCheckout' = {}
    BY <1>1, <1>10, <2>1 DEF OnCheckout
  <2>3. Deals \subseteq over
    BY <1>5, <1>6, <1>10, <2>1 DEF DealInv, CallsOf, Deals
  <2> QED
    BY <1>6, <1>7, <2>2, <2>3, EmptyDeal DEF DealInv
<1>11. CASE tab[t].screen # s /\ s # "checkout" /\ tab[t].screen # "checkout"
  <2>1. OnCheckout' = OnCheckout
    BY <1>1, <1>11 DEF OnCheckout
  <2>2. \A c \in Deals : call[c].tab # t
    BY <1>6, <1>11 DEF DealInv, OnCheckout
  <2>3. Deals' = Deals /\ \A c \in Deals : c \notin over
    BY <1>7, <2>2
  <2>4. DealsKept
    BY <1>1, <2>2, <2>3 DEF DealsKept, Deals
  <2> QED
    BY <1>5, <1>6, <2>1, <2>4, DealKept
<1> QED
  BY <1>8, <1>9, <1>10, <1>11

LEMMA SoldScreens ==
  ASSUME SoldInv, OrderInv', NEW t \in Tabs, Learns(t) \/ Expired(t) \/ Reset(t)
  PROVE  SoldInv'
<1>1. UNCHANGED <<gate, returned, burnt>>
  BY DEF Learns, SaveConfig, Availability, TimeUp, Expired, Reset, UnchangedServers, UnchangedFaults
<1>2. CASE Learns(t)
  <2>1. UNCHANGED <<call, crowded>>
    BY <1>2 DEF Learns, SaveConfig, Availability, TimeUp
  <2>2. \A r \in Tabs : \/ tab'[r].screen = tab[r].screen
                        \/ tab'[r].screen = "product" /\ tab[r].screen = "config"
    BY <1>2, SoldTypes DEF Learns, SaveConfig, Availability, TimeUp, Fresh, Unset, TabRows
  <2>3. OnCheckout' = OnCheckout
    BY <2>2 DEF OnCheckout
  <2>4. UsedInv'
    BY <1>1, <2>1, <2>2, UsedKept DEF SoldInv
  <2>5. Clean' => DealInv'
    BY <1>1, <2>1, <2>3, DealKept DEF SoldInv, Clean, DealsKept, Deals
  <2> QED
    BY <2>4, <2>5 DEF SoldInv
<1>3. CASE Expired(t) \/ Reset(t)
  <2>1. GoTo(t, "product", {})
    BY <1>3 DEF Expired, Reset
  <2> QED
    BY <1>1, <2>1, SoldGoTo DEF Screens
<1> QED
  BY <1>2, <1>3

LEMMA SoldReload ==
  ASSUME SoldInv, OrderInv', NEW t \in Tabs, Reload(t)
  PROVE  SoldInv'
<1>1. UNCHANGED <<gate, returned, burnt>> /\ TypeCalls /\ tab \in [Tabs -> TabRows]
  BY SoldTypes DEF Reload, UnchangedServers
<1>2. tab' = [tab EXCEPT ![t] = Resumed]
  BY DEF Reload
<1>3. ASSUME NEW c \in Calls
      PROVE  /\ call[c].tab # t => call'[c] = call[c]
             /\ call[c].tab = t => \/ call'[c] = Idle
                                   \/ call'[c].kind = call[c].kind /\ call'[c].at = call[c].at
  <2>1. call'[c] = IF call[c].tab # t THEN call[c]
                   ELSE IF call[c].at \in Working THEN [call[c] EXCEPT !.tab = NoTab, !.shown = FALSE]
                   ELSE Idle
    BY DEF Reload
  <2> QED
    BY <1>1, <2>1 DEF TypeCalls, CallRows
<1>4. Idle.kind = "poll" /\ Idle.at = "idle"
  BY DEF Idle
<1>5. Resumed.screen \in {"product", "queue", "checkout"} /\ (Resumed.screen = "checkout" => store = "won_checkout")
  <2>1. store \in {"none", "queued", "won_checkout"}
    BY Parts DEF SoldInv, OrderInv, TypeTabs
  <2>2. Mounted("queue").screen = "queue" /\ Mounted("checkout").screen = "checkout" /\ Fresh.screen = "product"
    BY DEF Mounted, Fresh
  <2> HIDE DEF Mounted
  <2> QED
    BY <2>1, <2>2 DEF Resumed
<1>6. \A r \in Tabs : tab'[r].screen = IF r = t THEN Resumed.screen ELSE tab[r].screen
  BY <1>1, <1>2
<1>7. UsedInv'
  BY <1>1, <1>3, <1>4, <1>5, <1>6, UsedKept DEF SoldInv
<1>8. crowded' = (\/ crowded
                  \/ \E c \in CallsOf(t) : call[c].kind \in {"buy", "fail"}
                  \/ store = "won_checkout" /\ Taken(t))
  BY DEF Reload
<1> SUFFICES ASSUME Clean' PROVE DealInv'
  BY <1>7 DEF SoldInv
<1>9. /\ Clean
      /\ \A c \in CallsOf(t) : call[c].kind \notin {"buy", "fail"}
      /\ store = "won_checkout" => ~Taken(t)
  BY <1>1, <1>8, Zenon DEF Clean
<1>10. DealInv
  BY <1>9 DEF SoldInv
<1>11. \A c \in Deals : call[c].tab # t
  BY <1>9 DEF CallsOf, Deals
<1>12. DealsKept
  BY <1>3, <1>4, <1>11 DEF DealsKept, Deals
<1>13. CASE Resumed.screen = "checkout"
  <2>1. OnCheckout \ {t} = {} /\ ~gate.used /\ ~(returned > 0)
    BY <1>5, <1>9, <1>13 DEF Taken
  <2>2. OnCheckout' = {t}
    BY <1>6, <1>13, <2>1 DEF OnCheckout
  <2>3. Deals = {}
    BY <1>10, <1>11, <2>1 DEF DealInv
  <2> QED
    BY <1>1, <1>12, <2>1, <2>2, <2>3 DEF DealInv, DealsKept
<1>14. CASE Resumed.screen # "checkout"
  <2>1. OnCheckout' = OnCheckout \ {t}
    BY <1>6, <1>14 DEF OnCheckout
  <2> QED
    BY <1>1, <1>10, <1>11, <1>12, <2>1 DEF DealInv, DealsKept, Bought, Gave
<1> QED
  BY <1>13, <1>14

-----------------------------------------------------------------------------
(* The servers at work on a call.                                           *)

LEMMA AnswerRows ==
  ASSUME TypeCalls, NEW c \in Calls, NEW a, Answer(c, a)
  PROVE  /\ call'[c].at = a /\ call'[c].kind = call[c].kind
         /\ call'[c].tab = call[c].tab /\ call'[c].shown = call[c].shown
         /\ \A d \in Calls \ {c} : call'[d] = call[d]
         /\ Deals' = Deals
<1>1. /\ call'[c].at = a /\ call'[c].kind = call[c].kind
      /\ call'[c].tab = call[c].tab /\ call'[c].shown = call[c].shown
      /\ \A d \in Calls \ {c} : call'[d] = call[d]
  BY DEF TypeCalls, CallRows, Answer
<1> QED
  BY <1>1 DEF Deals

\* A call that has neither used the ticket nor given it back comes to an answer.
LEMMA SoldAnswer ==
  ASSUME SoldInv, OrderInv', NEW c \in Calls, NEW a, Answer(c, a),
         a \notin {"ordered", "paying", "returning", "logging"} \/ (a = "returning" /\ call[c].kind = "fail"),
         ~Bought(c), ~Gave(c),
         UNCHANGED <<tab, returned, burnt, crowded>>, gate'.used = gate.used
  PROVE  SoldInv'
<1>1. /\ call'[c].at = a /\ call'[c].kind = call[c].kind
      /\ call'[c].tab = call[c].tab /\ call'[c].shown = call[c].shown
      /\ \A d \in Calls \ {c} : call'[d] = call[d]
      /\ Deals' = Deals
  BY SoldTypes, AnswerRows
<1>2. UsedInv'
  BY <1>1 DEF SoldInv, UsedInv
<1>3. ASSUME Clean' PROVE DealInv'
  <2>1. DealInv /\ OnCheckout' = OnCheckout
    BY <1>3 DEF SoldInv, Clean, OnCheckout
  <2> QED
    BY <1>1, <2>1 DEF DealInv, Bought, Gave, Deals
<1> QED
  BY <1>2, <1>3 DEF SoldInv

LEMMA StatusNowNames == TypeServers => StatusNow \in {"won", "lapsed", "missing", "queued", "sold_out"}
  BY DEF TypeServers, Results, StatusNow

\* The gateway answers a join or a poll.
LEMMA SoldStatus ==
  ASSUME SoldInv, OrderInv', NEW c \in Calls, JoinServed(c) \/ StatusServed(c)
  PROVE  SoldInv'
<1>1. UNCHANGED <<tab, returned, burnt, crowded>> /\ ~Bought(c) /\ ~Gave(c)
  BY DEF JoinServed, StatusServed, UnchangedServers, UnchangedTabs, UnchangedFaults, Bought, Gave
<1>2. gate'.used = gate.used
  BY SoldTypes DEF JoinServed, StatusServed, UnchangedServers, TypeServers
<1>3. \E a : a \notin {"ordered", "paying", "returning", "logging"} /\ Answer(c, a)
  <2>1. CASE JoinServed(c)
    <3>1. \/ Answer(c, "already") \/ Answer(c, StatusNow)
          \/ \E r \in Results \ {"won"} : Answer(c, IF r = "none" THEN "error" ELSE r)
      BY <2>1, Zenon DEF JoinServed
    <3> QED
      BY <3>1, StatusNowNames, SoldTypes DEF Results
  <2>2. CASE StatusServed(c)
    BY <2>2, StatusNowNames, SoldTypes DEF StatusServed
  <2> QED
    BY <2>1, <2>2
<1> QED
  BY <1>1, <1>2, <1>3, SoldAnswer

LEMMA SoldVerify ==
  ASSUME SoldInv, OrderInv', NEW c \in Calls, Verify(c)
  PROVE  SoldInv'
<1>1. /\ call[c].at = "sent" /\ call[c].kind \in {"buy", "try"} /\ ~Bought(c) /\ ~Gave(c)
      /\ UNCHANGED <<tab, returned, burnt, crowded>>
  BY DEF Verify, UnchangedTabs, UnchangedFaults, Bought, Gave
<1>2. CASE gate' = gate /\ (Answer(c, "invalid") \/ Answer(c, "used"))
  BY <1>1, <1>2, SoldAnswer
<1>3. CASE ~gate.used /\ Answer(c, "paying") /\ gate' = [gate EXCEPT !.used = TRUE]
  <2>1. /\ call'[c].at = "paying" /\ call'[c].kind = call[c].kind
        /\ call'[c].tab = call[c].tab /\ call'[c].shown = call[c].shown
        /\ \A d \in Calls \ {c} : call'[d] = call[d]
        /\ Deals' = Deals
    BY <1>3, SoldTypes, AnswerRows
  <2>2. gate'.used = TRUE
    BY <1>3, SoldTypes DEF TypeServers
  <2>3. call[c].kind = "buy"
    BY <1>1, <1>3 DEF SoldInv, UsedInv
  <2>4. UsedInv'
    BY <1>1, <2>1, <2>2, <2>3 DEF SoldInv, UsedInv
  <2>5. ASSUME Clean' PROVE DealInv'
    <3>1. DealInv /\ OnCheckout' = OnCheckout /\ c \in Deals
      BY <1>1, <2>3, <2>5 DEF SoldInv, Clean, OnCheckout, Deals
    <3>2. ~(returned > 0)
      BY <1>1, <3>1 DEF DealInv, Gave
    <3> QED
      BY <1>1, <2>1, <2>3, <3>1, <3>2 DEF DealInv, Bought, Deals
  <2> QED
    BY <2>4, <2>5 DEF SoldInv
<1>4. \/ gate' = gate /\ (Answer(c, "invalid") \/ Answer(c, "used"))
      \/ ~gate.used /\ Answer(c, "paying") /\ gate' = [gate EXCEPT !.used = TRUE]
  <2>1. gate.live \in BOOLEAN /\ gate.used \in BOOLEAN
    BY SoldTypes DEF TypeServers
  <2> QED
    BY <2>1, Zenon DEF Verify
<1> QED
  BY <1>2, <1>3, <1>4

LEMMA SoldConfirm ==
  ASSUME SoldInv, OrderInv', NEW c \in Calls, Confirm(c)
  PROVE  SoldInv'
<1>1. /\ c \in Paying /\ Answer(c, "ordered")
      /\ UNCHANGED <<gate, tab, returned, burnt, crowded>>
  BY DEF Confirm, Paying, UnchangedTabs, UnchangedFaults
<1>2. call[c].kind = "buy" /\ gate.used
  BY <1>1 DEF SoldInv, OrderInv, UsedInv, Paying
<1>3. /\ call'[c].at = "ordered" /\ call'[c].kind = call[c].kind
      /\ call'[c].tab = call[c].tab /\ call'[c].shown = call[c].shown
      /\ \A d \in Calls \ {c} : call'[d] = call[d]
      /\ Deals' = Deals
  BY <1>1, SoldTypes, AnswerRows
<1>4. UsedInv'
  BY <1>1, <1>2, <1>3 DEF SoldInv, UsedInv
<1>5. ASSUME Clean' PROVE DealInv'
  <2>1. DealInv /\ OnCheckout' = OnCheckout /\ c \in Deals
    BY <1>1, <1>2, <1>5 DEF SoldInv, Clean, OnCheckout, Deals
  <2> QED
    BY <1>1, <1>2, <1>3, <2>1 DEF DealInv, Bought, Deals
<1> QED
  BY <1>4, <1>5 DEF SoldInv

\* The unit goes back, and then the release is logged.
LEMMA SoldReturn ==
  ASSUME SoldInv, OrderInv', NEW c \in Calls, ReturnUnit(c) \/ LogRelease(c)
  PROVE  SoldInv'
<1>1. PICK a \in {"logging", "released"} :
         /\ Answer(c, a)
         /\ a = "released" => returned' = returned /\ call[c].at = "logging"
         /\ call[c].at \in {"returning", "logging"}
  BY DEF ReturnUnit, LogRelease
<1>2. gate'.used = gate.used /\ UNCHANGED <<tab, burnt, crowded>>
  BY SoldTypes DEF ReturnUnit, LogRelease, UnchangedTabs, UnchangedFaults, TypeServers
<1>3. call[c].kind = "fail"
  BY <1>1 DEF SoldInv, UsedInv
<1>4. /\ call'[c].at = a /\ call'[c].kind = call[c].kind
      /\ call'[c].tab = call[c].tab /\ call'[c].shown = call[c].shown
      /\ \A d \in Calls \ {c} : call'[d] = call[d]
      /\ Deals' = Deals
  BY <1>1, SoldTypes, AnswerRows
<1>5. UsedInv'
  BY <1>2, <1>3, <1>4 DEF SoldInv, UsedInv
<1>6. ASSUME Clean' PROVE DealInv'
  <2>1. DealInv /\ OnCheckout' = OnCheckout /\ c \in Deals
    BY <1>2, <1>3, <1>6 DEF SoldInv, Clean, OnCheckout, Deals
  <2>2. ~gate.used
    BY <1>3, <2>1 DEF DealInv, Bought
  <2>3. Gave(c)'
    BY <1>3, <1>4 DEF Gave
  <2> QED
    BY <1>2, <1>4, <2>1, <2>2, <2>3 DEF DealInv, Deals
<1> QED
  BY <1>5, <1>6 DEF SoldInv

LEMMA SoldServed ==
  ASSUME SoldInv, OrderInv', NEW c \in Calls, Served(c)
  PROVE  SoldInv'
<1>1. CASE Release(c)
  <2>1. UNCHANGED <<gate, tab, returned, burnt, crowded>> /\ ~Bought(c) /\ ~Gave(c) /\ call[c].kind = "fail"
    BY <1>1 DEF Release, UnchangedServers, UnchangedTabs, UnchangedFaults, Bought, Gave
  <2>2. Answer(c, "error") \/ Answer(c, "returning")
    BY <1>1 DEF Release
  <2> QED
    BY <2>1, <2>2, SoldAnswer
<1> QED
  BY <1>1, SoldStatus, SoldVerify, SoldConfirm, SoldReturn DEF Served

-----------------------------------------------------------------------------
(* The answers and the faults.                                              *)

\* A call is over and its tab stays: it has neither used the ticket nor given it back, or
\* its page is gone.
LEMMA SoldOver ==
  ASSUME SoldInv, OrderInv', NEW c \in Calls,
         call[c].tab = NoTab \/ (~Bought(c) /\ ~Gave(c)),
         call' = [call EXCEPT ![c] = Idle],
         \A t \in Tabs : tab'[t].screen = tab[t].screen,
         UNCHANGED <<gate, returned, burnt, crowded>>
  PROVE  SoldInv'
<1>1. call'[c] = Idle /\ \A d \in Calls \ {c} : call'[d] = call[d]
  BY SoldTypes DEF TypeCalls
<1>2. Idle.kind = "poll" /\ Idle.at = "idle"
  BY DEF Idle
<1>3. UsedInv'
  BY <1>1, <1>2, UsedKept DEF SoldInv
<1>4. Deals' = Deals \ {c} /\ OnCheckout' = OnCheckout
  BY <1>1, <1>2 DEF Deals, OnCheckout
<1>5. ASSUME Clean' PROVE DealInv'
  <2>1. DealInv
    BY <1>5 DEF SoldInv, Clean
  <2>2. c \in Deals => ~Bought(c) /\ ~Gave(c)
    BY <2>1, DemoShopAssumption DEF DealInv, OnCheckout
  <2>3. \A d \in Deals \ {c} : call'[d] = call[d]
    BY <1>1 DEF Deals
  <2> QED
    BY <1>4, <2>1, <2>2, <2>3 DEF DealInv, Bought, Gave
<1> QED
  BY <1>3, <1>5 DEF SoldInv

LEMMA SoldStay ==
  ASSUME SoldInv, OrderInv', NEW c \in Calls, Stay({c}), UnchangedOutside,
         call[c].tab = NoTab \/ call[c].at \in {"used", "error"} \/ c \notin Deals
  PROVE  SoldInv'
<1>1. call' = [call EXCEPT ![c] = Idle]
  BY SoldTypes DEF Stay, TypeCalls
<1>2. UNCHANGED <<gate, returned, burnt, crowded, tab>>
  BY DEF Stay, UnchangedOutside, UnchangedServers, UnchangedFaults
<1>3. call[c].tab = NoTab \/ (~Bought(c) /\ ~Gave(c))
  BY DEF Bought, Gave, Deals
<1> QED
  BY <1>1, <1>2, <1>3, SoldOver

\* An answer that moves its tab: the one of a purchase or a release takes it off the
\* checkout screen.
LEMMA SoldMove ==
  ASSUME SoldInv, OrderInv', NEW c \in Calls, call[c].tab # NoTab, NEW s \in Screens,
         GoTo(call[c].tab, s, {c}), UnchangedOutside,
         s = "confirmed" => gate.used,
         s = "checkout" => c \notin Deals
  PROVE  SoldInv'
<1>1. call[c].tab \in Tabs
  BY SoldTypes DEF TypeCalls, CallRows
<1>2. UNCHANGED <<gate, returned, burnt>>
  BY DEF UnchangedOutside, UnchangedServers, UnchangedFaults
<1>3. {c} \cap Deals = {} \/ (s # "checkout" /\ \A d \in {c} : call[d].tab = call[c].tab)
  OBVIOUS
<1> QED
  BY <1>1, <1>2, <1>3, SoldGoTo

\* The SDK asks again.
LEMMA SoldAgain ==
  ASSUME SoldInv, OrderInv', NEW c \in Calls, call[c].kind \in {"join", "sdk_poll"},
         call' = [call EXCEPT ![c].kind = "sdk_poll", ![c].at = "sent"] \/ Answer(c, "sent"),
         UNCHANGED <<tab, store, crowded>>, UnchangedOutside
  PROVE  SoldInv'
<1>1. UNCHANGED <<gate, returned, burnt>>
  BY DEF UnchangedOutside, UnchangedServers, UnchangedFaults
<1>2. /\ call'[c].kind \in {"join", "sdk_poll"} /\ call'[c].at = "sent"
      /\ \A d \in Calls \ {c} : call'[d] = call[d]
  BY SoldTypes DEF TypeCalls, CallRows, Answer
<1>3. UsedInv'
  BY <1>1, <1>2, UsedKept DEF SoldInv
<1>4. DealsKept /\ OnCheckout' = OnCheckout
  BY <1>2 DEF DealsKept, Deals, OnCheckout
<1> QED
  BY <1>1, <1>3, <1>4, DealKept DEF SoldInv, Clean

LEMMA SoldTakeOther ==
  ASSUME SoldInv, OrderInv', NEW c \in Calls, TakeJoin(c) \/ TakeJoinLapsed(c) \/ TakeSdkPoll(c) \/ TakePoll(c)
  PROVE  SoldInv'
<1>1. c \notin Deals /\ call[c].tab # NoTab
  BY DEF TakeJoin, TakeJoinLapsed, TakeSdkPoll, TakePoll, Deals
<1>2. \/ (\E s \in Screens \ {"confirmed"} : GoTo(call[c].tab, s, {c})) /\ UnchangedOutside
      \/ Stay({c}) /\ UnchangedOutside
      \/ /\ call[c].kind \in {"join", "sdk_poll"}
         /\ call' = [call EXCEPT ![c].kind = "sdk_poll", ![c].at = "sent"] \/ Answer(c, "sent")
         /\ UNCHANGED <<tab, store, crowded>> /\ UnchangedOutside
  <2> USE DEF Won, SoldOut, Ignored, Screens
  <2>1. CASE TakeJoin(c)
    BY <2>1 DEF TakeJoin
  <2>2. CASE TakeJoinLapsed(c)
    BY <2>2 DEF TakeJoinLapsed
  <2>3. CASE TakeSdkPoll(c)
    BY <2>3 DEF TakeSdkPoll
  <2>4. CASE TakePoll(c)
    BY <2>4 DEF TakePoll
  <2> QED
    BY <2>1, <2>2, <2>3, <2>4
<1> QED
  BY <1>1, <1>2, SoldMove, SoldStay, SoldAgain

LEMMA SoldTakeDeal ==
  ASSUME SoldInv, OrderInv', NEW c \in Calls, TakeBuy(c) \/ TakeFail(c)
  PROVE  SoldInv'
<1>1. CASE TakeBuy(c)
  <2>1. call[c].tab # NoTab /\ UnchangedOutside
    BY <1>1 DEF TakeBuy, Ignored
  <2>2. CASE call[c].at = "ordered" /\ GoTo(call[c].tab, "confirmed", {c})
    BY <2>1, <2>2, SoldMove DEF SoldInv, UsedInv, Screens
  <2>3. CASE GoTo(call[c].tab, "product", {c})
    BY <2>1, <2>3, SoldMove DEF Screens
  <2>4. CASE call[c].at \in {"used", "error"} /\ Stay({c})
    BY <2>1, <2>4, SoldStay
  <2> QED
    BY <1>1, <2>2, <2>3, <2>4 DEF TakeBuy, Ignored
<1>2. CASE TakeFail(c)
  <2>1. call[c].tab # NoTab /\ UnchangedOutside
    BY <1>2 DEF TakeFail, Ignored
  <2>2. CASE GoTo(call[c].tab, "released", {c})
    BY <2>1, <2>2, SoldMove DEF Screens
  <2>3. CASE call[c].at = "error" /\ Stay({c})
    BY <2>1, <2>3, SoldStay
  <2> QED
    BY <1>2, <2>2, <2>3 DEF TakeFail, Ignored
<1> QED
  BY <1>1, <1>2

LEMMA SoldTakeTry ==
  ASSUME SoldInv, OrderInv', NEW c \in Calls, TakeTry(c)
  PROVE  SoldInv'
<1>1. ~Bought(c) /\ ~Gave(c) /\ call' = [call EXCEPT ![c] = Idle] /\ UNCHANGED crowded /\ UnchangedOutside
  BY DEF TakeTry, Bought, Gave
<1>2. UNCHANGED <<gate, returned, burnt>>
  BY <1>1 DEF UnchangedOutside, UnchangedServers, UnchangedFaults
<1>3. tab' = tab \/ tab' = [tab EXCEPT ![call[c].tab].page = "tried"]
  BY Zenon DEF TakeTry
<1>4. \A t \in Tabs : tab'[t].screen = tab[t].screen
  BY <1>3, SoldTypes DEF TabRows
<1> QED
  BY <1>1, <1>2, <1>4, SoldOver

LEMMA SoldAnswered ==
  ASSUME SoldInv, OrderInv', NEW c \in Calls, Answered(c)
  PROVE  SoldInv'
<1>1. CASE Forgotten(c)
  BY <1>1, SoldStay DEF Forgotten
<1> QED
  BY <1>1, SoldTakeOther, SoldTakeDeal, SoldTakeTry DEF Answered

\* A fault over a purchase or a release burns the ticket; any other leaves them alone.
LEMMA SoldFaults ==
  ASSUME SoldInv, OrderInv', NEW c \in Calls, RequestDies(c) \/ ReplyLost(c) \/ VerifyTimesOut(c)
  PROVE  SoldInv'
<1>1. /\ Answer(c, "error") /\ UNCHANGED <<tab, crowded, returned>>
      /\ burnt' = (burnt \/ call[c].kind \in {"buy", "fail", "try"})
  BY DEF RequestDies, ReplyLost, VerifyTimesOut, Fault, UnchangedTabs
<1>2. \/ gate' = gate
      \/ gate' = [gate EXCEPT !.used = TRUE] /\ call[c].kind \in {"buy", "try"}
  BY DEF RequestDies, ReplyLost, VerifyTimesOut
<1>3. gate.used => gate'.used
  BY <1>2, SoldTypes DEF TypeServers
<1>4. /\ call'[c].at = "error" /\ call'[c].kind = call[c].kind
      /\ \A d \in Calls \ {c} : call'[d] = call[d]
      /\ Deals' = Deals
  BY <1>1, SoldTypes, AnswerRows
<1>5. UsedInv'
  BY <1>1, <1>3, <1>4, UsedKept DEF SoldInv
<1>6. ASSUME Clean' PROVE DealInv'
  <2>1. Clean /\ call[c].kind \notin {"buy", "fail", "try"}
    BY <1>1, <1>6, Zenon DEF Clean
  <2>2. gate' = gate /\ c \notin Deals
    BY <1>2, <2>1 DEF Deals
  <2>3. DealsKept /\ OnCheckout' = OnCheckout
    BY <1>1, <1>4, <2>2 DEF DealsKept, Deals, OnCheckout
  <2> QED
    BY <1>1, <1>6, <2>1, <2>2, <2>3, DealKept DEF SoldInv
<1> QED
  BY <1>5, <1>6 DEF SoldInv

LEMMA SoldOthers ==
  ASSUME SoldInv, OrderInv',
         Drain \/ Lapse \/ (\E t \in Tabs, fit \in BOOLEAN : SaveKeys(t, fit)) \/ UNCHANGED vars
  PROVE  SoldInv'
<1>1. UNCHANGED <<call, tab, returned, burnt, crowded>> /\ gate'.used = gate.used
  BY SoldTypes DEF Drain, Lapse, SaveKeys, UnchangedTabs, UnchangedFaults, vars, TypeServers
<1>2. UsedInv'
  BY <1>1, UsedKept DEF SoldInv
<1>3. DealsKept /\ OnCheckout' = OnCheckout
  BY <1>1 DEF DealsKept, Deals, OnCheckout
<1> QED
  BY <1>1, <1>2, <1>3, DealKept DEF SoldInv, Clean

LEMMA SoldNext == ASSUME SoldInv, [Next]_vars PROVE SoldInv'
<1>1. OrderInv'
  BY OrderNext DEF SoldInv
<1> QED
  BY <1>1, SoldBegins, SoldScreens, SoldReload, SoldServed, SoldAnswered, SoldFaults, SoldOthers DEF Next, Learns

\* No unit is both sold and given back, as long as the ticket was on one checkout screen
\* only, no call of it outlived its screen and none was lost (CheckoutPage.tsx:82-122).
THEOREM SoldXorReturned == Spec => []SoldOrReturned
<1>1. SoldInv => SoldOrReturned
  <2> SUFFICES ASSUME SoldInv, orders > 0, returned > 0, ~burnt, ~crowded PROVE FALSE
    BY SoldTypes DEF SoldOrReturned
  <2>1. gate.used
    BY DEF SoldInv, OrderInv
  <2> QED
    BY <2>1 DEF SoldInv, Clean, DealInv
<1> QED
  BY <1>1, SoldInit, SoldNext, PTL DEF Spec
=============================================================================
