----------------------------- MODULE WebhookRetry -----------------------------
(***************************************************************************)
(* webhook.service.ts of apps/engine-gateway: a webhook whose delivery     *)
(* fails goes into a capped Redis list, and a worker that starts a pass    *)
(* every five seconds delivers it again, with a growing wait.              *)
(*                                                                         *)
(* A pass works on a copy of the list, one request after the other, while  *)
(* other webhooks push and trim the list itself. Time is what the waits    *)
(* count down; every payload carries its own timestamp, so that entries of *)
(* different webhooks are different.                                       *)
(***************************************************************************)
EXTENDS Integers, Sequences, SequencesExt

CONSTANTS
  Hooks,        \* calls of fireWebhook
  Passes,       \* calls of processRetryQueue that could run at the same time
  MaxEntries,   \* cap of the list
  MaxAttempts,  \* retries
  Backoff,      \* wait before retry n, in ticks of the model's clock
  Faults,       \* the failures that may happen: "crash", "io"
  MaxFaults     \* bound: how many of them happen

ASSUME WebhookAssumption ==
  /\ MaxEntries \in Nat \ {0} /\ MaxAttempts \in Nat \ {0}
  /\ Backoff \in [1..MaxAttempts -> Nat \ {0}]
  /\ Faults \subseteq {"crash", "io"} /\ MaxFaults \in Nat

VARIABLES
  list,         \* flash:webhook:retry: what is waiting, with its attempts and its wait
  sending,      \* hooks in their first delivery
  failing,      \* hooks whose first delivery failed and that are being pushed
  workerBusy,   \* the guard against overlapping passes
  pass,         \* calls of processRetryQueue
  tries,        \* history: how often a hook was sent
  delivered,    \* history: hooks with a delivery that was answered, with any status
  trimmed,      \* history: hooks that LTRIM cut off
  hurt,         \* history: hooks that a crash or a failed command has hit
  faults        \* history: how many faults happened

vars == <<list, sending, failing, workerBusy, pass, tries, delivered, trimmed, hurt, faults>>

Item == [hook : Hooks, attempts : 1..MaxAttempts, wait : Nat]
IdlePass == [pc |-> "idle", todo |-> <<>>, elapsed |-> 0]
PassPc == {"idle", "fetch", "remove", "requeue"}

MaxWait == CHOOSE m \in {Backoff[n] : n \in DOMAIN Backoff} : \A n \in DOMAIN Backoff : Backoff[n] <= m
Countdown(n) == IF n > 0 THEN n - 1 ELSE 0

Init ==
  /\ list = <<>> /\ sending = {} /\ failing = {}
  /\ workerBusy = FALSE
  /\ pass = [p \in Passes |-> IdlePass]
  /\ tries = [h \in Hooks |-> 0]
  /\ delivered = {} /\ trimmed = {} /\ hurt = {} /\ faults = 0

-----------------------------------------------------------------------------
(* fireWebhook.                                                            *)

Fire(h) ==
  /\ tries[h] = 0
  /\ sending' = sending \cup {h}
  /\ tries' = [tries EXCEPT ![h] = 1]
  /\ UNCHANGED <<list, failing, workerBusy, pass, delivered, trimmed, hurt, faults>>

\* Any answer will do; only a network error or five seconds of silence rejects.
FirstAnswered(h) ==
  /\ h \in sending
  /\ sending' = sending \ {h}
  /\ delivered' = delivered \cup {h}
  /\ UNCHANGED <<list, failing, workerBusy, pass, tries, trimmed, hurt, faults>>

FirstFails(h) ==
  /\ h \in sending
  /\ sending' = sending \ {h} /\ failing' = failing \cup {h}
  /\ UNCHANGED <<list, workerBusy, pass, tries, delivered, trimmed, hurt, faults>>

Fault(kind, hooks) ==
  /\ kind \in Faults /\ faults < MaxFaults
  /\ faults' = faults + 1
  /\ hurt' = hurt \cup hooks

\* LTRIM -MaxEntries -1 keeps the newest.
TrimNewest(s) == IF Len(s) > MaxEntries THEN SubSeq(s, 1, MaxEntries) ELSE s
Trim(s) == IF Len(s) > MaxEntries THEN SubSeq(s, Len(s) - MaxEntries + 1, Len(s)) ELSE s
Oldest(s) == {s[i].hook : i \in 1..(Len(s) - MaxEntries)}

\* RPUSH and LTRIM in one pipeline, whose errors nobody reads.
Enqueue(h) ==
  LET pushed == Append(list, [hook |-> h, attempts |-> 1, wait |-> Backoff[1]]) IN
  /\ h \in failing
  /\ failing' = failing \ {h}
  /\ \/ list' = Trim(pushed) /\ trimmed' = trimmed \cup Oldest(pushed) /\ UNCHANGED <<hurt, faults>>
     \/ Fault("io", {h}) /\ UNCHANGED <<list, trimmed>>
  /\ UNCHANGED <<sending, workerBusy, pass, tries, delivered>>

-----------------------------------------------------------------------------
(* processRetryQueue.                                                      *)

FreeUnchecked == TRUE
Free == ~workerBusy

\* The loop over the copy skips what was not due when the pass began: s from its first
\* due entry on.
FromDue(s) ==
  LET due == {i \in DOMAIN s : s[i].wait = 0}
  IN  IF due = {} THEN <<>> ELSE SubSeq(s, Min(due), Len(s))

\* The guard, the clock and LRANGE. A pass without a due entry is over.
StartPass(p) ==
  /\ pass[p] = IdlePass
  /\ Free
  /\ FromDue(list) # <<>>
  /\ workerBusy' = TRUE
  /\ pass' = [pass EXCEPT ![p] = [IdlePass EXCEPT !.pc = "fetch", !.todo = FromDue(list)]]
  /\ UNCHANGED <<list, sending, failing, tries, delivered, trimmed, hurt, faults>>

Current(p) == Head(pass[p].todo)

Exhausted(item) == item.attempts >= MaxAttempts

\* The request for the current entry goes out and is answered, or not.
Retry(p) ==
  /\ pass[p].pc = "fetch"
  /\ tries' = [tries EXCEPT ![Current(p).hook] = @ + 1]
  /\ \/ delivered' = delivered \cup {Current(p).hook}
        /\ pass' = [pass EXCEPT ![p].pc = "remove"]
     \/ pass' = [pass EXCEPT ![p].pc = IF Exhausted(Current(p)) THEN "remove" ELSE "requeue"]
        /\ UNCHANGED delivered
  /\ UNCHANGED <<list, sending, failing, workerBusy, trimmed, hurt, faults>>

\* The next due entry; after the last one the finally clause frees the worker.
FreedNever(p) == workerBusy
Freed(p) == workerBusy /\ FromDue(Tail(pass[p].todo)) # <<>>

NextItem(p) ==
  /\ LET rest == FromDue(Tail(pass[p].todo)) IN
     pass' = [pass EXCEPT ![p] = IF rest = <<>> THEN IdlePass ELSE [@ EXCEPT !.pc = "fetch", !.todo = rest]]
  /\ workerBusy' = Freed(p)

\* LREM key 1 item: the first entry that is equal, if it is still there.
Same(x, y) == x.hook = y.hook /\ x.attempts = y.attempts
Without(s, item) == RemoveFirstMatch(s, LAMBDA x : Same(x, item))

Unlist(p) ==
  /\ pass[p].pc = "remove"
  /\ \/ list' = Without(list, Current(p)) /\ UNCHANGED <<hurt, faults>>
     \/ Fault("io", {Current(p).hook}) /\ UNCHANGED list
  /\ NextItem(p)
  /\ UNCHANGED <<sending, failing, tries, delivered, trimmed>>

\* The wait counts from the start of the pass, which may be long ago. (A missing
\* element of the array makes an entry that is due at once.)
Remaining(n, p) ==
  IF n \in DOMAIN Backoff /\ Backoff[n] > pass[p].elapsed THEN Backoff[n] - pass[p].elapsed ELSE 0

\* LREM and RPUSH in one pipeline; this push does not trim.
PushedOnly(s, item, again) == Append(s, again)
Requeued(s, item, again) == Append(Without(s, item), again)

Requeue(p) ==
  LET item == Current(p)
      again == [item EXCEPT !.attempts = @ + 1, !.wait = Remaining(item.attempts + 1, p)] IN
  /\ pass[p].pc = "requeue"
  /\ \/ list' = Requeued(list, item, again) /\ UNCHANGED <<hurt, faults>>
     \/ Fault("io", {item.hook}) /\ list' \in {list, Without(list, item)}
  /\ NextItem(p)
  /\ UNCHANGED <<sending, failing, tries, delivered, trimmed>>

-----------------------------------------------------------------------------

\* Time passes.
Tick ==
  /\ list' = [i \in DOMAIN list |-> [list[i] EXCEPT !.wait = Countdown(@)]]
  /\ pass' = [p \in Passes |-> IF pass[p].pc = "idle" \/ pass[p].elapsed = MaxWait THEN pass[p]
                               ELSE [pass[p] EXCEPT !.elapsed = @ + 1]]
  /\ <<list, pass>>' # <<list, pass>>
  /\ UNCHANGED <<sending, failing, workerBusy, tries, delivered, trimmed, hurt, faults>>

\* The process dies: the list stays, deliveries in progress are gone.
Crash ==
  /\ Fault("crash", sending \cup failing \cup {Current(p).hook : p \in {q \in Passes : pass[q].pc # "idle"}})
  /\ sending' = {} /\ failing' = {}
  /\ workerBusy' = FALSE
  /\ pass' = [p \in Passes |-> IdlePass]
  /\ UNCHANGED <<list, tries, delivered, trimmed>>

First(h) == FirstAnswered(h) \/ FirstFails(h) \/ Enqueue(h)
PassStep(p) == Retry(p) \/ Unlist(p) \/ Requeue(p)

Next ==
  \/ \E h \in Hooks : Fire(h) \/ First(h)
  \/ \E p \in Passes : StartPass(p) \/ PassStep(p)
  \/ Tick \/ Crash

Spec == Init /\ [][Next]_vars

\* A request ends within five seconds, a command of Redis is answered, the
\* interval fires and time passes.
Fairness ==
  /\ \A h \in Hooks : WF_vars(First(h))
  /\ WF_vars(\E p \in Passes : StartPass(p))
  /\ \A p \in Passes : WF_vars(PassStep(p))
  /\ WF_vars(Tick)

FairSpec == Spec /\ Fairness

-----------------------------------------------------------------------------

\* Every variable has its type.
TypeOK ==
  /\ list \in Seq(Item)
  /\ sending \subseteq Hooks /\ failing \subseteq Hooks
  /\ workerBusy \in BOOLEAN
  /\ pass \in [Passes -> [pc : PassPc, todo : Seq(Item), elapsed : 0..MaxWait]]
  /\ tries \in [Hooks -> Nat]
  /\ delivered \subseteq Hooks /\ trimmed \subseteq Hooks /\ hurt \subseteq Hooks
  /\ faults \in 0..MaxFaults

Waiting(h) == {i \in DOMAIN list : list[i].hook = h}
InHand(h) == {p \in Passes : pass[p].pc # "idle" /\ Current(p).hook = h}
GivenUp(h) == tries[h] = MaxAttempts + 1

\* A webhook that was fired is under way until it is delivered or all retries are
\* used up, unless the cap or a fault has hit it: entries that a pass handles, and
\* those that come in or go meanwhile, do not get lost.
NothingForgotten == \A h \in Hooks : tries[h] > 0 /\ h \notin delivered \cup trimmed \cup hurt =>
  h \in sending \cup failing \/ Waiting(h) # {} \/ InHand(h) # {} \/ GivenUp(h)

\* A webhook that no fault has hit is queued once at most and is not sent more
\* often than its retries allow, though passes work on copies.
QueuedOnce == \A h \in Hooks \ hurt :
  /\ \A i, j \in Waiting(h) : i = j
  /\ tries[h] <= MaxAttempts + 1

\* An answered webhook is not sent again, unless its removal failed.
NotSentAgain == [][\A h \in delivered \ hurt : tries'[h] = tries[h]]_vars

\* Every webhook is delivered or given up in the end.
Settles == \A h \in Hooks : h \in sending ~> h \in delivered \cup trimmed \cup hurt \/ GivenUp(h)
=============================================================================
