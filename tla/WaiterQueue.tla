------------------------------ MODULE WaiterQueue ------------------------------
(***************************************************************************)
(* The wait queue of an endpoint, pkg/waiter, with those who wait the way  *)
(* cmd/tcp/main.go does: register an entry, ask the endpoint, and block on *)
(* the channel of the entry when it would block.  The endpoint changes its *)
(* state under its own lock and notifies the queue after it.               *)
(***************************************************************************)
EXTENDS Integers, Sequences, SequencesExt

CONSTANTS
  Waiters, Notifiers,
  Events,       \* the bits of an EventMask
  Masks,        \* those that are notified, subsets of Events
  MaxReady      \* bound: what is there to fetch, for each event

VARIABLES
  waitList,      \* Queue.list
  mask,         \* Entry.mask
  token,        \* the channel of the entry holds one
  waiterPc,     \* "out", "asks", "turns": refused, and not yet blocked; "waits"
  ready,        \* what the endpoint has, for each event
  notifierPc,   \* "idle", "due", "locked": Notify holds the lock for reading
  notified,     \* the mask it notifies
  rest          \* the waitList it has not come to

wqVars == <<waitList, mask, token, waiterPc, ready, notifierPc, notified, rest>>

WqInit ==
  /\ waitList = <<>> /\ mask = [w \in Waiters |-> {}]
  /\ token = [w \in Waiters |-> FALSE] /\ waiterPc = [w \in Waiters |-> "out"]
  /\ ready = [e \in Events |-> 0]
  /\ notifierPc = [n \in Notifiers |-> "idle"]
  /\ notified = [n \in Notifiers |-> {}] /\ rest = [n \in Notifiers |-> <<>>]

\* Lock: nobody is going through the list.
Unlocked == \A n \in Notifiers : notifierPc[n] # "locked"

EventRegister(w, e) ==
  /\ waiterPc[w] = "out" /\ Unlocked
  /\ mask' = [mask EXCEPT ![w] = {e}]
  /\ waitList' = Append(waitList, w)
  /\ waiterPc' = [waiterPc EXCEPT ![w] = "asks"]
  /\ UNCHANGED <<token, ready, notifierPc, notified, rest>>

EventUnregister(w) ==
  /\ waiterPc[w] = "asks" /\ Unlocked
  /\ waitList' = SelectSeq(waitList, LAMBDA u : u # w)
  /\ waiterPc' = [waiterPc EXCEPT ![w] = "out"]
  /\ UNCHANGED <<mask, token, ready, notifierPc, notified, rest>>

\* The endpoint has something: one waiter takes it.
Takes(w, e) ==
  /\ waiterPc[w] = "asks" /\ e \in mask[w] /\ ready[e] > 0
  /\ ready' = [ready EXCEPT ![e] = @ - 1]
  /\ UNCHANGED <<waitList, mask, token, waiterPc, notifierPc, notified, rest>>

\* ErrWouldBlock.
WouldBlock(w) ==
  /\ waiterPc[w] = "asks" /\ \A e \in mask[w] : ready[e] = 0
  /\ waiterPc' = [waiterPc EXCEPT ![w] = "turns"]
  /\ UNCHANGED <<waitList, mask, token, ready, notifierPc, notified, rest>>

Blocks(w) ==
  /\ waiterPc[w] = "turns"
  /\ waiterPc' = [waiterPc EXCEPT ![w] = "waits"]
  /\ UNCHANGED <<waitList, mask, token, ready, notifierPc, notified, rest>>

\* <-notifyCh: the token may be one of long ago.
Fetches(w) ==
  /\ waiterPc[w] = "waits" /\ token[w]
  /\ token' = [token EXCEPT ![w] = FALSE]
  /\ waiterPc' = [waiterPc EXCEPT ![w] = "asks"]
  /\ UNCHANGED <<waitList, mask, ready, notifierPc, notified, rest>>

\* The endpoint becomes ready for some events, and will notify them.
Produces(n, m) ==
  /\ notifierPc[n] = "idle"
  /\ \A e \in m : ready[e] < MaxReady
  /\ ready' = [e \in Events |-> IF e \in m THEN ready[e] + 1 ELSE ready[e]]
  /\ notifierPc' = [notifierPc EXCEPT ![n] = "due"]
  /\ notified' = [notified EXCEPT ![n] = m]
  /\ UNCHANGED <<waitList, mask, token, waiterPc, rest>>

NotifyBegins(n) ==
  /\ notifierPc[n] = "due"
  /\ notifierPc' = [notifierPc EXCEPT ![n] = "locked"]
  /\ rest' = [rest EXCEPT ![n] = waitList]
  /\ UNCHANGED <<waitList, mask, token, waiterPc, ready, notified>>

\* The channel after Callback: it holds one token, the write does not block.
Callback(w) == TRUE

\* Mistake: one waiter is enough.
NotifyFirstOnly(n) ==
  /\ notifierPc[n] = "locked" /\ rest[n] # <<>>
  /\ LET w == Head(rest[n])
         hit == mask[w] \cap notified[n] # {}
     IN /\ token' = [token EXCEPT ![w] = IF hit THEN Callback(w) ELSE @]
        /\ rest' = [rest EXCEPT ![n] = IF hit THEN <<>> ELSE Tail(@)]
  /\ UNCHANGED <<waitList, mask, waiterPc, ready, notifierPc, notified>>

NotifyNext(n) ==
  /\ notifierPc[n] = "locked" /\ rest[n] # <<>>
  /\ LET w == Head(rest[n])
         hit == mask[w] \cap notified[n] # {}
     IN token' = [token EXCEPT ![w] = IF hit THEN Callback(w) ELSE @]
  /\ rest' = [rest EXCEPT ![n] = Tail(@)]
  /\ UNCHANGED <<waitList, mask, waiterPc, ready, notifierPc, notified>>

NotifyEnds(n) ==
  /\ notifierPc[n] = "locked" /\ rest[n] = <<>>
  /\ notifierPc' = [notifierPc EXCEPT ![n] = "idle"]
  /\ notified' = [notified EXCEPT ![n] = {}]
  /\ UNCHANGED <<waitList, mask, token, waiterPc, ready, rest>>

WaiterStep(w) == \/ WouldBlock(w) \/ Blocks(w) \/ Fetches(w) \/ EventUnregister(w)
                 \/ \E e \in Events : EventRegister(w, e) \/ Takes(w, e)
NotifierStep(n) == NotifyBegins(n) \/ NotifyNext(n) \/ NotifyEnds(n)

WqNext == \/ \E w \in Waiters : WaiterStep(w)
          \/ \E n \in Notifiers : NotifierStep(n)
          \/ \E n \in Notifiers, m \in Masks : Produces(n, m)

\* Goroutines run; nobody has to call the endpoint.
WqFairness == /\ \A n \in Notifiers : WF_wqVars(NotifierStep(n))
              /\ \A w \in Waiters : WF_wqVars(Blocks(w) \/ Fetches(w))

-----------------------------------------------------------------------------
Hungry(w) == waiterPc[w] \in {"turns", "waits"} /\ \E e \in mask[w] : ready[e] > 0

\* He does not stay blocked.
WaitersWake == \A w \in Waiters : Hungry(w) ~> ~Hungry(w)
=============================================================================
