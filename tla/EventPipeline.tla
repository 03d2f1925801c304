--------------------------- MODULE EventPipeline ---------------------------
(***************************************************************************)
(* Events on their way to the sinks: the bus (spt-events/src/bus.rs), the  *)
(* dispatcher task and the spool-retry task (dispatcher.rs), deduplication *)
(* and throttling (binding.rs), and one DiskSpool per sink                 *)
(* (spt-state/src/spool.rs), which outlives the process.                   *)
(*                                                                         *)
(* An event is its place in the order of emission.  A spool is a directory *)
(* of files <<seq, payload>>; a file that this build cannot decode holds   *)
(* Poison, and one that cannot be read at all is bad.  The two tasks take  *)
(* a spool's mutex for one operation at a time and never hold it while     *)
(* they await a sink.                                                      *)
(***************************************************************************)
EXTENDS Integers, Sequences, FiniteSets

CONSTANTS
    Sinks,
    SinkRefs,     \* what the bindings name: sinks, and names of none
    Healing,      \* the sinks whose transient failures end
    Hanging,      \* the sinks without a timeout of their own: deliver may
                  \* never return
    Keys, NoKey,  \* what key_for returns; the key of a binding without dedupe
    Bindings,     \* a sequence of [match, key, throttle, sinks]
    MaxEvent,     \* a bound on the events emitted
    Poison,
    Capacity,     \* EventBusConfig::capacity
    MaxFiles,     \* SpoolConfig::max_files, 0 for no cap
    MaxFaults     \* a bound on failed pushes, bad files and restarts

Events == 1..MaxEvent
NoEvent == 0
NoFile == <<0, NoEvent>>

ASSUME EventAssumption ==
    /\ Sinks \subseteq SinkRefs
    /\ Healing \subseteq Sinks /\ Hanging \subseteq Sinks \ Healing
    /\ MaxEvent \in Nat /\ MaxFiles \in Nat /\ MaxFaults \in Nat
    /\ Capacity \in Nat \ {0}
    /\ Poison \notin Nat
    /\ Bindings \in Seq([match : SUBSET Events, key : [Events -> Keys \cup {NoKey}],
                         throttle : BOOLEAN, sinks : Seq(SinkRefs)])

VARIABLES
    emitted,    \* the events emitted so far are 1..emitted
    buf,        \* what the broadcast channel holds for the dispatcher
    keys,       \* DedupeState: the keys seen within their interval
    recent,     \* ThrottleState: the bindings that delivered within theirs
    dpc,        \* the dispatcher task ...
    ev, bi, si, \* ... its event, and the binding and sink it has come to ...
    draining,   \* ... and whether it has seen the stop signal
    rpc,        \* the retry task ...
    pending,    \* ... the sinks left of the snapshot of this tick ...
    target,     \* ... the sink whose spool it drains (a set of at most one) ...
    peeked,     \* ... and the file it has peeked
    spool,      \* the files of each sink's spool
    nextSeq,    \* DiskSpool::next_seq
    bad,        \* the numbers of the files that cannot be read
    stopping,   \* shutdown has sent both stop signals
    faults,
    left,       \* history: the events the dispatcher has received or never will
    due,        \* history: what the bindings have sent to each sink
    settled     \* history: what each sink has accepted, and what was given up
                \* for it for a reason the code knows

filters == <<keys, recent>>
walk == <<ev, bi, si>>
retry == <<rpc, pending, target, peeked>>
spools == <<spool, nextSeq, bad>>
world == <<stopping, faults>>
history == <<left, due, settled>>
vars == <<emitted, buf, filters, dpc, walk, draining, retry, spools, world, history>>

Fault == faults < MaxFaults /\ faults' = faults + 1
InBuf == {buf[i] : i \in DOMAIN buf}

-----------------------------------------------------------------------------
(* DiskSpool. *)

\* peek: the file with the lowest number.
IsFront(s, f) == f \in spool[s] /\ \A g \in spool[s] : f[1] =< g[1]

\* Whatever is the front goes.
WithoutFront(s, f) == {g \in spool[s] : ~IsFront(s, g)}

\* A file that does not decode stays.
WithoutDecoded(s, f) == IF IsFront(s, f) /\ f[2] # Poison THEN spool[s] \ {f} ELSE spool[s]

\* remove and quarantine: the file goes if it still is the front.
Without(s, f) == IF IsFront(s, f) THEN spool[s] \ {f} ELSE spool[s]

\* evict_to_fit: what may be left once the oldest have gone to make room for
\* one more file; the byte cap can ask for any number of them.
Fitting(s) ==
    {kept \in SUBSET spool[s] :
        /\ \A f \in kept, g \in spool[s] : f[1] =< g[1] => g \in kept
        /\ MaxFiles > 0 => Cardinality(kept) < MaxFiles}

EventsOf(files) == {f[2] : f \in files} \ {Poison}

\* What is bad among the files that spool s is left with.
StillBad(s, files) == [bad EXCEPT ![s] = @ \cap {f[1] : f \in files}]

\* push: evict, take a number, write.
Push(s, kept) ==
    /\ kept \in Fitting(s)
    /\ spool' = [spool EXCEPT ![s] = kept \cup {<<nextSeq[s], ev>>}]
    /\ nextSeq' = [nextSeq EXCEPT ![s] = @ + 1]
    /\ bad' = StillBad(s, kept)
    /\ settled' = [settled EXCEPT ![s] = @ \cup EventsOf(spool[s] \ kept)]

\* push fails at once, the payload being too large, or on a write error when
\* it has evicted and taken its number.
PushFails(s, kept) ==
    /\ \/ kept = spool[s] /\ nextSeq' = nextSeq
       \/ kept \in Fitting(s) /\ nextSeq' = [nextSeq EXCEPT ![s] = @ + 1]
    /\ spool' = [spool EXCEPT ![s] = kept]
    /\ bad' = StillBad(s, kept)
    /\ settled' = [settled EXCEPT ![s] = @ \cup EventsOf(spool[s] \ kept) \cup {ev}]

\* Every process counts from one.
CountsFromOne(n, files) == n = 1

\* open: next_seq follows the last file.
Follows(n, files) ==
    /\ \A f \in files : f[1] < n
    /\ n = 1 \/ \E f \in files : f[1] = n - 1

-----------------------------------------------------------------------------
Init ==
    /\ emitted = 0 /\ buf = <<>> /\ keys = {} /\ recent = {}
    /\ dpc = "receiving" /\ ev = NoEvent /\ bi = 1 /\ si = 1 /\ draining = FALSE
    /\ rpc = "waiting" /\ pending = {} /\ target = {} /\ peeked = NoFile
    /\ \/ spool = [s \in Sinks |-> {}] /\ nextSeq = [s \in Sinks |-> 1]
       \/ spool = [s \in Sinks |-> {<<1, Poison>>}] /\ nextSeq = [s \in Sinks |-> 2]
    /\ bad = [s \in Sinks |-> {}]
    /\ stopping = FALSE /\ faults = 0
    /\ left = {}
    /\ due = [s \in Sinks |-> {}] /\ settled = due

-----------------------------------------------------------------------------
(* The bus. *)

\* The channel grows.
EmitUnbounded ==
    /\ emitted < MaxEvent
    /\ emitted' = emitted + 1
    /\ buf' = Append(buf, emitted + 1)
    /\ UNCHANGED <<filters, dpc, walk, draining, retry, spools, world, history>>

\* emit: a full channel drops its oldest event, and the receiver skips it;
\* when the dispatcher has ended nobody receives.  The copy for the event ring
\* is left out.
Emit ==
    /\ emitted < MaxEvent
    /\ emitted' = emitted + 1
    /\ \/ dpc = "ended" /\ left' = left \cup {emitted + 1} /\ buf' = buf
       \/ dpc # "ended" /\ Len(buf) < Capacity
          /\ buf' = Append(buf, emitted + 1) /\ left' = left
       \/ dpc # "ended" /\ Len(buf) = Capacity
          /\ buf' = Append(Tail(buf), emitted + 1) /\ left' = left \cup {Head(buf)}
    /\ UNCHANGED <<filters, dpc, walk, draining, retry, spools, world,
                   due, settled>>

-----------------------------------------------------------------------------
(* The dispatcher task. *)

\* recv, and try_recv in drain_buffered.  The select is biased: once the stop
\* signal is there recv is not polled.
Receive ==
    /\ dpc = "receiving" /\ (stopping => draining)
    /\ buf # <<>>
    /\ ev' = Head(buf) /\ buf' = Tail(buf) /\ bi' = 1
    /\ dpc' = "matching"
    /\ left' = left \cup {Head(buf)}
    /\ UNCHANGED <<emitted, filters, si, draining, retry, spools, world,
                   due, settled>>

StopSeen ==
    /\ dpc = "receiving" /\ stopping /\ ~draining
    /\ draining' = TRUE
    /\ UNCHANGED <<emitted, buf, filters, dpc, walk, retry, spools, world, history>>

\* drain_buffered has found the channel empty.
DispatcherEnds ==
    /\ dpc = "receiving" /\ draining /\ buf = <<>>
    /\ dpc' = "ended" /\ ev' = NoEvent
    /\ UNCHANGED <<emitted, buf, filters, bi, si, draining, retry, spools, world, history>>

\* should_suppress: one map of keys for all the bindings.
Suppressed(b) == b.key[ev] # NoKey /\ b.key[ev] \in keys
Seen(b) == {b.key[ev]} \ {NoKey}

\* The sinks binding i still has to send ev to, from its j-th one on.
Left(i, j) == {Bindings[i].sinks[x] : x \in {y \in DOMAIN Bindings[i].sinks : y >= j}}

NextBinding == bi' = bi + 1 /\ si' = 1 /\ dpc' = "matching"

\* The binding does not match, or its event is a repeat.
Skip ==
    /\ dpc = "matching" /\ bi =< Len(Bindings)
    /\ ev \notin Bindings[bi].match \/ Suppressed(Bindings[bi])
    /\ NextBinding
    /\ UNCHANGED <<emitted, buf, filters, ev, draining, retry, spools, world, history>>

\* Not a repeat, so its key is recorded; then the throttle lets it through, or
\* not.
Pass ==
    /\ dpc = "matching" /\ bi =< Len(Bindings)
    /\ ev \in Bindings[bi].match /\ ~Suppressed(Bindings[bi])
    /\ keys' = keys \cup Seen(Bindings[bi])
    /\ IF Bindings[bi].throttle /\ bi \in recent
       THEN NextBinding /\ UNCHANGED <<recent, due>>
       ELSE /\ recent' = IF Bindings[bi].throttle THEN recent \cup {bi} ELSE recent
            /\ due' = [s \in Sinks |-> IF s \in Left(bi, 1) THEN due[s] \cup {ev} ELSE due[s]]
            /\ dpc' = "sending" /\ bi' = bi /\ si' = 1
    /\ UNCHANGED <<emitted, buf, ev, draining, retry, spools, world,
                   left, settled>>

\* The name the binding has come to.
Ref == Bindings[bi].sinks[si]
AtRef == dpc = "sending" /\ si =< Len(Bindings[bi].sinks)

\* The delivery to s, and on to the next one.
Sending(s) == AtRef /\ s = Ref /\ si' = si + 1 /\ UNCHANGED <<dpc, bi>>

\* There is no sink of that name.
SinkNotFound ==
    /\ AtRef /\ Ref \notin Sinks
    /\ si' = si + 1
    /\ UNCHANGED <<emitted, buf, filters, dpc, ev, bi, draining, retry, spools, world, history>>

BindingDone ==
    /\ dpc = "sending" /\ si > Len(Bindings[bi].sinks)
    /\ NextBinding
    /\ UNCHANGED <<emitted, buf, filters, ev, draining, retry, spools, world, history>>

\* deliver succeeds.
SendAccepted(s) ==
    /\ Sending(s)
    /\ settled' = [settled EXCEPT ![s] = @ \cup {ev}]
    /\ UNCHANGED <<emitted, buf, filters, ev, draining, retry, spools, world,
                   left, due>>

\* A permanent failure is logged and that is all.
SendRejected(s) ==
    /\ Sending(s)
    /\ settled' = [settled EXCEPT ![s] = @ \cup {ev}]
    /\ UNCHANGED <<emitted, buf, filters, ev, draining, retry, spools, world,
                   left, due>>

\* A transient one goes to the spool: spool_one.
SendSpooled(s) ==
    /\ Sending(s)
    /\ \E kept \in SUBSET spool[s] : Push(s, kept)
    /\ UNCHANGED <<emitted, buf, filters, ev, draining, retry, world,
                   left, due>>

SendLost(s) ==
    /\ Fault
    /\ Sending(s)
    /\ \E kept \in SUBSET spool[s] : PushFails(s, kept)
    /\ UNCHANGED <<emitted, buf, filters, ev, draining, retry, stopping,
                   left, due>>

EventDone ==
    /\ dpc = "matching" /\ bi > Len(Bindings)
    /\ dpc' = "receiving" /\ ev' = NoEvent /\ bi' = 1
    /\ UNCHANGED <<emitted, buf, filters, si, draining, retry, spools, world, history>>

\* What the task still holds for sink s.
InHand(s) == IF dpc = "sending" /\ s \in Left(bi, si) THEN {ev} ELSE {}

\* The task is dropped: what it holds and what is buffered are lost.
LoseMemory ==
    /\ left' = left \cup InBuf /\ buf' = <<>>
    /\ settled' = [s \in Sinks |-> settled[s] \cup InHand(s)]
    /\ ev' = NoEvent /\ bi' = 1 /\ si' = 1

\* The budget is looked at between two deliveries.
BudgetBetweenDeliveries ==
    /\ draining /\ dpc \in {"receiving", "matching"}
    /\ LoseMemory
    /\ dpc' = "ended"
    /\ UNCHANGED <<emitted, filters, draining, retry, spools, world,
                   due>>

\* SHUTDOWN_DRAIN_BUDGET runs out, in the middle of a delivery or not.
BudgetExpires ==
    /\ draining /\ dpc # "ended"
    /\ LoseMemory
    /\ dpc' = "ended"
    /\ UNCHANGED <<emitted, filters, draining, retry, spools, world,
                   due>>

-----------------------------------------------------------------------------
(* The retry task. *)

\* A tick: drain_pending_spools snapshots the sinks with a spool that is not
\* empty.  The stop signal is only looked at between ticks, and before them.
Tick ==
    /\ rpc = "waiting" /\ ~stopping
    /\ \E s \in Sinks : spool[s] # {}
    /\ pending' = {s \in Sinks : spool[s] # {}}
    /\ rpc' = "choosing"
    /\ UNCHANGED <<emitted, buf, filters, dpc, walk, draining, target, peeked, spools, world,
                   history>>

\* The next sink of the snapshot.
Choose(s) ==
    /\ rpc = "choosing" /\ s \in pending
    /\ pending' = pending \ {s} /\ target' = {s}
    /\ rpc' = "peeking"
    /\ UNCHANGED <<emitted, buf, filters, dpc, walk, draining, peeked, spools, world, history>>

\* The front of spool s cannot be read.
Unreadable(s) == \E f \in spool[s] : IsFront(s, f) /\ f[1] \in bad[s]

\* peek, under the lock.
Peek(s) ==
    /\ rpc = "peeking" /\ s \in target /\ ~Unreadable(s)
    /\ \E f \in spool[s] : IsFront(s, f) /\ peeked' = f
    /\ rpc' = "delivering"
    /\ UNCHANGED <<emitted, buf, filters, dpc, walk, draining, pending, target, spools, world,
                   history>>

\* drain_spool returns.
Leave ==
    /\ rpc' = IF pending = {} THEN "waiting" ELSE "choosing"
    /\ target' = {} /\ peeked' = NoFile

\* Nothing is left, or the front cannot be read and stays.
PeekEndsDrain(s) ==
    /\ rpc = "peeking" /\ s \in target
    /\ spool[s] = {} \/ Unreadable(s)
    /\ Leave
    /\ UNCHANGED <<emitted, buf, filters, dpc, walk, draining, pending, spools, world, history>>

\* It does not decode: quarantine ...
Quarantine(s) ==
    /\ rpc = "delivering" /\ s \in target /\ peeked[2] = Poison
    /\ rpc' = "removing"
    /\ UNCHANGED <<emitted, buf, filters, dpc, walk, draining, pending, target, peeked, spools,
                   world, history>>

\* ... or the sink takes it ...
Redeliver(s) ==
    /\ rpc = "delivering" /\ s \in target /\ peeked[2] # Poison
    /\ settled' = [settled EXCEPT ![s] = @ \cup {peeked[2]}]
    /\ rpc' = "removing"
    /\ UNCHANGED <<emitted, buf, filters, dpc, walk, draining, pending, target, peeked, spools,
                   world, left, due>>

\* ... or refuses it for good ...
Refuse(s) ==
    /\ rpc = "delivering" /\ s \in target /\ peeked[2] # Poison
    /\ settled' = [settled EXCEPT ![s] = @ \cup {peeked[2]}]
    /\ rpc' = "removing"
    /\ UNCHANGED <<emitted, buf, filters, dpc, walk, draining, pending, target, peeked, spools,
                   world, left, due>>

\* ... and the file goes, under the lock.
Remove(s) ==
    /\ rpc = "removing" /\ s \in target
    /\ spool' = [spool EXCEPT ![s] = Without(s, peeked)]
    /\ bad' = StillBad(s, Without(s, peeked))
    /\ peeked' = NoFile
    /\ rpc' = "peeking"
    /\ UNCHANGED <<emitted, buf, filters, dpc, walk, draining, pending, target, nextSeq, world,
                   history>>

\* A transient failure leaves the file where it is and ends the drain.
RetryLater(s) ==
    /\ rpc = "delivering" /\ s \in target /\ peeked[2] # Poison
    /\ Leave
    /\ UNCHANGED <<emitted, buf, filters, dpc, walk, draining, pending, spools, world, history>>

RetryEnds ==
    /\ rpc = "waiting" /\ stopping
    /\ rpc' = "ended"
    /\ UNCHANGED <<emitted, buf, filters, dpc, walk, draining, pending, target, peeked, spools,
                   world, history>>

-----------------------------------------------------------------------------
(* The world around them. *)

\* Dispatcher::shutdown sends both signals and joins both tasks.
Shutdown ==
    /\ ~stopping
    /\ stopping' = TRUE
    /\ UNCHANGED <<emitted, buf, filters, dpc, walk, draining, retry, spools, faults, history>>

Joined == dpc = "ended" /\ rpc = "ended"

\* The process ends, by shutdown or anywhere else, and is started again:
\* DiskSpool::open finds the files.
Restart ==
    /\ Fault
    /\ LoseMemory
    /\ keys' = {} /\ recent' = {}
    /\ dpc' = "receiving" /\ draining' = FALSE /\ stopping' = FALSE
    /\ rpc' = "waiting" /\ pending' = {} /\ target' = {} /\ peeked' = NoFile
    /\ nextSeq' \in [Sinks -> UNION {1..nextSeq[s] : s \in Sinks}]
    /\ \A s \in Sinks : Follows(nextSeq'[s], spool[s])
    /\ UNCHANGED <<emitted, spool, bad, due>>

\* A file of a spool becomes unreadable.
FileGoesBad(s) ==
    /\ Fault
    /\ \E f \in spool[s] : bad' = [bad EXCEPT ![s] = @ \cup {f[1]}]
    /\ UNCHANGED <<emitted, buf, filters, dpc, walk, draining, retry, spool, nextSeq, stopping,
                   history>>

\* An interval passes.
Forget ==
    /\ \/ \E key \in keys : keys' = keys \ {key} /\ recent' = recent
       \/ \E i \in recent : recent' = recent \ {i} /\ keys' = keys
    /\ UNCHANGED <<emitted, buf, dpc, walk, draining, retry, spools, world, history>>

-----------------------------------------------------------------------------
\* What each task does by itself, and what it does when a delivery to s returns.
DispatchStep ==
    Receive \/ StopSeen \/ DispatcherEnds \/ Skip \/ Pass \/ SinkNotFound \/ BindingDone \/ EventDone
Sent(s) == SendAccepted(s) \/ SendRejected(s) \/ SendSpooled(s)

RetryStep ==
    \/ Tick \/ RetryEnds
    \/ \E s \in Sinks : Choose(s) \/ Peek(s) \/ PeekEndsDrain(s) \/ Quarantine(s) \/ Remove(s)
Resent(s) == Redeliver(s) \/ Refuse(s) \/ RetryLater(s)

Next ==
    \/ Emit \/ DispatchStep \/ RetryStep \/ BudgetExpires
    \/ \E s \in Sinks : Sent(s) \/ Resent(s) \/ SendLost(s) \/ FileGoesBad(s)
    \/ Shutdown \/ Restart \/ Forget

Spec == Init /\ [][Next]_vars

\* Both tasks are scheduled, the timer of the drain budget fires, and a
\* delivery returns if its sink has a timeout of its own: the dispatcher sets
\* none.  A sink that heals does not fail forever on what it is offered again
\* and again.
FairSpec ==
    /\ Spec
    /\ WF_vars(DispatchStep \/ \E s \in Sinks \ Hanging : Sent(s))
    /\ WF_vars(RetryStep \/ \E s \in Sinks \ Hanging : Resent(s))
    /\ WF_vars(BudgetExpires)
    /\ \A s \in Healing : SF_vars(Redeliver(s) \/ Refuse(s))

-----------------------------------------------------------------------------
(* Properties. *)

\* The types of the state (DispatcherInner, DiskSpool).
TypeOK ==
    /\ emitted \in 0..MaxEvent
    /\ buf \in Seq(Events) /\ Len(buf) =< Capacity
    /\ keys \subseteq Keys /\ recent \subseteq DOMAIN Bindings
    /\ dpc \in {"receiving", "matching", "sending", "ended"}
    /\ ev \in Events \cup {NoEvent} /\ bi \in 1..Len(Bindings) + 1 /\ si \in Nat \ {0}
    /\ draining \in BOOLEAN
    /\ rpc \in {"waiting", "choosing", "peeking", "delivering", "removing", "ended"}
    /\ pending \subseteq Sinks
    /\ target \in {{}} \cup {{s} : s \in Sinks}
    /\ peeked \in Nat \X (Events \cup {NoEvent, Poison})
    /\ spool \in [Sinks -> SUBSET (Nat \X (Events \cup {Poison}))]
    /\ nextSeq \in [Sinks -> Nat \ {0}] /\ bad \in [Sinks -> SUBSET Nat]
    /\ stopping \in BOOLEAN /\ faults \in 0..MaxFaults
    /\ left \subseteq Events
    /\ due \in [Sinks -> SUBSET Events] /\ settled \in [Sinks -> SUBSET Events]

\* A spool holds at most max_files files, numbered in the order of their
\* events and below next_seq, also after a restart; and the file the retry
\* task has peeked is still the front or is gone, whatever the dispatcher has
\* pushed and evicted since (push, open, peek, remove).
SpoolIsFifo ==
    \A s \in Sinks :
        /\ MaxFiles > 0 => Cardinality(spool[s]) =< MaxFiles
        /\ \A f \in spool[s] : f[1] < nextSeq[s]
        /\ \A f, g \in spool[s] :
              /\ f[1] = g[1] => f = g
              /\ f[1] < g[1] /\ f[2] # Poison /\ g[2] # Poison => f[2] =< g[2]
        /\ s \in target /\ rpc \in {"delivering", "removing"} =>
              \A f \in spool[s] : peeked[1] =< f[1] /\ (peeked[1] = f[1] => peeked = f)

\* No event is lost without one of the reasons the code knows: it fell out of
\* a full channel, its sink refused it for good, the spool evicted it or could
\* not write it, or the process or the drain budget ended while it was in
\* memory.  Otherwise it is on its way, delivered, or on disk (dispatch,
\* drain_spool, drain_buffered).
NothingVanishes ==
    /\ 1..emitted \subseteq InBuf \cup left
    /\ \A s \in Sinks :
          due[s] \subseteq settled[s] \cup EventsOf(spool[s]) \cup InHand(s)

\* The retry task awaits a sink that may never answer.
RetryHung == rpc = "delivering" /\ target \subseteq Hanging /\ peeked[2] # Poison

\* So does the dispatcher task, outside the drain that has a budget.
DispatchHung == AtRef /\ Ref \in Hanging /\ ~draining

\* Unless the dispatcher is stopped the spool of a sink that heals is emptied,
\* though another sink may fail every time.  Two things alone hinder it for
\* good: a front that cannot be read, and a delivery to another sink that
\* never returns, the sinks being drained one after the other
\* (drain_pending_spools, drain_spool).
SpoolDrains ==
    \A s \in Healing :
        <>[](~stopping) => <>[](spool[s] = {}) \/ <>[]Unreadable(s) \/ <>[]RetryHung

\* Dispatcher::shutdown returns unless the process is killed first, or a
\* delivery never returns that was under way when the stop signal came; one
\* that hangs in the drain is cut off by its budget (shutdown, drain_buffered).
OnlyDeliveryHindersShutdown ==
    <>[]stopping => <>Joined \/ <>[](DispatchHung \/ RetryHung)

\* Dispatcher::shutdown returns, unless the process is killed first ("a
\* slow/black-holed sink can never hang shutdown", dispatcher.rs).
ShutdownNeverHangs == stopping ~> (Joined \/ ~stopping)

\* Unless the dispatcher is stopped a sink that heals gets its backlog ("A sink
\* that has healed redelivers its backlog", dispatcher.rs).
BacklogIsRedelivered ==
    \A s \in Healing : <>[](~stopping) => <>[](EventsOf(spool[s]) = {})
=============================================================================
