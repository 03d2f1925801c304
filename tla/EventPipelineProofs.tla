------------------------ MODULE EventPipelineProofs ------------------------
(***************************************************************************)
(* What EventPipeline promises, for any bindings and sinks, any capacity   *)
(* and cap, and any number of events and restarts: the types, the order of *)
(* the spools and that nothing vanishes.                                   *)
(***************************************************************************)
EXTENDS EventPipeline, FiniteSetTheorems, TLAPS

Busy == dpc \in {"matching", "sending"}
Has == rpc \in {"delivering", "removing"}

\* The types in parts, with where each task is in its loop.
DispatchType ==
    /\ emitted \in 0..MaxEvent
    /\ buf \in Seq(Events) /\ Len(buf) =< Capacity
    /\ keys \subseteq Keys /\ recent \subseteq DOMAIN Bindings
    /\ dpc \in {"receiving", "matching", "sending", "ended"}
    /\ ev \in Events \cup {NoEvent} /\ bi \in 1..Len(Bindings) + 1 /\ si \in Nat \ {0}
    /\ draining \in BOOLEAN
    /\ Busy => ev \in Events
    /\ dpc = "sending" => bi \in DOMAIN Bindings

RetryType ==
    /\ rpc \in {"waiting", "choosing", "peeking", "delivering", "removing", "ended"}
    /\ pending \subseteq Sinks
    /\ target \in {{}} \cup {{s} : s \in Sinks}
    /\ peeked \in Nat \X (Events \cup {NoEvent, Poison})
    /\ Has => peeked[2] # NoEvent

FilesType ==
    /\ spool \in [Sinks -> SUBSET (Nat \X (Events \cup {Poison}))]
    /\ nextSeq \in [Sinks -> Nat \ {0}]
    /\ bad \in [Sinks -> SUBSET Nat]

WorldType == stopping \in BOOLEAN /\ faults \in 0..MaxFaults

HistoryType ==
    /\ left \subseteq Events
    /\ due \in [Sinks -> SUBSET Events] /\ settled \in [Sinks -> SUBSET Events]

\* No event overtakes another one on its way into a spool.
OrderInv ==
    /\ \A i \in DOMAIN buf : buf[i] =< emitted
    /\ \A i, j \in DOMAIN buf : i < j => buf[i] =< buf[j]
    /\ Busy => ev =< emitted /\ \A i \in DOMAIN buf : ev =< buf[i]
    /\ \A s \in Sinks : \A f \in spool[s] : f[2] # Poison =>
          /\ f[2] =< emitted
          /\ \A i \in DOMAIN buf : f[2] =< buf[i]
          /\ Busy => f[2] =< ev

\* SpoolIsFifo in parts, with what keeps a peeked file the oldest.
Bounded(s) == IsFiniteSet(spool[s]) /\ (MaxFiles > 0 => Cardinality(spool[s]) =< MaxFiles)

Numbered(s) ==
    /\ \A f \in spool[s] : f[1] < nextSeq[s]
    /\ \A f, g \in spool[s] :
          /\ f[1] = g[1] => f = g
          /\ f[1] < g[1] /\ f[2] # Poison /\ g[2] # Poison => f[2] =< g[2]

Held(s) ==
    s \in target /\ Has =>
        /\ peeked[1] < nextSeq[s]
        /\ \A f \in spool[s] : peeked[1] =< f[1] /\ (peeked[1] = f[1] => peeked = f)

TypeInv == DispatchType /\ RetryType /\ FilesType /\ WorldType /\ HistoryType
FifoInv == OrderInv /\ \A s \in Sinks : Bounded(s) /\ Numbered(s) /\ Held(s)

-----------------------------------------------------------------------------
(* Types. *)

\* What a binding is made of (Binding).
LEMMA BindingType ==
    ASSUME NEW i \in DOMAIN Bindings
    PROVE  /\ Bindings[i].key \in [Events -> Keys \cup {NoKey}]
           /\ Bindings[i].throttle \in BOOLEAN
           /\ Bindings[i].sinks \in Seq(SinkRefs)
           /\ Bindings[i].match \subseteq Events
<1> DEFINE B == [match : SUBSET Events, key : [Events -> Keys \cup {NoKey}],
                 throttle : BOOLEAN, sinks : Seq(SinkRefs)]
<1>1. Bindings \in Seq(B)
  BY EventAssumption
<1>2. Bindings[i] \in B
  <2> HIDE DEF B
  <2> QED
    BY <1>1
<1> QED
  BY <1>2

\* The frames of the parts.
LEMMA DispatchFrame ==
    DispatchType /\ UNCHANGED <<emitted, buf, filters, dpc, walk, draining>> => DispatchType'
BY DEF DispatchType, Busy, filters, walk

LEMMA RetryFrame == RetryType /\ UNCHANGED retry => RetryType'
BY DEF RetryType, Has, retry

LEMMA FilesFrame == FilesType /\ UNCHANGED spools => FilesType'
BY DEF FilesType, spools

LEMMA WorldFrame == WorldType /\ UNCHANGED world => WorldType'
BY DEF WorldType, world

LEMMA HistoryFrame == HistoryType /\ UNCHANGED history => HistoryType'
BY DEF HistoryType, history

LEMMA EventsOfType ==
    ASSUME NEW files, files \subseteq Nat \X (Events \cup {Poison})
    PROVE  EventsOf(files) \subseteq Events
BY DEF EventsOf

LEMMA InitType == Init => TypeInv
<1> SUFFICES ASSUME Init PROVE TypeInv
  OBVIOUS
<1> USE EventAssumption DEF Init, Events, NoEvent, NoFile
<1>1. DispatchType
  <2>1. draining \in BOOLEAN
    OBVIOUS
  <2>2. buf \in Seq(Events) /\ Len(buf) =< Capacity
    OBVIOUS
  <2>3. bi \in 1..Len(Bindings) + 1
    <3>1. Len(Bindings) \in Nat
      OBVIOUS
    <3> QED
      BY <3>1
  <2> QED
    BY <2>1, <2>2, <2>3 DEF DispatchType, Busy
<1>2. RetryType
  BY DEF RetryType, Has
<1>3. FilesType
  BY DEF FilesType
<1>4. WorldType
  <2>1. stopping \in BOOLEAN
    OBVIOUS
  <2> QED
    BY <2>1 DEF WorldType
<1>5. HistoryType
  BY DEF HistoryType
<1> QED
  BY <1>1, <1>2, <1>3, <1>4, <1>5 DEF TypeInv
LEMMA BindingsLen == Len(Bindings) \in Nat /\ DOMAIN Bindings = 1..Len(Bindings)
BY EventAssumption

LEMMA SendingType ==
    ASSUME TypeInv, NEW s \in Sinks, Sending(s),
           UNCHANGED <<emitted, buf, filters, ev, draining>>
    PROVE  DispatchType'
BY DEF TypeInv, DispatchType, Busy, filters, Sending, AtRef

LEMMA PushType ==
    ASSUME TypeInv, NEW s \in Sinks, ev \in Events, NEW kept \in SUBSET spool[s],
           Push(s, kept) \/ PushFails(s, kept)
    PROVE  /\ FilesType'
           /\ settled' \in [Sinks -> SUBSET Events]
<1> USE DEF TypeInv, FilesType, HistoryType
<1>1. EventsOf(spool[s] \ kept) \subseteq Events
  BY EventsOfType
<1> DEFINE Files == Nat \X (Events \cup {Poison})
<1>2. spool \in [Sinks -> SUBSET Files] /\ spool[s] \in SUBSET Files /\ nextSeq[s] \in Nat \ {0}
  OBVIOUS
<1>3. kept \in SUBSET Files /\ kept \cup {<<nextSeq[s], ev>>} \in SUBSET Files
  BY <1>2
<1>4. spool' \in [Sinks -> SUBSET Files]
  <2> HIDE DEF Files
  <2> QED
    BY <1>2, <1>3 DEF Push, PushFails
<1>5. nextSeq' \in [Sinks -> Nat \ {0}]
  <2>1. nextSeq[s] + 1 \in Nat \ {0}
    BY <1>2
  <2> QED
    BY <2>1 DEF Push, PushFails
<1>6. settled' \in [Sinks -> SUBSET Events]
  <2>1. settled[s] \cup EventsOf(spool[s] \ kept) \cup {ev} \in SUBSET Events
    BY <1>1
  <2>2. settled[s] \cup EventsOf(spool[s] \ kept) \in SUBSET Events
    BY <1>1
  <2>3. settled \in [Sinks -> SUBSET Events]
    OBVIOUS
  <2> HIDE DEF TypeInv, FilesType, HistoryType
  <2> QED
    BY <2>1, <2>2, <2>3 DEF Push, PushFails
<1>7. bad' \in [Sinks -> SUBSET Nat]
  BY DEF Push, PushFails, StillBad
<1> QED
  BY <1>4, <1>5, <1>6, <1>7

LEMMA LoseMemoryType ==
    ASSUME TypeInv, LoseMemory,
           keys' \subseteq Keys /\ recent' \subseteq DOMAIN Bindings,
           dpc' \in {"receiving", "ended"}, draining' \in BOOLEAN,
           UNCHANGED <<emitted, due>>
    PROVE  DispatchType' /\ HistoryType'
<1> USE DEF TypeInv, LoseMemory
<1>1. DispatchType'
  BY BindingsLen, EventAssumption DEF DispatchType, Busy, Events, NoEvent
<1>2. InBuf \subseteq Events
  BY DEF InBuf, DispatchType
<1>3. \A s \in Sinks : InHand(s) \subseteq Events
  BY DEF InHand, DispatchType, Busy
<1> QED
  BY <1>1, <1>2, <1>3 DEF HistoryType

LEMMA NextType == TypeInv /\ [Next]_vars => TypeInv'
<1> SUFFICES ASSUME TypeInv, [Next]_vars PROVE TypeInv'
  OBVIOUS
<1> USE DEF TypeInv
<1>a. ASSUME UNCHANGED <<emitted, buf, filters, dpc, walk, draining>> PROVE DispatchType'
  BY <1>a, DispatchFrame
<1>b. ASSUME UNCHANGED retry PROVE RetryType'
  BY <1>b, RetryFrame
<1>c. ASSUME UNCHANGED spools PROVE FilesType'
  BY <1>c, FilesFrame
<1>d. ASSUME UNCHANGED world PROVE WorldType'
  BY <1>d, WorldFrame
<1>e. ASSUME UNCHANGED history PROVE HistoryType'
  BY <1>e, HistoryFrame
<1>1. CASE Emit
  <2>1. emitted + 1 \in Events
    BY <1>1, EventAssumption DEF Emit, DispatchType, Events
  <2>2. emitted' \in 0..MaxEvent
    BY <1>1, EventAssumption DEF Emit, DispatchType, Events
  <2>3. /\ buf' \in Seq(Events) /\ Len(buf') =< Capacity
        /\ left' \subseteq Events
    <3> buf \in Seq(Events) /\ Len(buf) =< Capacity /\ left \subseteq Events /\ Capacity \in Nat \ {0}
      BY EventAssumption DEF DispatchType, HistoryType
    <3>1. CASE dpc = "ended"
      BY <1>1, <3>1, <2>1 DEF Emit
    <3>2. CASE dpc # "ended" /\ Len(buf) < Capacity
      BY <1>1, <3>2, <2>1 DEF Emit
    <3>3. CASE dpc # "ended" /\ Len(buf) = Capacity
      <4>1. Head(buf) \in Events /\ Tail(buf) \in Seq(Events) /\ Len(Tail(buf)) = Capacity - 1
        BY <3>3
      <4> QED
        BY <1>1, <3>3, <4>1, <2>1 DEF Emit
    <3> QED
      BY <1>1, <3>1, <3>2, <3>3 DEF Emit
  <2>4. DispatchType'
    BY <1>1, <2>2, <2>3 DEF Emit, DispatchType, Busy, filters, walk
  <2>5. HistoryType'
    BY <1>1, <2>3 DEF Emit, HistoryType
  <2> QED
    BY <1>1, <2>4, <2>5, <1>b, <1>c, <1>d DEF Emit
<1>2. CASE Receive
  <2>1. /\ Head(buf) \in Events
        /\ Tail(buf) \in Seq(Events) /\ Len(Tail(buf)) =< Capacity
    BY <1>2, EventAssumption DEF Receive, DispatchType
  <2>2. DispatchType'
    BY <1>2, <2>1, BindingsLen DEF Receive, DispatchType, Busy, filters
  <2>3. HistoryType'
    BY <1>2, <2>1 DEF Receive, HistoryType
  <2> QED
    BY <1>2, <2>2, <2>3, <1>b, <1>c, <1>d DEF Receive
<1>3. CASE StopSeen
  <2>1. DispatchType'
    BY <1>3 DEF StopSeen, DispatchType, Busy, filters, walk
  <2> QED
    BY <1>3, <2>1, <1>b, <1>c, <1>d, <1>e DEF StopSeen
<1>4. CASE DispatcherEnds
  <2>1. DispatchType'
    BY <1>4 DEF DispatcherEnds, DispatchType, Busy, filters, NoEvent
  <2> QED
    BY <1>4, <2>1, <1>b, <1>c, <1>d, <1>e DEF DispatcherEnds
<1>5. CASE Skip
  <2>1. DispatchType'
    BY <1>5, BindingsLen DEF Skip, NextBinding, DispatchType, Busy, filters
  <2> QED
    BY <1>5, <2>1, <1>b, <1>c, <1>d, <1>e DEF Skip
<1>6. CASE Pass
  <2>1. bi \in DOMAIN Bindings /\ ev \in Events
    BY <1>6, BindingsLen DEF Pass, DispatchType, Busy
  <2>2. keys' \subseteq Keys
    BY <1>6, <2>1, BindingType DEF Pass, Seen, DispatchType
  <2>3. DispatchType'
    <3>1. CASE Bindings[bi].throttle /\ bi \in recent
      BY <1>6, <3>1, <2>1, <2>2, BindingsLen DEF Pass, NextBinding, DispatchType, Busy
    <3>2. CASE ~(Bindings[bi].throttle /\ bi \in recent)
      BY <1>6, <3>2, <2>1, <2>2 DEF Pass, DispatchType, Busy
    <3> QED
      BY <3>1, <3>2
  <2>4. HistoryType'
    BY <1>6, <2>1 DEF Pass, HistoryType
  <2> QED
    BY <1>6, <2>3, <2>4, <1>b, <1>c, <1>d DEF Pass
<1>7. CASE EventDone
  <2>1. DispatchType'
    BY <1>7, BindingsLen DEF EventDone, DispatchType, Busy, filters, NoEvent
  <2> QED
    BY <1>7, <2>1, <1>b, <1>c, <1>d, <1>e DEF EventDone
<1>8. CASE BudgetExpires
  <2>1. DispatchType' /\ HistoryType'
    BY <1>8, LoseMemoryType DEF BudgetExpires, DispatchType, filters
  <2> QED
    BY <1>8, <2>1, <1>b, <1>c, <1>d DEF BudgetExpires
<1>9. CASE Tick
  <2>1. RetryType'
    BY <1>9 DEF Tick, RetryType, Has
  <2> QED
    BY <1>9, <2>1, <1>a, <1>c, <1>d, <1>e DEF Tick
<1>10. CASE RetryEnds
  <2>1. RetryType'
    BY <1>10 DEF RetryEnds, RetryType, Has
  <2> QED
    BY <1>10, <2>1, <1>a, <1>c, <1>d, <1>e DEF RetryEnds
<1>11. CASE Shutdown
  <2>1. WorldType'
    BY <1>11 DEF Shutdown, WorldType
  <2> QED
    BY <1>11, <2>1, <1>a, <1>b, <1>c, <1>e DEF Shutdown
<1>12. CASE Restart
  <2>1. draining' \in BOOLEAN /\ stopping' \in BOOLEAN
    BY <1>12 DEF Restart
  <2>2. DispatchType' /\ HistoryType'
    BY <1>12, <2>1, LoseMemoryType DEF Restart
  <2>3. RetryType'
    BY <1>12, EventAssumption DEF Restart, RetryType, Has, NoFile, NoEvent
  <2>4. FilesType'
    BY <1>12 DEF Restart, FilesType
  <2>5. faults' \in 0..MaxFaults
    BY <1>12, EventAssumption DEF Restart, Fault, WorldType
  <2> QED
    BY <2>1, <2>2, <2>3, <2>4, <2>5 DEF WorldType
<1>13. CASE Forget
  <2>1. DispatchType'
    BY <1>13 DEF Forget, DispatchType, Busy, walk
  <2> QED
    BY <1>13, <2>1, <1>b, <1>c, <1>d, <1>e DEF Forget
<1>14. ASSUME NEW s \in Sinks, SendAccepted(s) \/ SendRejected(s) PROVE TypeInv'
  <2>1. DispatchType'
    BY <1>14, SendingType DEF SendAccepted, SendRejected
  <2>2. ev \in Events
    BY <1>14 DEF SendAccepted, SendRejected, Sending, AtRef, DispatchType, Busy
  <2>3. HistoryType'
    BY <1>14, <2>2 DEF SendAccepted, SendRejected, HistoryType
  <2> QED
    BY <1>14, <2>1, <2>3, <1>b, <1>c, <1>d DEF SendAccepted, SendRejected
<1>15. ASSUME NEW s \in Sinks, SendSpooled(s) \/ SendLost(s) PROVE TypeInv'
  <2>1. DispatchType'
    BY <1>15, SendingType DEF SendSpooled, SendLost
  <2>2. ev \in Events
    BY <1>15 DEF SendSpooled, SendLost, Sending, AtRef, DispatchType, Busy
  <2>3. FilesType' /\ settled' \in [Sinks -> SUBSET Events]
    BY <1>15, <2>2, PushType DEF SendSpooled, SendLost
  <2>4. HistoryType'
    BY <1>15, <2>3 DEF SendSpooled, SendLost, HistoryType
  <2>5. WorldType'
    BY <1>15, <1>d, EventAssumption DEF SendSpooled, SendLost, WorldType, Fault
  <2> QED
    BY <1>15, <2>1, <2>3, <2>4, <2>5, <1>b DEF SendSpooled, SendLost
<1>16. ASSUME NEW s \in Sinks, Choose(s) PROVE TypeInv'
  <2>1. RetryType'
    BY <1>16 DEF Choose, RetryType, Has
  <2> QED
    BY <1>16, <2>1, <1>a, <1>c, <1>d, <1>e DEF Choose
<1>17. ASSUME NEW s \in Sinks, Peek(s) PROVE TypeInv'
  <2>1. PICK f \in spool[s] : peeked' = f
    BY <1>17 DEF Peek
  <2>2. f \in Nat \X (Events \cup {Poison})
    BY DEF FilesType
  <2>3. f[2] # NoEvent
    BY <2>2, EventAssumption DEF Events, NoEvent
  <2>4. RetryType'
    BY <1>17, <2>1, <2>2, <2>3 DEF Peek, RetryType, Has
  <2> QED
    BY <1>17, <2>4, <1>a, <1>c, <1>d, <1>e DEF Peek
<1>18. ASSUME NEW s \in Sinks, PeekEndsDrain(s) \/ RetryLater(s) PROVE TypeInv'
  <2>1. RetryType'
    BY <1>18 DEF PeekEndsDrain, RetryLater, Leave, RetryType, Has, NoFile
  <2> QED
    BY <1>18, <2>1, <1>a, <1>c, <1>d, <1>e DEF PeekEndsDrain, RetryLater
<1>19. ASSUME NEW s \in Sinks, Redeliver(s) \/ Refuse(s) PROVE TypeInv'
  <2>1. RetryType'
    BY <1>19 DEF Redeliver, Refuse, RetryType, Has
  <2>2. peeked \in Nat \X (Events \cup {Poison})
    BY <1>19 DEF Redeliver, Refuse, RetryType, Has
  <2>3. EventsOf({peeked}) \subseteq Events
    BY <2>2, EventsOfType
  <2>4. HistoryType'
    BY <1>19, <2>2, <2>3 DEF Redeliver, Refuse, HistoryType
  <2> QED
    BY <1>19, <2>1, <2>4, <1>a, <1>c, <1>d DEF Redeliver, Refuse
<1>20. ASSUME NEW s \in Sinks, Remove(s) PROVE TypeInv'
  <2>1. RetryType'
    BY <1>20 DEF Remove, RetryType, Has, NoFile
  <2>2. FilesType'
    BY <1>20 DEF Remove, Without, StillBad, FilesType
  <2> QED
    BY <1>20, <2>1, <2>2, <1>a, <1>d, <1>e DEF Remove
<1>21. ASSUME NEW s \in Sinks, Quarantine(s) PROVE TypeInv'
  <2>1. RetryType'
    BY <1>21 DEF Quarantine, RetryType, Has
  <2> QED
    BY <1>21, <2>1, <1>a, <1>c, <1>d, <1>e DEF Quarantine
<1>22. ASSUME NEW s \in Sinks, FileGoesBad(s) PROVE TypeInv'
  <2>1. FilesType'
    BY <1>22 DEF FileGoesBad, FilesType
  <2>2. WorldType'
    BY <1>22, EventAssumption DEF FileGoesBad, WorldType, Fault
  <2> QED
    BY <1>22, <2>1, <2>2, <1>a, <1>b, <1>e DEF FileGoesBad
<1>23. CASE SinkNotFound \/ BindingDone
  <2>1. DispatchType'
    BY <1>23, BindingsLen DEF SinkNotFound, BindingDone, AtRef, NextBinding, DispatchType, Busy, filters
  <2> QED
    BY <1>23, <2>1, <1>b, <1>c, <1>d, <1>e DEF SinkNotFound, BindingDone
<1>24. CASE UNCHANGED vars
  BY <1>24, <1>a, <1>b, <1>c, <1>d, <1>e DEF vars
<1> QED
  BY <1>1, <1>2, <1>3, <1>4, <1>5, <1>6, <1>7, <1>8, <1>9, <1>10, <1>11, <1>12, <1>13, <1>14,
     <1>15, <1>16, <1>17, <1>18, <1>19, <1>20, <1>21, <1>22, <1>23, <1>24
  DEF Next, DispatchStep, Sent, RetryStep, Resent

\* The state of the pipeline is well typed (DispatcherInner, DiskSpool).
THEOREM EventTypeOK == Spec => []TypeOK
<1>1. TypeInv => TypeOK
  BY DEF TypeInv, DispatchType, RetryType, FilesType, WorldType, HistoryType, TypeOK
<1> QED
  BY <1>1, InitType, NextType, PTL DEF Spec

-----------------------------------------------------------------------------
(* The order of the spools. *)

\* Steps that take no event from the channel and put none into it.
LEMMA OrderKept ==
    ASSUME TypeInv, OrderInv, emitted' = emitted, buf' = buf \/ buf' = <<>>,
           Busy' => Busy /\ ev' = ev,
           \A s \in Sinks : \A f \in spool'[s] : f \in spool[s] \/ (Busy /\ f[2] = ev)
    PROVE  OrderInv'
<1>1. \A s \in Sinks : \A f \in spool'[s] : f[2] # Poison =>
        /\ f[2] =< emitted
        /\ \A i \in DOMAIN buf : f[2] =< buf[i]
        /\ Busy => f[2] =< ev
  BY DEF OrderInv, TypeInv, DispatchType, Events, Busy
<1>2. CASE buf' = buf
  BY <1>1, <1>2 DEF OrderInv
<1>3. CASE buf' = <<>>
  BY <1>1, <1>3 DEF OrderInv
<1> QED
  BY <1>2, <1>3

Sorted(q) == \A i, j \in DOMAIN q : i < j => q[i] =< q[j]

LEMMA AppendSorted ==
    ASSUME NEW q \in Seq(Events), Sorted(q), NEW e \in Events, \A i \in DOMAIN q : q[i] =< e
    PROVE  /\ Sorted(Append(q, e))
           /\ \A i \in DOMAIN Append(q, e) :
                 Append(q, e)[i] = e \/ \E j \in DOMAIN q : Append(q, e)[i] = q[j]
<1>1. \A x \in Events : x \in Nat
  BY DEF Events
<1> QED
  BY <1>1 DEF Sorted

LEMMA TailSorted ==
    ASSUME NEW q \in Seq(Events), q # <<>>, Sorted(q)
    PROVE  /\ Tail(q) \in Seq(Events) /\ 1 \in DOMAIN q /\ Head(q) = q[1]
           /\ \A i \in DOMAIN Tail(q) : i + 1 \in DOMAIN q /\ Tail(q)[i] = q[i + 1]
           /\ Sorted(Tail(q))
           /\ \A i \in DOMAIN Tail(q) : q[1] =< Tail(q)[i]
<1>1. \A x \in Events : x \in Nat
  BY DEF Events
<1>2. /\ Tail(q) \in Seq(Events) /\ 1 \in DOMAIN q /\ Head(q) = q[1]
      /\ \A i \in DOMAIN Tail(q) : i + 1 \in DOMAIN q /\ Tail(q)[i] = q[i + 1]
  OBVIOUS
<1>3. \A i \in DOMAIN Tail(q) : i \in Nat \ {0}
  BY <1>2
<1> QED
  BY <1>1, <1>2, <1>3 DEF Sorted

LEMMA InitFifo == Init => FifoInv
<1> SUFFICES ASSUME Init PROVE FifoInv
  OBVIOUS
<1>1. OrderInv
  BY DEF Init, OrderInv, Busy
<1>2. ASSUME NEW s \in Sinks PROVE Bounded(s) /\ Numbered(s) /\ Held(s)
  <2> DEFINE file == <<1, Poison>>
  <2>0. Held(s)
    BY DEF Init, Held
  <2>1. CASE spool[s] = {}
    <3>1. IsFiniteSet(spool[s]) /\ Cardinality(spool[s]) = 0
      BY <2>1, FS_EmptySet
    <3> QED
      BY <2>0, <2>1, <3>1, EventAssumption DEF Bounded, Numbered
  <2>2. CASE spool[s] = {file} /\ nextSeq[s] = 2
    <3>1. IsFiniteSet({file}) /\ Cardinality({file}) = 1
      BY FS_Singleton, Zenon
    <3> QED
      BY <2>0, <2>2, <3>1, EventAssumption DEF Bounded, Numbered
  <2> QED
    BY <2>1, <2>2 DEF Init
<1> QED
  BY <1>1, <1>2 DEF FifoInv

\* A spool that only loses files, and whose number does not fall below them.
LEMMA FifoShrinks ==
    ASSUME TypeInv, NEW s \in Sinks, Bounded(s), Numbered(s), spool'[s] \subseteq spool[s],
           nextSeq'[s] \in Nat, \A f \in spool'[s] : f[1] < nextSeq'[s]
    PROVE  Bounded(s)' /\ Numbered(s)'
<1>1. Bounded(s)'
  <2>1. IsFiniteSet(spool'[s]) /\ Cardinality(spool'[s]) =< Cardinality(spool[s])
    BY FS_Subset DEF Bounded
  <2>2. Cardinality(spool'[s]) \in Nat /\ Cardinality(spool[s]) \in Nat
    BY <2>1, FS_CardinalityType DEF Bounded
  <2> QED
    BY <2>1, <2>2, EventAssumption DEF Bounded
<1>2. Numbered(s)'
  BY DEF Numbered
<1> QED
  BY <1>1, <1>2

\* push keeps the order, whatever it evicts.
LEMMA PushFifo ==
    ASSUME TypeInv, FifoInv, Busy, NEW s \in Sinks, NEW kept \in SUBSET spool[s],
           Push(s, kept), UNCHANGED retry
    PROVE  Bounded(s)' /\ Numbered(s)' /\ Held(s)'
<1> DEFINE new == <<nextSeq[s], ev>>
<1>1. /\ spool'[s] = kept \cup {new}
      /\ nextSeq'[s] = nextSeq[s] + 1
      /\ nextSeq[s] \in Nat
      /\ ev \in Events
      /\ \A f \in spool[s] : f[1] \in Nat /\ (f[2] # Poison => f[2] \in Nat)
  BY DEF Push, TypeInv, FilesType, DispatchType, Events
<1>2. Bounded(s)'
  <2>1. IsFiniteSet(kept) /\ Cardinality(kept) \in Nat
    BY FS_Subset, FS_CardinalityType DEF FifoInv, Bounded
  <2>2. IsFiniteSet(kept \cup {new}) /\ Cardinality(kept \cup {new}) =< Cardinality(kept) + 1
    <3> HIDE DEF new
    <3>1. /\ IsFiniteSet(kept \cup {new})
          /\ Cardinality(kept \cup {new}) =
               IF new \in kept THEN Cardinality(kept) ELSE Cardinality(kept) + 1
      BY <2>1, FS_AddElement, Zenon
    <3> QED
      BY <2>1, <3>1
  <2>3. Cardinality(kept \cup {new}) \in Nat
    BY <2>2, FS_CardinalityType
  <2>4. MaxFiles > 0 => Cardinality(kept) < MaxFiles
    BY DEF Push, Fitting
  <2> QED
    BY <1>1, <2>1, <2>2, <2>3, <2>4, EventAssumption DEF Bounded
<1>3. Numbered(s)'
  <2>1. \A f \in kept : f[1] < nextSeq[s] /\ (f[2] # Poison => f[2] =< ev)
    BY DEF FifoInv, Numbered, OrderInv
  <2>2. \A f \in kept \cup {new} : f[1] < nextSeq[s] + 1
    BY <1>1, <2>1
  <2>3. ASSUME NEW f \in kept \cup {new}, NEW g \in kept \cup {new}
        PROVE  /\ f[1] = g[1] => f = g
               /\ f[1] < g[1] /\ f[2] # Poison /\ g[2] # Poison => f[2] =< g[2]
    <3>1. CASE f \in kept /\ g \in kept
      BY <3>1 DEF FifoInv, Numbered
    <3>2. CASE f \in kept /\ g = new
      BY <1>1, <2>1, <3>2
    <3>3. CASE f = new /\ g \in kept
      BY <1>1, <2>1, <3>3
    <3>4. CASE f = new /\ g = new
      BY <1>1, <3>4
    <3> QED
      BY <3>1, <3>2, <3>3, <3>4
  <2> QED
    BY <1>1, <2>2, <2>3 DEF Numbered
<1>4. Held(s)'
  BY <1>1 DEF FifoInv, Held, Has, retry, TypeInv, RetryType
<1> QED
  BY <1>2, <1>3, <1>4
\* Steps that leave the files alone and peek none.
LEMMA FilesKept ==
    ASSUME FifoInv, UNCHANGED <<spool, nextSeq>>, Has' => Has /\ UNCHANGED <<peeked, target>>
    PROVE  \A s \in Sinks : Bounded(s)' /\ Numbered(s)' /\ Held(s)'
BY DEF FifoInv, Bounded, Numbered, Held

LEMMA NextFifo == TypeInv /\ TypeInv' /\ FifoInv /\ [Next]_vars => FifoInv'
<1> SUFFICES ASSUME TypeInv, TypeInv', FifoInv, [Next]_vars PROVE FifoInv'
  OBVIOUS
<1> DEFINE Files == \A s \in Sinks : Bounded(s) /\ Numbered(s) /\ Held(s)
<1>a. ASSUME UNCHANGED <<spool, nextSeq, retry>> PROVE Files'
  BY <1>a, FilesKept DEF retry, Has
<1>b. ASSUME UNCHANGED <<emitted, buf, dpc, walk, spool>> PROVE OrderInv'
  BY <1>b, OrderKept DEF FifoInv, walk, Busy
<1>c. /\ \A e \in Events : e \in Nat
      /\ buf \in Seq(Events) /\ emitted \in Nat /\ Sorted(buf)
      /\ Busy => ev \in Nat
      /\ \A s \in Sinks : \A f \in spool[s] : f[2] # Poison => f[2] \in Nat
  BY DEF TypeInv, DispatchType, FilesType, Events, FifoInv, OrderInv, Sorted
<1>1. CASE Emit
  <2>1. /\ emitted + 1 \in Events /\ emitted' = emitted + 1
        /\ spool' = spool /\ ev' = ev /\ dpc' = dpc
    BY <1>1, EventAssumption DEF Emit, TypeInv, DispatchType, Events, walk, spools
  <2>2. /\ Sorted(buf)'
        /\ \A i \in DOMAIN buf' : buf'[i] = emitted + 1 \/ \E j \in DOMAIN buf : buf'[i] = buf[j]
    <3>0. \A i \in DOMAIN buf : buf[i] =< emitted + 1 /\ buf[i] \in Nat
      BY <1>c DEF FifoInv, OrderInv
    <3>1. CASE buf' = buf
      BY <1>c, <3>1 DEF Sorted
    <3>2. CASE buf' = Append(buf, emitted + 1)
      BY <1>c, <2>1, <3>0, <3>2, AppendSorted
    <3>3. CASE Len(buf) = Capacity /\ buf' = Append(Tail(buf), emitted + 1)
      <4>1. buf # <<>>
        BY <3>3, EventAssumption
      <4>2. /\ Tail(buf) \in Seq(Events) /\ Sorted(Tail(buf))
            /\ \A i \in DOMAIN Tail(buf) : i + 1 \in DOMAIN buf /\ Tail(buf)[i] = buf[i + 1]
        BY <1>c, <4>1, TailSorted
      <4>3. /\ Sorted(buf)'
            /\ \A i \in DOMAIN buf' :
                  buf'[i] = emitted + 1 \/ \E j \in DOMAIN Tail(buf) : buf'[i] = Tail(buf)[j]
        BY <2>1, <3>0, <3>3, <4>2, AppendSorted
      <4> QED
        BY <4>2, <4>3
    <3> QED
      BY <1>1, <3>1, <3>2, <3>3 DEF Emit
  <2>3. OrderInv'
    <3>1. \A i \in DOMAIN buf' : /\ buf'[i] =< emitted + 1
                                 /\ \A n \in Nat : n =< emitted /\ (\A j \in DOMAIN buf : n =< buf[j])
                                       => n =< buf'[i]
      BY <1>c, <2>2 DEF FifoInv, OrderInv
    <3> QED
      BY <1>c, <2>1, <2>2, <3>1 DEF FifoInv, OrderInv, Busy, Sorted
  <2> QED
    BY <1>1, <2>3, <1>a DEF FifoInv, Emit, spools
<1>2. CASE Receive
  <2>1. /\ buf # <<>> /\ ev' = Head(buf) /\ buf' = Tail(buf)
        /\ emitted' = emitted /\ spool' = spool
    BY <1>2 DEF Receive, spools
  <2>2. /\ 1 \in DOMAIN buf /\ ev' = buf[1]
        /\ \A i \in DOMAIN buf' : i + 1 \in DOMAIN buf /\ buf'[i] = buf[i + 1] /\ buf[1] =< buf'[i]
        /\ Sorted(buf)'
    BY <1>c, <2>1, TailSorted
  <2>3. OrderInv'
    BY <1>c, <2>1, <2>2 DEF FifoInv, OrderInv, Busy, Sorted
  <2> QED
    BY <1>2, <2>3, <1>a DEF FifoInv, Receive, spools
<1>3. CASE StopSeen \/ Shutdown \/ Forget
  BY <1>3, <1>a, <1>b DEF StopSeen, Shutdown, Forget, FifoInv, spools
<1>4. CASE DispatcherEnds \/ Skip \/ Pass \/ SinkNotFound \/ BindingDone \/ EventDone
  <2>1. Busy' => Busy /\ ev' = ev
    BY <1>4 DEF DispatcherEnds, Skip, Pass, SinkNotFound, AtRef, BindingDone, EventDone, NextBinding, Busy
  <2>2. OrderInv'
    BY <1>4, <2>1, OrderKept
    DEF DispatcherEnds, Skip, Pass, SinkNotFound, BindingDone, EventDone, FifoInv, spools
  <2> QED
    BY <1>4, <2>2, <1>a
    DEF DispatcherEnds, Skip, Pass, SinkNotFound, BindingDone, EventDone, FifoInv, spools
<1>5. CASE BudgetExpires
  <2>1. OrderInv'
    BY <1>5, OrderKept DEF BudgetExpires, LoseMemory, FifoInv, spools, Busy
  <2> QED
    BY <1>5, <2>1, <1>a DEF BudgetExpires, FifoInv, spools
<1>6. CASE Tick \/ RetryEnds
  <2>1. Files'
    BY <1>6, FilesKept DEF Tick, RetryEnds, Has, spools
  <2> QED
    BY <1>6, <2>1, <1>b DEF Tick, RetryEnds, FifoInv, spools
<1>7. CASE Restart
  <2>1. OrderInv'
    BY <1>7, OrderKept DEF Restart, LoseMemory, FifoInv, Busy
  <2>2. ASSUME NEW s \in Sinks PROVE Bounded(s)' /\ Numbered(s)' /\ Held(s)'
    <3>1. /\ spool'[s] = spool[s] /\ nextSeq'[s] \in Nat
          /\ \A f \in spool'[s] : f[1] < nextSeq'[s]
      BY <1>7 DEF Restart, Follows, TypeInv, FilesType
    <3>2. Bounded(s)' /\ Numbered(s)'
      BY <3>1, FifoShrinks DEF FifoInv
    <3> QED
      BY <1>7, <3>2 DEF Restart, Held
  <2> QED
    BY <2>1, <2>2 DEF FifoInv
<1>8. ASSUME NEW s \in Sinks, SendAccepted(s) \/ SendRejected(s) PROVE FifoInv'
  <2>1. Busy' => Busy /\ ev' = ev
    BY <1>8 DEF SendAccepted, SendRejected, Sending, AtRef, Busy
  <2>2. OrderInv'
    BY <1>8, <2>1, OrderKept DEF SendAccepted, SendRejected, FifoInv, spools
  <2> QED
    BY <1>8, <2>2, <1>a DEF SendAccepted, SendRejected, FifoInv, spools
<1>9. ASSUME NEW s \in Sinks, SendSpooled(s) PROVE FifoInv'
  <2>1. Busy /\ ev' = ev /\ UNCHANGED <<emitted, buf, retry>>
    BY <1>9 DEF SendSpooled, Sending, AtRef, Busy
  <2>2. PICK kept \in SUBSET spool[s] : Push(s, kept)
    BY <1>9 DEF SendSpooled
  <2>3. /\ spool'[s] = kept \cup {<<nextSeq[s], ev>>}
        /\ \A t \in Sinks \ {s} : spool'[t] = spool[t] /\ nextSeq'[t] = nextSeq[t]
    BY <2>2 DEF Push, TypeInv, FilesType
  <2>4. OrderInv'
    <3>1. \A t \in Sinks : \A f \in spool'[t] : f \in spool[t] \/ (Busy /\ f[2] = ev)
      BY <2>1, <2>3
    <3> QED
      BY <2>1, <3>1, OrderKept DEF FifoInv
  <2>5. ASSUME NEW t \in Sinks \ {s} PROVE Bounded(t)' /\ Numbered(t)' /\ Held(t)'
    BY <2>1, <2>3 DEF FifoInv, Bounded, Numbered, Held, Has, retry
  <2>6. Bounded(s)' /\ Numbered(s)' /\ Held(s)'
    BY <2>1, <2>2, PushFifo
  <2> QED
    BY <2>4, <2>5, <2>6 DEF FifoInv
<1>10. ASSUME NEW s \in Sinks, SendLost(s) PROVE FifoInv'
  <2>1. /\ Busy' => Busy /\ ev' = ev
        /\ UNCHANGED <<emitted, buf, retry>>
    BY <1>10 DEF SendLost, Sending, AtRef, Busy
  <2>2. PICK kept \in SUBSET spool[s] : PushFails(s, kept)
    BY <1>10 DEF SendLost
  <2>3. \A t \in Sinks : /\ spool'[t] \subseteq spool[t]
                         /\ nextSeq[t] \in Nat /\ nextSeq'[t] \in Nat /\ nextSeq[t] =< nextSeq'[t]
                         /\ \A f \in spool[t] : f[1] \in Nat
    BY <2>2 DEF PushFails, TypeInv, FilesType
  <2>4. OrderInv'
    BY <2>1, <2>3, OrderKept DEF FifoInv
  <2>5. ASSUME NEW t \in Sinks PROVE Bounded(t)' /\ Numbered(t)' /\ Held(t)'
    <3>1. \A f \in spool'[t] : f[1] < nextSeq'[t]
      BY <2>3 DEF FifoInv, Numbered
    <3>2. Bounded(t)' /\ Numbered(t)'
      BY <2>3, <3>1, FifoShrinks DEF FifoInv
    <3>3. Held(t)'
      BY <2>1, <2>3 DEF FifoInv, Held, Has, retry, TypeInv, RetryType
    <3> QED
      BY <3>2, <3>3
  <2> QED
    BY <2>4, <2>5 DEF FifoInv
<1>11. ASSUME NEW s \in Sinks, Choose(s) \/ PeekEndsDrain(s) \/ RetryLater(s) PROVE FifoInv'
  <2>1. Files'
    BY <1>11, FilesKept DEF Choose, PeekEndsDrain, RetryLater, Leave, Has, spools
  <2> QED
    BY <1>11, <2>1, <1>b DEF Choose, PeekEndsDrain, RetryLater, FifoInv, spools
<1>12. ASSUME NEW s \in Sinks, Quarantine(s) \/ Redeliver(s) \/ Refuse(s) PROVE FifoInv'
  <2>1. Files'
    BY <1>12, FilesKept DEF Quarantine, Redeliver, Refuse, Has, spools
  <2> QED
    BY <1>12, <2>1, <1>b DEF Quarantine, Redeliver, Refuse, FifoInv, spools
<1>13. ASSUME NEW s \in Sinks, Peek(s) PROVE FifoInv'
  <2>1. PICK f \in spool[s] : IsFront(s, f) /\ peeked' = f
    BY <1>13 DEF Peek
  <2>2. ASSUME NEW t \in Sinks PROVE Bounded(t)' /\ Numbered(t)' /\ Held(t)'
    <3>1. Bounded(t)' /\ Numbered(t)'
      BY <1>13 DEF Peek, spools, FifoInv, Bounded, Numbered
    <3>2. t \in target' => t = s
      BY <1>13 DEF Peek, TypeInv, RetryType
    <3>3. Held(s)'
      BY <1>13, <2>1 DEF Peek, spools, FifoInv, Numbered, Held, IsFront
    <3> QED
      BY <3>1, <3>2, <3>3 DEF Held
  <2> QED
    BY <1>13, <2>2, <1>b DEF Peek, FifoInv, spools
<1>14. ASSUME NEW s \in Sinks, Remove(s) PROVE FifoInv'
  <2>1. \A t \in Sinks : spool'[t] \subseteq spool[t] /\ nextSeq'[t] = nextSeq[t]
    BY <1>14 DEF Remove, Without, TypeInv, FilesType
  <2>2. OrderInv'
    BY <1>14, <2>1, OrderKept DEF Remove, FifoInv, walk, Busy
  <2>3. ASSUME NEW t \in Sinks PROVE Bounded(t)' /\ Numbered(t)' /\ Held(t)'
    <3>1. \A f \in spool'[t] : f[1] < nextSeq'[t]
      BY <2>1 DEF FifoInv, Numbered
    <3>2. Bounded(t)' /\ Numbered(t)'
      BY <2>1, <3>1, FifoShrinks DEF FifoInv, TypeInv, FilesType
    <3> QED
      BY <1>14, <3>2 DEF Remove, Held, Has
  <2> QED
    BY <2>2, <2>3 DEF FifoInv
<1>15. ASSUME NEW s \in Sinks, FileGoesBad(s) PROVE FifoInv'
  BY <1>15, <1>a, <1>b DEF FileGoesBad, FifoInv
<1>16. CASE UNCHANGED vars
  BY <1>16, <1>a, <1>b DEF vars, FifoInv, spools
<1> QED
  BY <1>1, <1>2, <1>3, <1>4, <1>5, <1>6, <1>7, <1>8, <1>9, <1>10, <1>11, <1>12, <1>13, <1>14,
     <1>15, <1>16 DEF Next, DispatchStep, Sent, RetryStep, Resent

\* A spool stays in the order of the events and within its cap, and the file
\* that is being redelivered is the oldest or gone (push, open, remove).
THEOREM SpoolOrder == Spec => []SpoolIsFifo
<1>1. TypeInv /\ FifoInv => SpoolIsFifo
  BY DEF TypeInv, RetryType, FifoInv, Bounded, Numbered, Held, Has, SpoolIsFifo
<1> QED
  BY <1>1, InitType, NextType, InitFifo, NextFifo, PTL DEF Spec

-----------------------------------------------------------------------------
(* Nothing vanishes. *)

Accounted(s) == due[s] \subseteq settled[s] \cup EventsOf(spool[s]) \cup InHand(s)
Received == 1..emitted \subseteq InBuf \cup left

\* A file is only removed once its event is settled.
RemovesSettled == rpc = "removing" => \A s \in target : peeked[2] \in settled[s] \cup {Poison}

AccountInv == Received /\ RemovesSettled /\ \A s \in Sinks : Accounted(s)

LEMMA InitAccount == Init => AccountInv
BY DEF Init, AccountInv, Received, RemovesSettled, Accounted, InBuf

\* What one more or one less event does to the channel.
LEMMA InBufSteps ==
    ASSUME NEW q \in Seq(Events)
    PROVE  /\ \A e \in Events : \A i \in DOMAIN q :
                 \E j \in DOMAIN Append(q, e) : Append(q, e)[j] = q[i]
           /\ \A e \in Events : \E j \in DOMAIN Append(q, e) : Append(q, e)[j] = e
           /\ q # <<>> => \A i \in DOMAIN q :
                 q[i] = Head(q) \/ \E j \in DOMAIN Tail(q) : Tail(q)[j] = q[i]
<1>1. ASSUME NEW e \in Events, NEW i \in DOMAIN q
      PROVE  i \in DOMAIN Append(q, e) /\ Append(q, e)[i] = q[i]
  OBVIOUS
<1>2. ASSUME NEW e \in Events
      PROVE  Len(q) + 1 \in DOMAIN Append(q, e) /\ Append(q, e)[Len(q) + 1] = e
  OBVIOUS
<1>3. ASSUME q # <<>>, NEW i \in DOMAIN q, i # 1
      PROVE  i - 1 \in DOMAIN Tail(q) /\ Tail(q)[i - 1] = q[i]
  BY <1>3
<1>4. q # <<>> => q[1] = Head(q)
  OBVIOUS
<1>5. ASSUME NEW e \in Events, NEW i \in DOMAIN q
      PROVE  \E j \in DOMAIN Append(q, e) : Append(q, e)[j] = q[i]
  BY <1>1, Zenon
<1>6. ASSUME NEW e \in Events PROVE \E j \in DOMAIN Append(q, e) : Append(q, e)[j] = e
  BY <1>2, Zenon
<1>7. ASSUME q # <<>>, NEW i \in DOMAIN q
      PROVE  q[i] = Head(q) \/ \E j \in DOMAIN Tail(q) : Tail(q)[j] = q[i]
  BY <1>3, <1>4, <1>7, Zenon
<1> QED
  BY <1>5, <1>6, <1>7, Zenon

\* Steps that leave the history, the files and what the dispatcher holds.
LEMMA AccountKept ==
    ASSUME AccountInv, UNCHANGED <<spool, due, settled>>,
           \A s \in Sinks : InHand(s)' = InHand(s)
    PROVE  \A s \in Sinks : Accounted(s)'
BY DEF AccountInv, Accounted, EventsOf

\* The walk over a binding's sinks leaves only the one it has come to behind.
LEMMA LeftStep ==
    ASSUME TypeInv, dpc = "sending", NEW t, t \in Left(bi, si), t # Bindings[bi].sinks[si]
    PROVE  t \in Left(bi, si + 1)
<1>1. /\ DOMAIN Bindings[bi].sinks \subseteq Nat /\ si \in Nat
  BY BindingType DEF TypeInv, DispatchType
<1>2. PICK x \in DOMAIN Bindings[bi].sinks : x >= si /\ t = Bindings[bi].sinks[x]
  BY DEF Left
<1>3. x >= si + 1
  BY <1>1, <1>2
<1> QED
  BY <1>2, <1>3 DEF Left

\* A delivery, refused or not, takes one sink off the dispatcher's hands.
LEMMA SendingHand ==
    ASSUME TypeInv, NEW s \in Sinks, Sending(s), ev' = ev
    PROVE  /\ \A t \in Sinks \ {s} : InHand(t) \subseteq InHand(t)'
           /\ InHand(s) \subseteq {ev}
<1>1. UNCHANGED <<dpc, bi>> /\ si' = si + 1
  BY DEF Sending
<1>2. \A t \in Sinks \ {s} : t \in Left(bi, si) => t \in Left(bi, si + 1)
  BY LeftStep DEF Sending, AtRef, Ref
<1> QED
  BY <1>1, <1>2 DEF InHand, Left

LEMMA NextAccount == TypeInv /\ AccountInv /\ [Next]_vars => AccountInv'
<1> SUFFICES ASSUME TypeInv, AccountInv, [Next]_vars PROVE AccountInv'
  OBVIOUS
<1> DEFINE All == \A s \in Sinks : Accounted(s)
<1>a. ASSUME UNCHANGED <<emitted, buf, left>> PROVE Received'
  BY <1>a DEF AccountInv, Received, InBuf
<1>b. ASSUME UNCHANGED <<dpc, walk, spool, due, settled>> PROVE All'
  BY <1>b, AccountKept DEF walk, InHand, Left
<1>c. ASSUME UNCHANGED retry, \A s \in Sinks : settled[s] \subseteq settled'[s]
      PROVE  RemovesSettled'
  BY <1>c DEF AccountInv, RemovesSettled, retry, TypeInv, RetryType
<1>d. buf \in Seq(Events) /\ emitted \in Nat
  BY DEF TypeInv, DispatchType
<1>1. CASE Emit
  <2>1. emitted + 1 \in Events
    BY <1>1, EventAssumption DEF Emit, TypeInv, DispatchType, Events
  <2>2. emitted + 1 \in (InBuf \cup left)' /\ InBuf \cup left \subseteq (InBuf \cup left)'
    <3>1. CASE dpc = "ended"
      BY <1>1, <3>1 DEF Emit, InBuf
    <3>2. CASE dpc # "ended" /\ Len(buf) < Capacity
      <4>1. buf' = Append(buf, emitted + 1) /\ left' = left
        BY <1>1, <3>2 DEF Emit
      <4>2. \A i \in DOMAIN buf : \E j \in DOMAIN buf' : buf'[j] = buf[i]
        BY <1>d, <2>1, <4>1, InBufSteps, Zenon
      <4>3. \E j \in DOMAIN buf' : buf'[j] = emitted + 1
        BY <1>d, <2>1, <4>1, InBufSteps, Zenon
      <4> QED
        BY <4>1, <4>2, <4>3, Zenon DEF InBuf
    <3>3. CASE dpc # "ended" /\ Len(buf) = Capacity
      <4>1. buf # <<>> /\ Tail(buf) \in Seq(Events)
        BY <1>d, <3>3, EventAssumption
      <4>2. /\ buf' = Append(Tail(buf), emitted + 1) /\ left' = left \cup {Head(buf)}
        BY <1>1, <3>3 DEF Emit
      <4>3. \A i \in DOMAIN buf :
              buf[i] = Head(buf) \/ \E j \in DOMAIN Tail(buf) : Tail(buf)[j] = buf[i]
        BY <1>d, <4>1, InBufSteps
      <4>4. \A i \in DOMAIN Tail(buf) : \E j \in DOMAIN buf' : buf'[j] = Tail(buf)[i]
        BY <2>1, <4>1, <4>2, InBufSteps
      <4>5. \E j \in DOMAIN buf' : buf'[j] = emitted + 1
        BY <2>1, <4>1, <4>2, InBufSteps
      <4> QED
        BY <4>2, <4>3, <4>4, <4>5 DEF InBuf
    <3> QED
      BY <1>1, <3>1, <3>2, <3>3 DEF Emit
  <2>3. Received'
    <3>1. emitted' = emitted + 1
      BY <1>1 DEF Emit
    <3>2. \A n \in 1..emitted + 1 : n \in 1..emitted \/ n = emitted + 1
      BY <1>d
    <3> QED
      BY <2>2, <3>1, <3>2 DEF AccountInv, Received
  <2> QED
    BY <1>1, <2>3, <1>b, <1>c DEF Emit, AccountInv, spools
<1>2. CASE Receive
  <2>1. /\ buf # <<>> /\ buf' = Tail(buf) /\ left' = left \cup {Head(buf)}
        /\ emitted' = emitted
    BY <1>2 DEF Receive
  <2>2. \A i \in DOMAIN buf :
          buf[i] = Head(buf) \/ \E j \in DOMAIN buf' : buf'[j] = buf[i]
    BY <1>d, <2>1, InBufSteps, Zenon
  <2>3. InBuf \subseteq InBuf' \cup left'
    BY <2>1, <2>2, Zenon DEF InBuf
  <2>4. Received'
    BY <2>1, <2>3 DEF AccountInv, Received
  <2>5. All'
    BY <1>2, AccountKept DEF Receive, InHand, spools
  <2> QED
    BY <1>2, <2>4, <2>5, <1>c DEF Receive, AccountInv
<1>3. CASE StopSeen \/ Shutdown \/ Forget
  BY <1>3, <1>a, <1>b, <1>c DEF StopSeen, Shutdown, Forget, AccountInv, spools, history
<1>4. CASE DispatcherEnds \/ Skip \/ EventDone
  <2>1. All'
    BY <1>4, AccountKept
    DEF DispatcherEnds, Skip, EventDone, NextBinding, InHand, spools, history
  <2> QED
    BY <1>4, <2>1, <1>a, <1>c DEF DispatcherEnds, Skip, EventDone, AccountInv, history
<1>5. CASE Pass
  <2>1. ASSUME NEW s \in Sinks PROVE Accounted(s)'
    <3>1. UNCHANGED <<spool, settled>> /\ InHand(s) = {} /\ ev' = ev
      BY <1>5 DEF Pass, InHand, spools
    <3>2. CASE due' = due
      BY <3>1, <3>2 DEF AccountInv, Accounted, EventsOf
    <3>3. CASE /\ dpc' = "sending" /\ bi' = bi /\ si' = 1
               /\ due' = [t \in Sinks |-> IF t \in Left(bi, 1) THEN due[t] \cup {ev} ELSE due[t]]
      <4>1. due'[s] \subseteq due[s] \cup InHand(s)'
        BY <3>1, <3>3 DEF InHand, Left
      <4> QED
        BY <3>1, <4>1 DEF AccountInv, Accounted, EventsOf
    <3> QED
      BY <1>5, <3>2, <3>3 DEF Pass
  <2> QED
    BY <1>5, <2>1, <1>a, <1>c DEF Pass, AccountInv
<1>6. CASE BudgetExpires \/ Restart
  <2>1. LoseMemory /\ UNCHANGED <<emitted, spool, due>> /\ dpc' # "sending"
    BY <1>6 DEF BudgetExpires, Restart, spools
  <2>2. Received'
    BY <2>1 DEF LoseMemory, AccountInv, Received, InBuf
  <2>3. All'
    BY <2>1 DEF LoseMemory, AccountInv, Accounted, EventsOf, TypeInv, HistoryType
  <2>4. \A s \in Sinks : settled[s] \subseteq settled'[s]
    BY <2>1 DEF LoseMemory
  <2>5. RemovesSettled'
    BY <1>6, <2>4, <1>c DEF BudgetExpires, Restart, RemovesSettled
  <2> QED
    BY <2>2, <2>3, <2>5 DEF AccountInv
<1>7. CASE Tick \/ RetryEnds
  BY <1>7, <1>a, <1>b DEF Tick, RetryEnds, AccountInv, RemovesSettled, spools, history
<1>8. ASSUME NEW s \in Sinks, SendAccepted(s) \/ SendRejected(s) PROVE AccountInv'
  <2>1. /\ Sending(s) /\ UNCHANGED <<emitted, buf, left, ev, retry, spool, due>>
        /\ settled' = [settled EXCEPT ![s] = @ \cup {ev}]
    BY <1>8 DEF SendAccepted, SendRejected, spools
  <2>2. /\ settled'[s] = settled[s] \cup {ev}
        /\ \A t \in Sinks \ {s} : settled'[t] = settled[t]
    BY <2>1 DEF TypeInv, HistoryType
  <2>3. All'
    BY <2>1, <2>2, SendingHand DEF AccountInv, Accounted, EventsOf
  <2> QED
    BY <2>1, <2>2, <2>3, <1>a, <1>c DEF AccountInv
<1>9. ASSUME NEW s \in Sinks, SendSpooled(s) \/ SendLost(s) PROVE AccountInv'
  <2>1. Sending(s) /\ UNCHANGED <<emitted, buf, left, ev, retry, due>>
    BY <1>9 DEF SendSpooled, SendLost
  <2>2. PICK kept \in SUBSET spool[s] : Push(s, kept) \/ PushFails(s, kept)
    BY <1>9 DEF SendSpooled, SendLost
  <2>3. ev # Poison
    BY <2>1, EventAssumption DEF Sending, AtRef, TypeInv, DispatchType, Busy, Events
  <2>4. /\ settled[s] \cup EventsOf(spool[s] \ kept) \subseteq settled'[s]
        /\ ev \in settled'[s] \cup EventsOf(spool'[s])
        /\ kept \subseteq spool'[s]
    <3>1. CASE Push(s, kept)
      <4>1. /\ spool'[s] = kept \cup {<<nextSeq[s], ev>>}
            /\ settled'[s] = settled[s] \cup EventsOf(spool[s] \ kept)
        BY <3>1 DEF Push, TypeInv, FilesType, HistoryType
      <4> DEFINE new == <<nextSeq[s], ev>>
      <4>2. new[2] = ev
        OBVIOUS
      <4> HIDE DEF new
      <4>3. ev \in EventsOf(kept \cup {new})
        BY <2>3, <4>2 DEF EventsOf
      <4> QED
        BY <4>1, <4>3 DEF new
    <3>2. CASE PushFails(s, kept)
      BY <3>2 DEF PushFails, TypeInv, FilesType, HistoryType
    <3> QED
      BY <2>2, <3>1, <3>2
  <2>5. \A t \in Sinks \ {s} : settled'[t] = settled[t] /\ spool'[t] = spool[t]
    BY <2>2 DEF Push, PushFails, TypeInv, FilesType, HistoryType
  <2>6. EventsOf(spool[s]) \subseteq settled'[s] \cup EventsOf(spool'[s])
    BY <2>4 DEF EventsOf
  <2>7. Accounted(s)'
    <3>1. due[s] \subseteq settled[s] \cup EventsOf(spool[s]) \cup {ev}
      BY <2>1, SendingHand DEF AccountInv, Accounted
    <3> QED
      BY <2>1, <2>4, <2>6, <3>1 DEF Accounted, EventsOf
  <2>8. ASSUME NEW t \in Sinks \ {s} PROVE Accounted(t)'
    BY <2>1, <2>5, SendingHand DEF AccountInv, Accounted, EventsOf
  <2>9. \A t \in Sinks : settled[t] \subseteq settled'[t]
    BY <2>4, <2>5
  <2> QED
    BY <2>1, <2>7, <2>8, <2>9, <1>a, <1>c DEF AccountInv
<1>10. ASSUME NEW s \in Sinks, Choose(s) \/ Peek(s) \/ PeekEndsDrain(s) \/ RetryLater(s)
       PROVE  AccountInv'
  BY <1>10, <1>a, <1>b
  DEF Choose, Peek, PeekEndsDrain, RetryLater, Leave, AccountInv, RemovesSettled, spools, history
<1>11. ASSUME NEW s \in Sinks, Quarantine(s) \/ Redeliver(s) \/ Refuse(s) PROVE AccountInv'
  <2>1. /\ s \in target /\ UNCHANGED <<emitted, buf, left, dpc, walk, spool, due, target, peeked>>
        /\ peeked[2] \in settled'[s] \cup {Poison}
        /\ \A t \in Sinks : settled[t] \subseteq settled'[t]
    BY <1>11 DEF Quarantine, Redeliver, Refuse, spools, history, TypeInv, RetryType, HistoryType
  <2>2. All'
    BY <2>1 DEF AccountInv, Accounted, EventsOf, InHand, Left, walk
  <2>3. RemovesSettled'
    BY <2>1 DEF RemovesSettled, TypeInv, RetryType
  <2> QED
    BY <2>1, <2>2, <2>3, <1>a DEF AccountInv
<1>12. ASSUME NEW s \in Sinks, Remove(s) PROVE AccountInv'
  <2>1. /\ UNCHANGED <<emitted, buf, left, dpc, walk, due, settled>>
        /\ peeked[2] \in settled[s] \cup {Poison}
    BY <1>12 DEF Remove, AccountInv, RemovesSettled, history
  <2>2. /\ EventsOf(spool[s]) \subseteq EventsOf(spool'[s]) \cup settled[s]
        /\ \A t \in Sinks \ {s} : spool'[t] = spool[t]
    <3>1. /\ spool'[s] = Without(s, peeked)
          /\ \A t \in Sinks \ {s} : spool'[t] = spool[t]
      BY <1>12 DEF Remove, TypeInv, FilesType
    <3>2. \A f \in spool[s] : f = peeked \/ f \in spool'[s]
      BY <3>1 DEF Without
    <3> QED
      BY <2>1, <3>1, <3>2 DEF EventsOf
  <2>3. All'
    BY <2>1, <2>2 DEF AccountInv, Accounted, EventsOf, InHand, Left, walk
  <2> QED
    BY <1>12, <2>1, <2>3, <1>a DEF AccountInv, Remove, RemovesSettled
<1>13. CASE SinkNotFound \/ BindingDone
  <2>1. \A s \in Sinks : InHand(s) \subseteq InHand(s)'
    <3>1. CASE SinkNotFound
      <4>1. /\ dpc = "sending" /\ Bindings[bi].sinks[si] \notin Sinks
            /\ UNCHANGED <<dpc, ev, bi>> /\ si' = si + 1
        BY <3>1 DEF SinkNotFound, AtRef, Ref
      <4>2. \A s \in Sinks : s \in Left(bi, si) => s \in Left(bi, si + 1)
        BY <4>1, LeftStep
      <4> QED
        BY <4>1, <4>2 DEF InHand, Left
    <3>2. CASE BindingDone
      <4>1. bi \in DOMAIN Bindings /\ si \in Nat /\ si > Len(Bindings[bi].sinks)
        BY <3>2 DEF BindingDone, TypeInv, DispatchType
      <4>2. Left(bi, si) = {}
        BY <4>1, BindingType DEF Left
      <4> QED
        BY <4>2 DEF InHand
    <3> QED
      BY <1>13, <3>1, <3>2
  <2>2. All'
    BY <1>13, <2>1 DEF SinkNotFound, BindingDone, AccountInv, Accounted, EventsOf, spools, history
  <2> QED
    BY <1>13, <2>2, <1>a, <1>c DEF SinkNotFound, BindingDone, AccountInv, history
<1>14. ASSUME NEW s \in Sinks, FileGoesBad(s) PROVE AccountInv'
  BY <1>14, <1>a, <1>b, <1>c DEF FileGoesBad, AccountInv, history
<1>15. CASE UNCHANGED vars
  BY <1>15, <1>a, <1>b, <1>c DEF vars, AccountInv, spools, history
<1> QED
  BY <1>1, <1>2, <1>3, <1>4, <1>5, <1>6, <1>7, <1>8, <1>9, <1>10, <1>11, <1>12, <1>13,
     <1>14, <1>15 DEF Next, DispatchStep, Sent, RetryStep, Resent

\* No event is lost but for the reasons the code knows (dispatch, drain_spool,
\* drain_buffered).
THEOREM NoLoss == Spec => []NothingVanishes
<1>1. AccountInv => NothingVanishes
  BY DEF AccountInv, Received, Accounted, NothingVanishes
<1> QED
  BY <1>1, InitType, NextType, InitAccount, NextAccount, PTL DEF Spec
=============================================================================
