--------------------------- MODULE SchedulerProofs ---------------------------
(***************************************************************************)
(* The cell scheduler for any number of channels and any water marks: its  *)
(* list and its states agree, no channel with cells is forgotten, and the  *)
(* channels it lists have the connection and the socket that a run looks   *)
(* at.                                                                     *)
(*                                                                         *)
(* What is checked between runs needs an invariant that holds in the       *)
(* middle of one, where a channel is on none of the lists because it is    *)
(* being served or waits in to_readd, and where a write may list it again  *)
(* or take it down.  The invariant speaks of one channel at a time, so a   *)
(* step has to be looked at for the channel it is about only.              *)
(***************************************************************************)
EXTENDS Scheduler, TLAPS

\* The scheduling system as a value.
Sys == [state : [Channels -> SchedStates], pending : SUBSET Channels,
        ev : BOOLEAN, socks : SUBSET Channels]

\* Systems s and t do not differ about channel d.
Same(s, t, d) ==
    /\ t.state[d] = s.state[d]
    /\ d \in t.pending <=> d \in s.pending
    /\ d \in t.socks <=> d \in s.socks

\* A listed channel has a run coming.
EventSet(s) == s.pending # {} => s.ev = TRUE

-----------------------------------------------------------------------------
(* The invariant.                                                          *)

\* Amounts stay within the bound.
Bounded(c) == Total(c) + out[c] <= MaxData

\* The present run has taken c off the list: it is being served, or is over
\* its limit and waits for the end of the run.
InHand(c) == at # "waiting" /\ c \in run.readd \cup {cur}

\* The list and the states agree, and what is being served is not listed.
Listed(c) ==
    /\ c \in q.pending => q.state[c] = "PENDING" /\ c # cur
    /\ q.state[c] = "PENDING" => c \in q.pending \/ InHand(c)

\* There are cells only on a channel that has been open.
EmptyBefore(c) == chan[c] \in {"freed", "opening", "finished"} => cells[c] = 0

\* A channel that waits for its outbuf has something in it, so that the write
\* that empties it reports.
WillReport(c) ==
    chan[c] = "open" /\ q.state[c] \in {"IDLE", "WAITING_TO_WRITE"} => out[c] > 0

\* Cells are remembered, in the middle of a run too.
Remembered(c) ==
    chan[c] = "open" /\ cells[c] > 0 =>
        c \in q.pending \/ InHand(c) \/ q.state[c] = "WAITING_TO_WRITE"

\* What is listed, or will be again, has a connection.
Connected(c) ==
    c \in q.pending \cup run.readd \cup {cur} => chan[c] \in {"open", "opening", "closing"}

\* The loop of KIST needs the socket of what it serves, and of the channel it
\* served before, which it may write to: that can be listed again.
HasSocket(c) ==
    /\ c \in q.socks => chan[c] \notin {"finished", "freed"}
    /\ at \in {"loop", "serve"} /\ mode # "vanilla" =>
          /\ c \in q.pending \cup {cur} => c \in q.socks
          /\ c = run.prev /\ chan[c] \in {"opening", "open"} => c \in q.socks

\* All that the invariant says of one channel.
ChannelInv(c) ==
    /\ Bounded(c) /\ Listed(c) /\ EmptyBefore(c) /\ WillReport(c) /\ Remembered(c)
    /\ Connected(c) /\ HasSocket(c)

\* The local variables of a run are in use during one, and only KIST has a
\* socket table.
Locals ==
    /\ at = "waiting" => run = NoRun
    /\ at = "serve" <=> cur # NoChannel
    /\ mode = "vanilla" => q.socks = {}

\* The inductive invariant.
IInv ==
    /\ TypeOK
    /\ Locals
    /\ WorkIsScheduled
    /\ \A c \in Channels : ChannelInv(c)

-----------------------------------------------------------------------------
(* The calls of scheduler.c: what each does to the channel it is about.     *)

\* t is s after channel c got cells, ...
GotCells(s, t, c) ==
    /\ t \in Sys /\ EventSet(t) /\ t.socks = s.socks
    /\ \A d \in Channels \ {c} : Same(s, t, d)
    /\ \/ /\ s.state[c] = "WAITING_FOR_CELLS"
          /\ t.state[c] = "PENDING" /\ c \in t.pending
       \/ /\ s.state[c] = "IDLE"
          /\ t.state[c] = "WAITING_TO_WRITE" /\ t.pending = s.pending
       \/ s.state[c] \in {"WAITING_TO_WRITE", "PENDING"} /\ t = s

\* ... after its outbuf got room, ...
GotRoom(s, t, c) ==
    /\ t \in Sys /\ (EventSet(s) => EventSet(t)) /\ t.socks = s.socks
    /\ \A d \in Channels \ {c} : Same(s, t, d)
    /\ \/ /\ s.state[c] = "WAITING_TO_WRITE"
          /\ t.state[c] = "PENDING" /\ c \in t.pending
       \/ /\ s.state[c] = "IDLE"
          /\ t.state[c] = "WAITING_FOR_CELLS" /\ t.pending = s.pending
       \/ s.state[c] \in {"WAITING_FOR_CELLS", "PENDING"} /\ t = s

\* ... and after it was released.
Released(s, t, c) ==
    /\ t \in Sys /\ (EventSet(s) => EventSet(t))
    /\ t.socks = IF mode = "vanilla" THEN s.socks ELSE s.socks \ {c}
    /\ t.pending = s.pending \ {c} /\ t.state[c] = "IDLE"
    /\ \A d \in Channels \ {c} : Same(s, t, d)

\* Setting the run event changes nothing else.
LEMMA ScheduleFacts ==
    ASSUME NEW s \in Sys
    PROVE  /\ Schedule(s) \in Sys /\ EventSet(Schedule(s))
           /\ Schedule(s).state = s.state
           /\ Schedule(s).pending = s.pending
           /\ Schedule(s).socks = s.socks
BY DEF Schedule, Sys, EventSet

\* Listing a channel sets the event and leaves the others alone.
LEMMA MakePendingFacts ==
    ASSUME NEW s \in Sys, NEW c \in Channels
    PROVE  /\ MakePending(s, c) \in Sys /\ EventSet(MakePending(s, c))
           /\ MakePending(s, c).state[c] = "PENDING"
           /\ c \in MakePending(s, c).pending
           /\ MakePending(s, c).socks = s.socks
           /\ \A d \in Channels \ {c} : Same(s, MakePending(s, c), d)
<1> DEFINE t == [s EXCEPT !.state[c] = "PENDING", !.pending = @ \cup {c}]
<1>1. /\ t \in Sys /\ t.state[c] = "PENDING" /\ c \in t.pending /\ t.socks = s.socks
      /\ \A d \in Channels \ {c} : t.state[d] = s.state[d] /\ (d \in t.pending <=> d \in s.pending)
  BY DEF Sys, SchedStates
<1> QED
  BY <1>1, ScheduleFacts DEF MakePending, Same

\* scheduler_channel_has_waiting_cells,
LEMMA HasWaitingCellsFacts ==
    ASSUME NEW s \in Sys, NEW c \in Channels, EventSet(s)
    PROVE  GotCells(s, HasWaitingCells(s, c), c)
<1>1. CASE s.state[c] = "WAITING_FOR_CELLS"
  BY <1>1, MakePendingFacts DEF HasWaitingCells, GotCells
<1>2. CASE s.state[c] = "IDLE"
  <2> DEFINE t == [s EXCEPT !.state[c] = "WAITING_TO_WRITE"]
  <2>1. /\ t \in Sys /\ t.pending = s.pending /\ t.socks = s.socks /\ t.ev = s.ev
        /\ t.state[c] = "WAITING_TO_WRITE"
        /\ \A d \in Channels \ {c} : t.state[d] = s.state[d]
    BY DEF Sys, SchedStates
  <2>2. HasWaitingCells(s, c) = t
    BY <1>2 DEF HasWaitingCells
  <2> HIDE DEF t
  <2> QED
    BY <1>2, <2>1, <2>2 DEF Same, EventSet, GotCells
<1>3. CASE s.state[c] \notin {"WAITING_FOR_CELLS", "IDLE"}
  BY <1>3 DEF HasWaitingCells, GotCells, Same, Sys, SchedStates
<1> QED
  BY <1>1, <1>2, <1>3

\* scheduler_channel_wants_writes,
LEMMA WantsWritesFacts ==
    ASSUME NEW s \in Sys, NEW c \in Channels
    PROVE  GotRoom(s, WantsWrites(s, c), c)
<1>1. CASE s.state[c] = "WAITING_TO_WRITE"
  BY <1>1, MakePendingFacts DEF WantsWrites, GotRoom
<1>2. CASE s.state[c] = "IDLE"
  <2> DEFINE t == [s EXCEPT !.state[c] = "WAITING_FOR_CELLS"]
  <2>1. /\ t \in Sys /\ t.pending = s.pending /\ t.socks = s.socks /\ t.ev = s.ev
        /\ t.state[c] = "WAITING_FOR_CELLS"
        /\ \A d \in Channels \ {c} : t.state[d] = s.state[d]
    BY DEF Sys, SchedStates
  <2>2. WantsWrites(s, c) = t
    BY <1>2 DEF WantsWrites
  <2> HIDE DEF t
  <2> QED
    BY <1>2, <2>1, <2>2 DEF Same, EventSet, GotRoom
<1>3. CASE s.state[c] \notin {"WAITING_TO_WRITE", "IDLE"}
  BY <1>3 DEF WantsWrites, GotRoom, Same, Sys, SchedStates
<1> QED
  BY <1>1, <1>2, <1>3

\* and scheduler_release_channel do what the three relations above say.
LEMMA ReleaseChannelFacts ==
    ASSUME NEW s \in Sys, NEW c \in Channels
    PROVE  Released(s, ReleaseChannel(s, c), c)
<1> DEFINE t == ReleaseChannel(s, c)
<1>1. /\ t.state = [s.state EXCEPT ![c] = "IDLE"]
      /\ t.pending = s.pending \ {c} /\ t.ev = s.ev
      /\ t.socks = IF mode = "vanilla" THEN s.socks ELSE s.socks \ {c}
  BY DEF ReleaseChannel, Sys
<1>2. t \in Sys
  BY DEF ReleaseChannel, Sys, SchedStates
<1>3. /\ t.state[c] = "IDLE"
      /\ \A d \in Channels \ {c} : Same(s, t, d)
  <2> HIDE DEF t
  <2> QED
    BY <1>1 DEF Same, Sys
<1>4. EventSet(s) => EventSet(t)
  <2> HIDE DEF t
  <2> QED
    BY <1>1 DEF EventSet
<1> QED
  BY <1>1, <1>2, <1>3, <1>4 DEF Released

-----------------------------------------------------------------------------
(* Room in an outbuf.                                                       *)

\* The maximum with zero and ...
LEMMA MaxZero ==
    ASSUME NEW a \in Int
    PROVE  Max({a, 0}) \in Nat /\ Max({a, 0}) >= a
<1>1. \E x \in {a, 0} : \A y \in {a, 0} : x >= y
  OBVIOUS
<1>2. Max({a, 0}) \in {a, 0} /\ \A y \in {a, 0} : Max({a, 0}) >= y
  BY <1>1 DEF Max
<1> QED
  BY <1>2

\* ... the minimum of two integers.
LEMMA MinOfTwo ==
    ASSUME NEW a \in Int, NEW b \in Int
    PROVE  Min({a, b}) \in Int /\ Min({a, b}) <= a /\ Min({a, b}) <= b
<1>1. \E x \in {a, b} : \A y \in {a, b} : x <= y
  OBVIOUS
<1>2. Min({a, b}) \in {a, b} /\ \A y \in {a, b} : Min({a, b}) <= y
  BY <1>1 DEF Min
<1> QED
  BY <1>2

\* The size_t difference is zero for an outbuf at the high water mark only:
\* SizeMax is beyond everything that is subtracted.
LEMMA RoomIsZero ==
    ASSUME NEW o \in 0..MaxData
    PROVE  /\ (High - o) % SizeMax \in Nat
           /\ (High - o) % SizeMax = 0 => o = High
<1>1. /\ High \in Nat \ {0} /\ MaxData \in Nat /\ SizeMax \in Nat
      /\ SizeMax > High + MaxData
  BY SchedulerConstants
<1>2. CASE o <= High
  <2>1. (High - o) % SizeMax = High - o
    BY <1>1, <1>2
  <2> QED
    BY <1>1, <1>2, <2>1
<1>3. CASE o > High
  <2>1. (High - o) % SizeMax = High - o + SizeMax
    BY <1>1, <1>3
  <2> QED
    BY <1>1, <1>3, <2>1
<1> QED
  BY <1>1, <1>2, <1>3

-----------------------------------------------------------------------------
\* What a write to the kernel may do: nothing that the scheduler hears of, in
\* which case the outbuf does not run empty; a report; or the end of the
\* channel.
LEMMA WriteToKernelFacts ==
    ASSUME TypeOK, NEW c \in Channels, NEW s \in Sys, WriteToKernel(c, s)
    PROVE  /\ out' \in [Channels -> 0..MaxData] /\ out'[c] <= out[c]
           /\ \A d \in Channels \ {c} : out'[d] = out[d] /\ chan'[d] = chan[d]
           /\ chan' \in [Channels -> {"freed", "opening", "open", "closing", "finished"}]
           /\ \/ /\ chan'[c] = chan[c] /\ q' = s
                 /\ out'[c] > 0 \/ out'[c] = out[c]
              \/ /\ chan[c] \in {"opening", "open"} /\ chan'[c] = chan[c]
                 /\ GotRoom(s, q', c)
              \/ /\ chan[c] \in {"opening", "open"} /\ chan'[c] = "closing"
                 /\ out'[c] = 0 /\ Released(s, q', c)
<1>1. PICK w \in HandleWrite(c, s) :
        /\ out' = [out EXCEPT ![c] = w.out]
        /\ chan' = [chan EXCEPT ![c] = IF w.dead THEN "closing" ELSE @]
        /\ q' = w.s
  BY DEF WriteToKernel
<1>2. Low \in Nat \ {0} /\ out[c] \in 0..MaxData /\ MaxData \in Nat
  BY SchedulerConstants DEF TypeOK
<1>3. /\ w.out \in 0..out[c]
      /\ \/ w.dead = FALSE /\ w.s = s /\ (w.out > 0 \/ w.out = out[c])
         \/ w.dead = FALSE /\ w.s = WantsWrites(s, c) /\ chan[c] \in {"opening", "open"}
         \/ /\ w.dead = TRUE /\ w.s = ReleaseChannel(s, c) /\ w.out = 0
            /\ chan[c] \in {"opening", "open"}
  BY <1>2 DEF HandleWrite
<1>4. /\ out'[c] = w.out /\ chan'[c] = IF w.dead THEN "closing" ELSE chan[c]
      /\ \A d \in Channels \ {c} : out'[d] = out[d] /\ chan'[d] = chan[d]
  BY <1>1 DEF TypeOK
<1>5. w.out \in 0..MaxData
  BY <1>2, <1>3
<1>6. out' \in [Channels -> 0..MaxData]
  BY <1>1, <1>5 DEF TypeOK
<1>7. chan' \in [Channels -> {"freed", "opening", "open", "closing", "finished"}]
  BY <1>1 DEF TypeOK
<1> QED
  BY <1>1, <1>2, <1>3, <1>4, <1>6, <1>7, WantsWritesFacts, ReleaseChannelFacts

-----------------------------------------------------------------------------
(* A step is about one channel.                                             *)

\* The states of a channel.
ChanStates == {"freed", "opening", "open", "closing", "finished"}

\* The part of the type invariant a step on one channel needs.
Types ==
    /\ chan \in [Channels -> ChanStates]
    /\ cells \in [Channels -> 0..MaxData]
    /\ destroys \in [Channels -> 0..MaxData]
    /\ out \in [Channels -> 0..MaxData]
    /\ q \in Sys

\* A step that changes nothing that is kept for channel d.
Untouched(d) ==
    /\ chan'[d] = chan[d] /\ cells'[d] = cells[d]
    /\ destroys'[d] = destroys[d] /\ out'[d] = out[d]
    /\ Same(q, q', d)

\* It follows from the whole.
LEMMA TypesHold == ASSUME TypeOK PROVE Types
BY DEF TypeOK, Types, Sys, ChanStates

\* The initial state satisfies the invariant.
LEMMA InitIInv == Init => IInv
<1> SUFFICES ASSUME Init PROVE IInv
  OBVIOUS
<1> USE SchedulerConstants DEF Init, NoRun
<1>1. TypeOK
  <2>1. /\ cells \in [Channels -> 0..MaxData] /\ destroys = cells /\ out = cells
        /\ chan \in [Channels -> {"freed", "opening", "open", "closing", "finished"}]
    OBVIOUS
  <2>2. q \in [state : [Channels -> SchedStates], pending : SUBSET Channels,
                ev : BOOLEAN, socks : SUBSET Channels]
    BY DEF SchedStates
  <2>3. run \in [prev : Channels \cup {NoChannel}, room : [Channels -> Nat],
                  table : SUBSET Channels, readd : SUBSET Channels]
    OBVIOUS
  <2> QED
    BY <2>1, <2>2, <2>3 DEF TypeOK
<1>2. Locals /\ WorkIsScheduled
  BY DEF Locals, WorkIsScheduled
<1>3. ASSUME NEW c \in Channels PROVE ChannelInv(c)
  BY DEF ChannelInv, Bounded, Listed, EmptyBefore, WillReport, Remembered, Connected,
     HasSocket, Total
<1> QED
  BY <1>1, <1>2, <1>3 DEF IInv

\* Between runs.
LEMMA IdleStep ==
    ASSUME IInv, Idle, SameRun, mode' = mode, Types', EventSet(q'),
           q'.socks \subseteq q.socks,
           NEW c \in Channels, \A d \in Channels \ {c} : Untouched(d), ChannelInv(c)'
    PROVE  IInv'
<1>1. TypeOK'
  BY DEF IInv, TypeOK, Types, Sys, ChanStates, SameRun
<1>2. Locals'
  BY DEF IInv, Locals, SameRun
<1>3. WorkIsScheduled'
  BY DEF WorkIsScheduled, EventSet
<1>4. ASSUME NEW d \in Channels \ {c} PROVE ChannelInv(d)'
  <2>1. ChannelInv(d) /\ Untouched(d)
    BY DEF IInv
  <2>2. Bounded(d)' /\ EmptyBefore(d)'
    BY <2>1 DEF ChannelInv, Untouched, Bounded, EmptyBefore, Total
  <2>3. Listed(d)' /\ WillReport(d)' /\ Remembered(d)'
    BY <2>1 DEF ChannelInv, Untouched, Same, Listed, WillReport, Remembered, InHand, SameRun
  <2>4. Connected(d)' /\ HasSocket(d)'
    BY <2>1 DEF ChannelInv, Untouched, Same, Connected, HasSocket, SameRun
  <2> QED
    BY <2>2, <2>3, <2>4 DEF ChannelInv
<1> QED
  BY <1>1, <1>2, <1>3, <1>4 DEF IInv

\* What is known between runs.
LEMMA IdleFacts ==
    ASSUME IInv, Idle, SameRun, NEW c \in Channels
    PROVE  /\ Types /\ EventSet(q) /\ ChannelInv(c)
           /\ c # cur /\ run.readd = {} /\ ~InHand(c)
           /\ c # cur' /\ run'.readd = {} /\ ~InHand(c)' /\ at' = "waiting"
BY TypesHold, SchedulerConstants DEF IInv, Idle, Locals, WorkIsScheduled, EventSet, NoRun,
   InHand, SameRun

\* Steps that the scheduler does not hear of.
LEMMA UnheardKeeps ==
    ASSUME IInv, NEW c \in Channels, New(c) \/ OtherCell(c) \/ CircuitCleared(c)
    PROVE  IInv'
<1> USE DEF New, OtherCell, CircuitCleared, HasSpace
<1>1. Idle /\ SameRun /\ mode' = mode /\ q' = q
  OBVIOUS
<1>2. /\ Types /\ EventSet(q) /\ ChannelInv(c)
      /\ ~InHand(c) /\ ~InHand(c)' /\ c # cur' /\ run'.readd = {} /\ at' = "waiting"
  BY <1>1, IdleFacts
<1>3. Types'
  BY <1>1, <1>2, SchedulerConstants DEF Types, ChanStates, ChannelInv, Bounded, Total
<1>4. \A d \in Channels \ {c} : Untouched(d)
  BY <1>2 DEF Types, Untouched, Same
<1>5. Bounded(c)' /\ EmptyBefore(c)'
  BY <1>2, SchedulerConstants DEF Types, ChannelInv, Bounded, EmptyBefore, Total
<1>6. Listed(c)' /\ WillReport(c)' /\ Remembered(c)'
  BY <1>1, <1>2, SchedulerConstants DEF Types, ChannelInv, Listed, EmptyBefore, WillReport, Remembered
<1>7. Connected(c)' /\ HasSocket(c)'
  BY <1>1, <1>2 DEF Types, ChannelInv, Connected, HasSocket
<1> QED
  BY <1>1, <1>2, <1>3, <1>4, <1>5, <1>6, <1>7, IdleStep DEF ChannelInv

\* The end of a channel, in three steps: it is released in each.
LEMMA CloseKeeps ==
    ASSUME IInv, NEW c \in Channels, MarkForClose(c) \/ ChannelClosed(c) \/ ChannelFree(c)
    PROVE  IInv'
<1> USE DEF MarkForClose, ChannelClosed, ChannelFree
<1>1. Idle /\ SameRun /\ mode' = mode
  OBVIOUS
<1>2. /\ Types /\ EventSet(q) /\ ChannelInv(c)
      /\ ~InHand(c)' /\ c # cur' /\ run'.readd = {} /\ at' = "waiting"
  BY <1>1, IdleFacts
<1>3. Released(q, q', c) /\ chan'[c] \in {"closing", "finished", "freed"}
  BY <1>2, ReleaseChannelFacts DEF Types
<1>4. Types' /\ EventSet(q') /\ q'.socks \subseteq q.socks
  BY <1>2, <1>3, SchedulerConstants DEF Types, ChanStates, Released
<1>5. \A d \in Channels \ {c} : Untouched(d)
  BY <1>2, <1>3 DEF Types, Untouched, Released
<1>6. Bounded(c)' /\ EmptyBefore(c)'
  BY <1>2, SchedulerConstants DEF Types, ChannelInv, Bounded, EmptyBefore, Total
<1>7. Listed(c)' /\ WillReport(c)' /\ Remembered(c)'
  BY <1>2, <1>3 DEF Listed, WillReport, Remembered, Released
<1>8. Connected(c)' /\ HasSocket(c)'
  <2>1. c \notin q'.pending /\ c \notin q'.socks
    BY <1>3 DEF Released, IInv, Locals
  <2> QED
    BY <1>2, <2>1 DEF Connected, HasSocket
<1> QED
  BY <1>1, <1>4, <1>5, <1>6, <1>7, <1>8, IdleStep DEF ChannelInv

\* A cell on a circuit's queue: a channel that waits for cells is listed, one
\* that is idle has an outbuf that will report.
LEMMA AppendCellKeeps ==
    ASSUME IInv, NEW c \in Channels, AppendCell(c)
    PROVE  IInv'
<1> USE DEF AppendCell, HasSpace
<1>1. Idle /\ SameRun /\ mode' = mode
  OBVIOUS
<1>2. /\ Types /\ EventSet(q) /\ ChannelInv(c)
      /\ ~InHand(c) /\ ~InHand(c)' /\ c # cur' /\ run'.readd = {} /\ at' = "waiting"
  BY <1>1, IdleFacts
<1>3. GotCells(q, q', c) /\ chan'[c] = chan[c] /\ chan[c] \in {"open", "closing"} /\ out'[c] = out[c]
  BY <1>2, HasWaitingCellsFacts DEF Types
<1>4. Types' /\ EventSet(q') /\ q'.socks \subseteq q.socks
  BY <1>2, <1>3, SchedulerConstants DEF Types, GotCells, ChannelInv, Bounded, Total
<1>5. \A d \in Channels \ {c} : Untouched(d)
  BY <1>2, <1>3 DEF Types, Untouched, GotCells
<1>6. Bounded(c)' /\ EmptyBefore(c)'
  BY <1>2, <1>3, SchedulerConstants DEF Types, Bounded, EmptyBefore, Total
<1>7. Listed(c)' /\ WillReport(c)' /\ Remembered(c)'
  BY <1>2, <1>3 DEF Listed, WillReport, Remembered, GotCells, ChannelInv
<1>8. Connected(c)' /\ HasSocket(c)'
  BY <1>2, <1>3 DEF Connected, HasSocket, GotCells, ChannelInv
<1> QED
  BY <1>1, <1>4, <1>5, <1>6, <1>7, <1>8, IdleStep DEF ChannelInv

\* A channel opens: it is left idle only with an outbuf at the high water mark.
LEMMA OpenKeeps ==
    ASSUME IInv, NEW c \in Channels, Open(c)
    PROVE  IInv'
<1>1. Idle /\ SameRun /\ mode' = mode /\ chan[c] = "opening"
  BY DEF Open
<1>2. /\ Types /\ EventSet(q) /\ ChannelInv(c)
      /\ ~InHand(c) /\ ~InHand(c)' /\ c # cur' /\ run'.readd = {} /\ at' = "waiting"
  BY <1>1, IdleFacts
<1>3. PICK n \in 0..1 :
        /\ n = 0 \/ HasSpace(c)
        /\ cells' = [cells EXCEPT ![c] = @ + n]
        /\ LET s == IF n = 0 THEN q ELSE HasWaitingCells(q, c)
           IN  q' = IF OrNumCellsWriteable(c) > 0 THEN WantsWrites(s, c) ELSE s
  BY DEF Open
<1> DEFINE s == IF n = 0 THEN q ELSE HasWaitingCells(q, c)
<1>4. /\ s \in Sys /\ EventSet(s) /\ s.socks = q.socks
      /\ \A d \in Channels \ {c} : Same(q, s, d)
      /\ n = 1 => GotCells(q, s, c)
      /\ n = 0 => s = q
  BY <1>2, HasWaitingCellsFacts DEF Types, GotCells, Same
<1>5. /\ q' \in Sys /\ EventSet(q') /\ q'.socks = q.socks
      /\ \A d \in Channels \ {c} : Same(q, q', d)
      /\ \/ GotRoom(s, q', c)
         \/ q' = s /\ out[c] > 0
  <2>1. CASE OrNumCellsWriteable(c) > 0
    <3>1. q' = WantsWrites(s, c)
      BY <1>3, <2>1
    <3> HIDE DEF s
    <3> QED
      BY <1>4, <3>1, WantsWritesFacts DEF GotRoom, Same
  <2>2. CASE ~(OrNumCellsWriteable(c) > 0)
    <3>1. q' = s
      BY <1>3, <2>2
    <3>2. out[c] > 0
      BY <1>2, <2>2, MaxZero, SchedulerConstants DEF OrNumCellsWriteable, Types
    <3> QED
      BY <1>4, <3>1, <3>2
  <2> QED
    BY <2>1, <2>2
<1> HIDE DEF s
<1>6. /\ chan' = [chan EXCEPT ![c] = "open"] /\ destroys' = destroys /\ out' = out
      /\ cells[c] = 0 /\ cells'[c] = n
  BY <1>1, <1>2, <1>3 DEF Open, ChannelInv, EmptyBefore, Types
<1>7. Types'
  BY <1>2, <1>3, <1>5, <1>6, SchedulerConstants DEF Types, ChanStates, HasSpace, Total
<1>8. \A d \in Channels \ {c} : Untouched(d)
  BY <1>2, <1>3, <1>5, <1>6 DEF Types, Untouched
<1>9. Bounded(c)' /\ EmptyBefore(c)'
  BY <1>2, <1>3, <1>6, SchedulerConstants DEF Types, ChannelInv, Bounded, EmptyBefore, HasSpace, Total
<1>10. chan'[c] = "open" /\ out'[c] = out[c]
  BY <1>2, <1>6 DEF Types
<1>11. Listed(c)' /\ WillReport(c)' /\ Remembered(c)'
  BY <1>2, <1>3, <1>4, <1>5, <1>6, <1>10
     DEF Listed, WillReport, Remembered, GotCells, GotRoom, ChannelInv
<1>12. Connected(c)' /\ HasSocket(c)'
  BY <1>2, <1>5, <1>10 DEF Connected, HasSocket
<1> QED
  BY <1>1, <1>5, <1>7, <1>8, <1>9, <1>11, <1>12, IdleStep DEF ChannelInv

\* A DESTROY cell: it goes to the queue behind an outbuf that is not empty, or
\* to the outbuf, where it may find the connection broken.
LEMMA SendDestroyKeeps ==
    ASSUME IInv, NEW c \in Channels, SendDestroy(c)
    PROVE  IInv'
<1>1. Idle /\ SameRun /\ mode' = mode /\ chan[c] = "open" /\ HasSpace(c)
  BY DEF SendDestroy
<1>2. /\ Types /\ EventSet(q) /\ ChannelInv(c)
      /\ ~InHand(c) /\ ~InHand(c)' /\ c # cur' /\ run'.readd = {} /\ at' = "waiting"
  BY <1>1, IdleFacts
<1>3. /\ cells' \in [Channels -> 0..MaxData] /\ destroys' \in [Channels -> 0..MaxData]
      /\ out' \in [Channels -> 0..MaxData]
      /\ cells'[c] <= cells[c] /\ out'[c] > 0
      /\ Bounded(c)'
      /\ \A d \in Channels \ {c} : /\ cells'[d] = cells[d] /\ destroys'[d] = destroys[d]
                                   /\ out'[d] = out[d]
  BY <1>1, <1>2, SchedulerConstants DEF SendDestroy, HasSpace, Types, Bounded, Total
<1>4. \/ chan' = chan /\ q' = q
      \/ chan' = [chan EXCEPT ![c] = "closing"] /\ Released(q, q', c)
  BY <1>2, ReleaseChannelFacts DEF SendDestroy, Types
<1>5. Types' /\ EventSet(q') /\ q'.socks \subseteq q.socks
  BY <1>2, <1>3, <1>4 DEF Types, ChanStates, Released
<1>6. \A d \in Channels \ {c} : Untouched(d)
  BY <1>2, <1>3, <1>4 DEF Types, Untouched, Released, Same
<1>7. \/ chan'[c] = "open" /\ q' = q
      \/ chan'[c] = "closing" /\ Released(q, q', c)
  BY <1>1, <1>2, <1>4 DEF Types
<1>8. EmptyBefore(c)' /\ Listed(c)' /\ WillReport(c)' /\ Remembered(c)'
  BY <1>1, <1>2, <1>3, <1>7
     DEF EmptyBefore, Listed, WillReport, Remembered, Released, ChannelInv, Types
<1>9. Connected(c)' /\ HasSocket(c)'
  BY <1>2, <1>7 DEF Connected, HasSocket, Released
<1> QED
  BY <1>1, <1>3, <1>5, <1>6, <1>8, <1>9, IdleStep DEF ChannelInv

\* The socket is written to: an outbuf that runs below the low water mark is
\* reported, so a channel that waits for it is listed.
LEMMA WriteEventKeeps ==
    ASSUME IInv, NEW c \in Channels, WriteEvent(c)
    PROVE  IInv'
<1>1. /\ Idle /\ SameRun /\ mode' = mode /\ cells' = cells /\ destroys' = destroys
      /\ WriteToKernel(c, q)
  BY DEF WriteEvent
<1>2. /\ Types /\ EventSet(q) /\ ChannelInv(c)
      /\ ~InHand(c) /\ ~InHand(c)' /\ c # cur' /\ run'.readd = {} /\ at' = "waiting"
  BY <1>1, IdleFacts
<1>3. /\ out' \in [Channels -> 0..MaxData] /\ out'[c] <= out[c]
      /\ \A d \in Channels \ {c} : out'[d] = out[d] /\ chan'[d] = chan[d]
      /\ chan' \in [Channels -> ChanStates]
      /\ \/ /\ chan'[c] = chan[c] /\ q' = q
            /\ out'[c] > 0 \/ out'[c] = out[c]
         \/ /\ chan[c] \in {"opening", "open"} /\ chan'[c] = chan[c]
            /\ GotRoom(q, q', c)
         \/ /\ chan[c] \in {"opening", "open"} /\ chan'[c] = "closing"
            /\ out'[c] = 0 /\ Released(q, q', c)
  BY <1>1, <1>2, WriteToKernelFacts DEF IInv, Types, ChanStates
<1>4. Types' /\ EventSet(q') /\ q'.socks \subseteq q.socks
  BY <1>1, <1>2, <1>3 DEF Types, GotRoom, Released
<1>5. \A d \in Channels \ {c} : Untouched(d)
  BY <1>1, <1>3 DEF Untouched, Same, GotRoom, Released
<1>6. Bounded(c)' /\ EmptyBefore(c)'
  BY <1>1, <1>2, <1>3, SchedulerConstants DEF Types, ChannelInv, Bounded, EmptyBefore, Total
<1>7. Listed(c)' /\ WillReport(c)' /\ Remembered(c)'
  BY <1>1, <1>2, <1>3
     DEF Listed, WillReport, Remembered, GotRoom, Released, ChannelInv, Types
<1>8. Connected(c)' /\ HasSocket(c)'
  BY <1>2, <1>3 DEF Connected, HasSocket, GotRoom, Released, ChannelInv
<1> QED
  BY <1>1, <1>4, <1>5, <1>6, <1>7, <1>8, IdleStep DEF ChannelInv

\* Another scheduler: the socket table goes with the one that had it.
LEMMA SetSchedulerKeeps ==
    ASSUME IInv, NEW m \in Modes, SetScheduler(m)
    PROVE  IInv'
<1>1. /\ Idle /\ SameRun /\ UNCHANGED <<chan, cells, destroys, out>> /\ mode' = m
      /\ q' = IF m = "vanilla" THEN [q EXCEPT !.socks = {}] ELSE q
  BY DEF SetScheduler
<1>2. /\ q' \in Sys /\ q'.state = q.state /\ q'.pending = q.pending /\ q'.ev = q.ev
      /\ q'.socks \subseteq q.socks /\ m = "vanilla" => q'.socks = {}
      /\ m # "vanilla" => q' = q
  BY <1>1, TypesHold DEF IInv, Types, Sys
<1>3. TypeOK' /\ Locals' /\ WorkIsScheduled'
  <2>1. TypeOK'
    BY <1>1, <1>2 DEF IInv, TypeOK, Sys, SameRun
  <2>2. Locals' /\ WorkIsScheduled'
    BY <1>1, <1>2 DEF IInv, Locals, WorkIsScheduled, SameRun
  <2> QED
    BY <2>1, <2>2
<1>4. ASSUME NEW c \in Channels PROVE ChannelInv(c)'
  <2>1. ChannelInv(c) /\ at' = "waiting" /\ cur' = cur /\ run' = run
    BY <1>1 DEF IInv, Idle, SameRun
  <2>2. Bounded(c)' /\ EmptyBefore(c)'
    BY <1>1, <2>1 DEF ChannelInv, Bounded, EmptyBefore, Total
  <2>3. Listed(c)' /\ WillReport(c)' /\ Remembered(c)'
    BY <1>1, <1>2, <2>1 DEF ChannelInv, Listed, WillReport, Remembered, InHand, Idle
  <2>4. Connected(c)' /\ HasSocket(c)'
    BY <1>1, <1>2, <2>1 DEF ChannelInv, Connected, HasSocket
  <2> QED
    BY <2>2, <2>3, <2>4 DEF ChannelInv
<1> QED
  BY <1>3, <1>4 DEF IInv

-----------------------------------------------------------------------------
(* Runs.                                                                    *)

\* The local variables of a run.
RunLocals ==
    [prev : Channels \cup {NoChannel}, room : [Channels -> Nat],
     table : SUBSET Channels, readd : SUBSET Channels]

\* A step inside a run is about the channels of S: for the others, their place
\* in the hands of the run stays too.
LEMMA RunStep ==
    ASSUME IInv, at # "waiting", at' \in {"loop", "serve", "final"}, mode' = mode, Types',
           run' \in RunLocals, cur' \in Channels \cup {NoChannel},
           at' = "serve" <=> cur' # NoChannel,
           at' # "final" => at # "final",
           q'.socks \subseteq q.socks,
           NEW S \in SUBSET Channels, \A d \in S : ChannelInv(d)',
           \A d \in Channels \ S :
              /\ Untouched(d) /\ (d \in run'.readd <=> d \in run.readd)
              /\ (d = cur' <=> d = cur) /\ (d = run'.prev => d = run.prev)
    PROVE  IInv'
<1>1. TypeOK'
  BY DEF IInv, TypeOK, Types, Sys, ChanStates, RunLocals
<1>2. Locals' /\ WorkIsScheduled'
  BY DEF IInv, Locals, WorkIsScheduled
<1>3. ASSUME NEW d \in Channels \ S PROVE ChannelInv(d)'
  <2>1. /\ ChannelInv(d) /\ Untouched(d) /\ (d \in run'.readd <=> d \in run.readd)
        /\ (d = cur' <=> d = cur) /\ (d = run'.prev => d = run.prev)
        /\ at \in {"loop", "serve", "final"}
    BY DEF IInv, TypeOK
  <2>2. Bounded(d)' /\ EmptyBefore(d)'
    BY <2>1 DEF ChannelInv, Untouched, Bounded, EmptyBefore, Total
  <2>3. Listed(d)' /\ WillReport(d)' /\ Remembered(d)'
    BY <2>1 DEF ChannelInv, Untouched, Same, Listed, WillReport, Remembered, InHand
  <2>4. Connected(d)' /\ HasSocket(d)'
    BY <2>1 DEF ChannelInv, Untouched, Same, Connected, HasSocket
  <2> QED
    BY <2>2, <2>3, <2>4 DEF ChannelInv
<1> QED
  BY <1>1, <1>2, <1>3 DEF IInv

\* A write in a run, to a channel that is not being served: it may list the
\* channel, which then needs the socket, or take it down.
LEMMA WrittenTo ==
    ASSUME IInv, at # "waiting", at' # "waiting", mode' = mode,
           cells' = cells, destroys' = destroys, run'.readd = run.readd,
           NEW p \in Channels, p # cur, p # cur', p # run'.prev \/ at' = "final",
           at' # "final" => at # "final" /\ p = run.prev,
           NEW s \in Sys, Same(q, s, p), WriteToKernel(p, s)
    PROVE  ChannelInv(p)'
<1>1. ChannelInv(p) /\ Types /\ at \in {"loop", "serve", "final"}
  BY TypesHold DEF IInv, TypeOK
<1>2. /\ out' \in [Channels -> 0..MaxData] /\ out'[p] <= out[p]
      /\ \/ /\ chan'[p] = chan[p] /\ q' = s
            /\ out'[p] > 0 \/ out'[p] = out[p]
         \/ /\ chan[p] \in {"opening", "open"} /\ chan'[p] = chan[p]
            /\ GotRoom(s, q', p)
         \/ /\ chan[p] \in {"opening", "open"} /\ chan'[p] = "closing"
            /\ out'[p] = 0 /\ Released(s, q', p)
  BY WriteToKernelFacts DEF IInv
<1>3. Bounded(p)' /\ EmptyBefore(p)'
  BY <1>1, <1>2, SchedulerConstants DEF Types, ChannelInv, Bounded, EmptyBefore, Total
<1>4. Listed(p)' /\ WillReport(p)' /\ Remembered(p)'
  BY <1>1, <1>2
     DEF Listed, WillReport, Remembered, InHand, GotRoom, Released, Same, ChannelInv, Types
<1>5. Connected(p)' /\ HasSocket(p)'
  <2>1. p \in q'.socks => p \in q.socks
    BY <1>2 DEF GotRoom, Released, Same
  <2>2. Connected(p)'
    BY <1>1, <1>2 DEF Connected, GotRoom, Released, Same, ChannelInv
  <2>3. HasSocket(p)'
    BY <1>1, <1>2, <2>1 DEF HasSocket, GotRoom, Released, Same, ChannelInv
  <2> QED
    BY <2>2, <2>3
<1> QED
  BY <1>3, <1>4, <1>5 DEF ChannelInv

\* n cells move from the queues to the outbuf, ...
LEMMA FlushFacts ==
    ASSUME Types, NEW c \in Channels, Bounded(c), NEW n \in Nat, Flush(c, n)
    PROVE  /\ cells' \in [Channels -> 0..MaxData] /\ destroys' \in [Channels -> 0..MaxData]
           /\ out' \in [Channels -> 0..MaxData]
           /\ \A d \in Channels \ {c} : /\ cells'[d] = cells[d] /\ destroys'[d] = destroys[d]
                                        /\ out'[d] = out[d]
           /\ out'[c] = out[c] + n /\ Total(c)' = Total(c) - n
           /\ cells'[c] <= cells[c] /\ cells'[c] <= Total(c) - n
<1>1. PICK k \in 0..n :
        /\ k <= cells[c] /\ n - k <= destroys[c]
        /\ cells' = [cells EXCEPT ![c] = @ - k]
        /\ destroys' = [destroys EXCEPT ![c] = @ - (n - k)]
        /\ out' = [out EXCEPT ![c] = @ + n]
  BY DEF Flush
<1>2. /\ cells[c] \in 0..MaxData /\ destroys[c] \in 0..MaxData /\ out[c] \in 0..MaxData
      /\ MaxData \in Nat /\ cells[c] + destroys[c] + out[c] <= MaxData
  BY SchedulerConstants DEF Types, Bounded, Total
<1>3. /\ cells'[c] = cells[c] - k /\ destroys'[c] = destroys[c] - (n - k)
      /\ out'[c] = out[c] + n
  BY <1>1 DEF Types
<1>4. cells'[c] \in 0..MaxData /\ destroys'[c] \in 0..MaxData /\ out'[c] \in 0..MaxData
  BY <1>1, <1>2, <1>3
<1>5. /\ cells' \in [Channels -> 0..MaxData] /\ destroys' \in [Channels -> 0..MaxData]
      /\ out' \in [Channels -> 0..MaxData]
  BY <1>1, <1>3, <1>4 DEF Types
<1>6. \A d \in Channels \ {c} : /\ cells'[d] = cells[d] /\ destroys'[d] = destroys[d]
                                /\ out'[d] = out[d]
  BY <1>1 DEF Types
<1> QED
  BY <1>1, <1>2, <1>3, <1>5, <1>6 DEF Total

\* ... or fewer do, and the channel closes.
LEMMA FlushFailsFacts ==
    ASSUME Types, NEW c \in Channels, Bounded(c), NEW n \in Nat, n <= Total(c), NEW max \in Nat,
           FlushFails(c, n, max)
    PROVE  /\ cells' \in [Channels -> 0..MaxData] /\ destroys' \in [Channels -> 0..MaxData]
           /\ out' \in [Channels -> 0..MaxData] /\ chan' \in [Channels -> ChanStates]
           /\ \A d \in Channels \ {c} : /\ cells'[d] = cells[d] /\ destroys'[d] = destroys[d]
                                        /\ out'[d] = out[d] /\ chan'[d] = chan[d]
           /\ chan'[c] = "closing" /\ Bounded(c)'
<1>1. /\ chan' \in [Channels -> ChanStates] /\ chan'[c] = "closing"
      /\ \A d \in Channels \ {c} : chan'[d] = chan[d]
  BY DEF FlushFails, Types, ChanStates
<1>2. /\ cells[c] \in 0..MaxData /\ destroys[c] \in 0..MaxData /\ out[c] \in 0..MaxData
      /\ MaxData \in Nat /\ cells[c] + destroys[c] + out[c] <= MaxData
      /\ n <= cells[c] + destroys[c]
  BY SchedulerConstants DEF Types, Bounded, Total
<1>3. CASE n = max
  <2>1. Flush(c, n)
    BY <1>3 DEF FlushFails
  <2>2. Bounded(c)'
    BY <1>2, <2>1, FlushFacts DEF Bounded, Total
  <2> QED
    BY <1>1, <2>1, <2>2, FlushFacts
<1>4. CASE n # max
  <2>1. /\ cells' = [cells EXCEPT ![c] = 0] /\ destroys' = [destroys EXCEPT ![c] = 0]
        /\ out' = [out EXCEPT ![c] = @ + n]
    BY <1>4 DEF FlushFails
  <2>2. cells'[c] = 0 /\ destroys'[c] = 0 /\ out'[c] = out[c] + n
    BY <2>1 DEF Types
  <2>3. out[c] + n \in 0..MaxData
    BY <1>2
  <2>4. Bounded(c)'
    BY <1>2, <2>2, <2>3 DEF Bounded, Total
  <2>5. /\ cells' \in [Channels -> 0..MaxData] /\ destroys' \in [Channels -> 0..MaxData]
        /\ out' \in [Channels -> 0..MaxData]
        /\ \A d \in Channels \ {c} : /\ cells'[d] = cells[d] /\ destroys'[d] = destroys[d]
                                     /\ out'[d] = out[d]
    BY <1>2, <2>1, <2>3 DEF Types
  <2> QED
    BY <1>1, <2>4, <2>5
<1> QED
  BY <1>3, <1>4

\* A run begins: the sockets of the listed channels are looked up.
LEMMA RunBeginKeeps ==
    ASSUME IInv, RunBegin
    PROVE  IInv'
<1>1. /\ at = "waiting" /\ at' = "loop" /\ UNCHANGED <<chan, cells, destroys, out, mode, cur>>
      /\ cur = NoChannel /\ run = NoRun
  BY DEF IInv, Locals, RunBegin, Idle
<1>2. Types
  BY TypesHold DEF IInv
<1>3. /\ q' \in Sys /\ q'.state = q.state /\ q'.pending = q.pending
      /\ q'.socks = IF mode = "vanilla" THEN q.socks ELSE q.socks \cup q.pending
  <2>1. \/ mode = "vanilla" /\ q' = [q EXCEPT !.ev = FALSE]
        \/ mode # "vanilla" /\ q' = [q EXCEPT !.ev = FALSE, !.socks = @ \cup q.pending]
    BY DEF RunBegin
  <2> QED
    BY <1>2, <2>1 DEF Types, Sys
<1>4. run' \in RunLocals /\ run'.readd = {} /\ run'.prev = NoChannel
  <2>1. CASE mode = "vanilla"
    BY <2>1 DEF RunBegin, NoRun, RunLocals
  <2>2. CASE mode # "vanilla"
    <3>1. PICK room \in [q.pending -> 0..SizeMax] :
            run' = [NoRun EXCEPT !.room =
                        [c \in Channels |-> IF c \in q.pending THEN room[c] ELSE 0]]
      BY <2>2 DEF RunBegin
    <3>2. [c \in Channels |-> IF c \in q.pending THEN room[c] ELSE 0] \in [Channels -> Nat]
      BY SchedulerConstants
    <3> QED
      BY <3>1, <3>2 DEF NoRun, RunLocals
  <2> QED
    BY <2>1, <2>2
<1>5. TypeOK'
  BY <1>1, <1>3, <1>4 DEF IInv, TypeOK, Sys, RunLocals
<1>6. Locals' /\ WorkIsScheduled'
  BY <1>1, <1>3 DEF IInv, Locals, WorkIsScheduled
<1>7. ASSUME NEW c \in Channels PROVE ChannelInv(c)'
  <2>1. ChannelInv(c) /\ run.readd = {} /\ c # cur /\ c # NoChannel
    BY <1>1, SchedulerConstants DEF IInv, NoRun
  <2>2. Bounded(c)' /\ EmptyBefore(c)'
    BY <1>1, <2>1 DEF ChannelInv, Bounded, EmptyBefore, Total
  <2>3. Listed(c)' /\ WillReport(c)' /\ Remembered(c)'
    BY <1>1, <1>3, <1>4, <2>1 DEF ChannelInv, Listed, WillReport, Remembered, InHand
  <2>4. Connected(c)' /\ HasSocket(c)'
    BY <1>1, <1>3, <1>4, <2>1 DEF ChannelInv, Connected, HasSocket
  <2> QED
    BY <2>2, <2>3, <2>4 DEF ChannelInv
<1> QED
  BY <1>5, <1>6, <1>7 DEF IInv

\* What is known in the loop of a channel that is listed.
LEMMA PopFacts ==
    ASSUME IInv, at = "loop", NEW c \in Channels, c \in q.pending
    PROVE  /\ Types /\ run \in RunLocals /\ ChannelInv(c) /\ cur = NoChannel
           /\ \A d \in Channels : d # cur
           /\ [q EXCEPT !.pending = @ \ {c}] \in Sys
           /\ [q EXCEPT !.pending = @ \ {c}].state = q.state
           /\ [q EXCEPT !.pending = @ \ {c}].pending = q.pending \ {c}
           /\ [q EXCEPT !.pending = @ \ {c}].socks = q.socks
           /\ q.state[c] = "PENDING" /\ chan[c] \in {"open", "opening", "closing"}
<1>1. Types /\ run \in RunLocals /\ ChannelInv(c) /\ cur = NoChannel
  BY TypesHold DEF IInv, TypeOK, RunLocals, Locals
<1> QED
  BY <1>1, SchedulerConstants DEF Types, Sys, ChannelInv, Listed, Connected

\* KIST pops a channel and may write to the one before it.
LEMMA KistPopKeeps ==
    ASSUME IInv, NEW c \in Channels, KistPop(c)
    PROVE  IInv'
<1> DEFINE popped == [q EXCEPT !.pending = @ \ {c}]
           p == run.prev
           writes == p \notin {NoChannel, c} /\ out[p] > Batch
<1>1. /\ at = "loop" /\ mode # "vanilla" /\ c \in q.pending /\ at' = "serve" /\ cur' = c
      /\ cells' = cells /\ destroys' = destroys /\ mode' = mode
      /\ IF writes THEN WriteToKernel(p, popped) ELSE q' = popped /\ UNCHANGED <<chan, out>>
      /\ run' = [run EXCEPT !.prev = c, !.table = (@ \cup {c}) \ (IF writes THEN {p} ELSE {})]
  BY DEF KistPop
<1>2. /\ Types /\ run \in RunLocals /\ ChannelInv(c) /\ cur = NoChannel
      /\ \A d \in Channels : d # cur
      /\ q.state[c] = "PENDING" /\ chan[c] \in {"open", "opening", "closing"}
      /\ popped \in Sys /\ popped.state = q.state /\ popped.pending = q.pending \ {c}
      /\ popped.socks = q.socks
  BY <1>1, PopFacts
<1> HIDE DEF popped
<1>3. run' \in RunLocals /\ run'.readd = run.readd /\ run'.prev = c
  BY <1>1, <1>2 DEF RunLocals
<1>4. /\ Types' /\ q'.socks \subseteq q.socks
      /\ ~writes => /\ q' = popped /\ chan' = chan /\ out' = out
      /\ writes => /\ p \in Channels \ {c} /\ WriteToKernel(p, popped)
                   /\ \A d \in Channels \ {p} : /\ chan'[d] = chan[d] /\ out'[d] = out[d]
                                                /\ Same(popped, q', d)
  <2>1. CASE ~writes
    BY <1>1, <1>2, <2>1 DEF Types
  <2>2. CASE writes
    <3>1. p \in Channels \ {c} /\ WriteToKernel(p, popped)
      BY <1>1, <1>2, <2>2 DEF RunLocals
    <3>2. /\ out' \in [Channels -> 0..MaxData] /\ chan' \in [Channels -> ChanStates]
          /\ \A d \in Channels \ {p} : out'[d] = out[d] /\ chan'[d] = chan[d]
          /\ q' = popped \/ GotRoom(popped, q', p) \/ Released(popped, q', p)
      BY <1>2, <3>1, WriteToKernelFacts DEF IInv, ChanStates
    <3>3. /\ q' \in Sys /\ q'.socks \subseteq q.socks
          /\ \A d \in Channels \ {p} : Same(popped, q', d)
      BY <1>2, <3>2 DEF GotRoom, Released, Same
    <3> HIDE DEF p, writes
    <3> QED
      BY <1>1, <1>2, <2>2, <3>1, <3>2, <3>3 DEF Types
  <2> QED
    BY <2>1, <2>2
<1>5. ChannelInv(c)'
  <2>1. /\ chan'[c] = chan[c] /\ out'[c] = out[c] /\ Same(popped, q', c)
    BY <1>2, <1>4 DEF Same
  <2>2. /\ q'.state[c] = "PENDING" /\ c \notin q'.pending /\ (c \in q'.socks <=> c \in q.socks)
    BY <1>2, <2>1 DEF Same
  <2>3. Bounded(c)' /\ EmptyBefore(c)'
    BY <1>1, <1>2, <2>1 DEF ChannelInv, Bounded, EmptyBefore, Total
  <2>4. Listed(c)' /\ WillReport(c)' /\ Remembered(c)'
    BY <1>1, <2>2 DEF Listed, WillReport, Remembered, InHand
  <2>5. Connected(c)' /\ HasSocket(c)'
    BY <1>1, <1>2, <2>1, <2>2 DEF ChannelInv, Connected, HasSocket
  <2> QED
    BY <2>3, <2>4, <2>5 DEF ChannelInv
<1>6. ASSUME NEW d \in Channels \ {c}, d # p \/ ~writes
      PROVE  /\ Untouched(d) /\ (d \in run'.readd <=> d \in run.readd)
             /\ (d = cur' <=> d = cur) /\ (d = run'.prev => d = run.prev)
  <2>1. chan'[d] = chan[d] /\ out'[d] = out[d] /\ Same(popped, q', d)
    BY <1>4, <1>6 DEF Same
  <2> QED
    BY <1>1, <1>2, <1>3, <2>1 DEF Untouched, Same
<1>7. CASE ~writes
  BY <1>1, <1>2, <1>3, <1>4, <1>5, <1>6, <1>7, RunStep
<1>8. CASE writes
  <2>1. PICK e \in Channels \ {c} : e = p
    BY <1>4, <1>8
  <2>2. ChannelInv(e)'
    <3>1. Same(q, popped, e) /\ WriteToKernel(e, popped)
      BY <1>2, <1>4, <1>8, <2>1 DEF Same
    <3> QED
      BY <1>1, <1>2, <1>3, <2>1, <3>1, WrittenTo
  <2> DEFINE S == {c, e}
  <2>3. \A d \in Channels \ S :
             /\ Untouched(d) /\ (d \in run'.readd <=> d \in run.readd)
             /\ (d = cur' <=> d = cur) /\ (d = run'.prev => d = run.prev)
    BY <1>6, <2>1
  <2>4. S \in SUBSET Channels /\ \A d \in S : ChannelInv(d)'
    BY <1>5, <2>2
  <2>5. cur' \in Channels \cup {NoChannel} /\ cur' # NoChannel
    BY <1>1, SchedulerConstants
  <2> HIDE DEF S
  <2> QED
    BY <1>1, <1>3, <1>4, <2>3, <2>4, <2>5, RunStep
<1> QED
  BY <1>7, <1>8

\* The decision for the channel served, with room in the socket and more cells.
LEMMA DecideFacts ==
    ASSUME Types, run \in RunLocals, NEW c \in Channels, c = cur, NEW room \in Nat,
           NEW more \in BOOLEAN, Decide(room, more)
    PROVE  /\ q' \in Sys /\ q'.socks = q.socks /\ run' \in RunLocals /\ run'.prev = run.prev
           /\ \A d \in Channels \ {c} : Same(q, q', d) /\ (d \in run'.readd <=> d \in run.readd)
           /\ more => q'.state[c] = "PENDING" /\ c \in q'.pending \cup run'.readd
           /\ ~more => q'.state[c] = "WAITING_FOR_CELLS" /\ q'.pending = q.pending
<1> DEFINE st == IF more THEN "PENDING" ELSE "WAITING_FOR_CELLS"
           listed == IF more /\ room > 0 THEN q.pending \cup {c} ELSE q.pending
           readd == IF more /\ room = 0 THEN run.readd \cup {c} ELSE run.readd
<1>1. /\ q' = [q EXCEPT !.state[c] = st, !.pending = listed]
      /\ run' = [run EXCEPT !.room[c] = room, !.readd = readd]
  BY DEF Decide
<1>2. st \in SchedStates /\ listed \in SUBSET Channels /\ readd \in SUBSET Channels
  BY DEF SchedStates, Types, Sys, RunLocals
<1>3. /\ more => st = "PENDING" /\ (c \in listed \/ c \in readd)
      /\ ~more => st = "WAITING_FOR_CELLS" /\ listed = q.pending
      /\ \A d \in Channels \ {c} : (d \in listed <=> d \in q.pending) /\ (d \in readd <=> d \in run.readd)
  OBVIOUS
<1> HIDE DEF st, listed, readd
<1>4. /\ q' \in Sys /\ q'.state = [q.state EXCEPT ![c] = st] /\ q'.pending = listed
      /\ q'.socks = q.socks
  BY <1>1, <1>2 DEF Types, Sys
<1>5. run' \in RunLocals /\ run'.prev = run.prev /\ run'.readd = readd
  BY <1>1, <1>2 DEF RunLocals
<1>6. q'.state[c] = st /\ \A d \in Channels \ {c} : q'.state[d] = q.state[d]
  BY <1>4 DEF Types, Sys
<1> QED
  BY <1>3, <1>4, <1>5, <1>6 DEF Same

\* One turn of the KIST loop: a channel with cells left is listed or waits in
\* to_readd.
LEMMA KistServeKeeps ==
    ASSUME IInv, KistServe
    PROVE  IInv'
<1>1. at = "serve" /\ at' = "loop" /\ cur' = NoChannel /\ mode' = mode
  BY DEF KistServe, Decide, Leave
<1>2. PICK c \in Channels : c = cur
  BY <1>1 DEF IInv, TypeOK, Locals
<1>3. /\ Types /\ run \in RunLocals /\ ChannelInv(c) /\ c \notin q.pending /\ c # cur'
      /\ chan[c] \in {"open", "opening", "closing"}
      /\ mode # "vanilla" => c \in q.socks
      /\ cells[c] \in Nat /\ destroys[c] \in Nat /\ run.room[c] \in Nat
  <2>1. Types /\ run \in RunLocals /\ ChannelInv(c)
    BY TypesHold DEF IInv, TypeOK, RunLocals
  <2> QED
    BY <1>1, <1>2, <2>1, SchedulerConstants
       DEF Types, RunLocals, ChannelInv, Listed, Connected, HasSocket
<1> DEFINE Frame ==
        /\ Types' /\ run' \in RunLocals /\ run'.prev = run.prev /\ q'.socks \subseteq q.socks
        /\ \A d \in Channels \ {c} : Untouched(d) /\ (d \in run'.readd <=> d \in run.readd)
<1>4. Frame /\ ChannelInv(c)' => IInv'
  <2>1. SUFFICES ASSUME Frame, ChannelInv(c)' PROVE IInv'
    OBVIOUS
  <2> DEFINE S == {c}
  <2>2. S \in SUBSET Channels /\ \A d \in S : ChannelInv(d)'
    BY <2>1
  <2>3. \A d \in Channels \ S :
             /\ Untouched(d) /\ (d \in run'.readd <=> d \in run.readd)
             /\ (d = cur' <=> d = cur) /\ (d = run'.prev => d = run.prev)
    BY <1>1, <1>2, <2>1, SchedulerConstants
  <2> HIDE DEF S
  <2> QED
    BY <1>1, <2>1, <2>2, <2>3, RunStep
\* Whatever the queues were, when what is left is decided on.
<1>5. ASSUME chan' = chan, NEW room \in Nat, NEW more \in BOOLEAN, Decide(room, more),
             cells' \in [Channels -> 0..MaxData], destroys' \in [Channels -> 0..MaxData],
             out' \in [Channels -> 0..MaxData],
             \A d \in Channels \ {c} : /\ cells'[d] = cells[d] /\ destroys'[d] = destroys[d]
                                       /\ out'[d] = out[d],
             Bounded(c)', cells'[c] <= cells[c], ~more => cells'[c] = 0
      PROVE  IInv'
  <2>1. /\ q' \in Sys /\ q'.socks = q.socks /\ run' \in RunLocals /\ run'.prev = run.prev
        /\ \A d \in Channels \ {c} : Same(q, q', d) /\ (d \in run'.readd <=> d \in run.readd)
        /\ more => q'.state[c] = "PENDING" /\ c \in q'.pending \cup run'.readd
        /\ ~more => q'.state[c] = "WAITING_FOR_CELLS" /\ q'.pending = q.pending
    BY <1>2, <1>3, <1>5, DecideFacts
  <2>2. Frame
    BY <1>3, <1>5, <2>1 DEF Types, Untouched
  <2>3. EmptyBefore(c)'
    BY <1>3, <1>5 DEF EmptyBefore, ChannelInv
  <2>4. Listed(c)' /\ WillReport(c)' /\ Remembered(c)'
    BY <1>1, <1>3, <1>5, <2>1 DEF Listed, WillReport, Remembered, InHand
  <2>5. Connected(c)' /\ HasSocket(c)'
    BY <1>1, <1>3, <1>5, <2>1 DEF Connected, HasSocket
  <2> QED
    BY <1>4, <1>5, <2>2, <2>3, <2>4, <2>5 DEF ChannelInv
<1>6. CASE /\ run.room[cur] = 0
           /\ Decide(0, Total(cur) > 0)
           /\ UNCHANGED <<chan, cells, destroys, out>>
  <2>1. Decide(0, Total(c) > 0) /\ (Total(c) > 0) \in BOOLEAN /\ (~(Total(c) > 0) => cells'[c] = 0)
    BY <1>2, <1>3, <1>6 DEF Total
  <2>2. Bounded(c)'
    BY <1>3, <1>6 DEF ChannelInv, Bounded, Total
  <2>3. /\ chan' = chan /\ 0 \in Nat /\ cells'[c] <= cells[c]
        /\ cells' \in [Channels -> 0..MaxData] /\ destroys' \in [Channels -> 0..MaxData]
        /\ out' \in [Channels -> 0..MaxData]
        /\ \A d \in Channels \ {c} : /\ cells'[d] = cells[d] /\ destroys'[d] = destroys[d]
                                     /\ out'[d] = out[d]
    BY <1>3, <1>6 DEF Types
  <2> QED
    BY <1>5, <2>1, <2>2, <2>3
<1>7. CASE /\ run.room[cur] > 0 /\ chan[cur] = "open" /\ Total(cur) > 0
           /\ Flush(cur, 1)
           /\ Decide(run.room[cur] - 1, Total(cur) > 1)
           /\ UNCHANGED chan
  <2>1. /\ Flush(c, 1) /\ Decide(run.room[c] - 1, Total(c) > 1)
        /\ run.room[c] - 1 \in Nat /\ (Total(c) > 1) \in BOOLEAN
    BY <1>2, <1>3, <1>7
  <2>2. /\ cells' \in [Channels -> 0..MaxData] /\ destroys' \in [Channels -> 0..MaxData]
        /\ out' \in [Channels -> 0..MaxData]
        /\ \A d \in Channels \ {c} : /\ cells'[d] = cells[d] /\ destroys'[d] = destroys[d]
                                     /\ out'[d] = out[d]
        /\ out'[c] = out[c] + 1 /\ Total(c)' = Total(c) - 1
        /\ cells'[c] <= cells[c] /\ cells'[c] <= Total(c) - 1
    BY <1>3, <2>1, FlushFacts DEF ChannelInv
  <2>3. Bounded(c)' /\ (~(Total(c) > 1) => cells'[c] = 0)
    BY <1>3, <2>2, SchedulerConstants DEF ChannelInv, Bounded, Total, Types
  <2> QED
    BY <1>5, <1>7, <2>1, <2>2, <2>3
\* Nothing is sent: the channel is not open, or has no cells.
<1>8. CASE \E st \in {"IDLE", "WAITING_FOR_CELLS"} :
              /\ Leave(st) /\ UNCHANGED <<chan, cells, destroys, out, run>>
              /\ st = "IDLE" => chan[cur] # "open"
              /\ st # "IDLE" => Total(cur) = 0
  <2>1. PICK st \in {"IDLE", "WAITING_FOR_CELLS"} :
              /\ q' = [q EXCEPT !.state[c] = st]
              /\ st = "IDLE" => chan[c] # "open"
              /\ st # "IDLE" => cells[c] = 0
    BY <1>2, <1>3, <1>8 DEF Leave, Total
  <2>2. /\ q' \in Sys /\ q'.socks = q.socks /\ q'.pending = q.pending
        /\ q'.state = [q.state EXCEPT ![c] = st]
    BY <1>3, <2>1 DEF Types, Sys, SchedStates
  <2>3. q'.state[c] = st /\ \A d \in Channels \ {c} : q'.state[d] = q.state[d]
    BY <1>3, <2>2 DEF Types, Sys
  <2>4. Frame
    BY <1>3, <1>8, <2>2, <2>3 DEF Types, Untouched, Same
  <2>5. Bounded(c)' /\ EmptyBefore(c)'
    BY <1>3, <1>8 DEF ChannelInv, Bounded, EmptyBefore, Total
  <2>6. Listed(c)' /\ WillReport(c)' /\ Remembered(c)'
    BY <1>3, <1>8, <2>1, <2>2, <2>3 DEF Listed, WillReport, Remembered
  <2>7. Connected(c)' /\ HasSocket(c)'
    BY <1>1, <1>3, <1>8, <2>2 DEF Connected, HasSocket
  <2> QED
    BY <1>4, <2>4, <2>5, <2>6, <2>7 DEF ChannelInv
\* The connection breaks.
<1>9. CASE /\ Total(cur) > 0 /\ FlushFails(cur, 1, 1)
           /\ q' = ReleaseChannel(q, cur) /\ UNCHANGED run
  <2>1. Total(c) > 0 /\ FlushFails(c, 1, 1) /\ Released(q, q', c) /\ run' = run
    BY <1>2, <1>3, <1>9, ReleaseChannelFacts DEF Types
  <2>2. 1 <= Total(c) /\ Bounded(c)
    BY <1>3, <2>1 DEF Total, ChannelInv
  <2>3. /\ cells' \in [Channels -> 0..MaxData] /\ destroys' \in [Channels -> 0..MaxData]
        /\ out' \in [Channels -> 0..MaxData] /\ chan' \in [Channels -> ChanStates]
        /\ \A d \in Channels \ {c} : /\ cells'[d] = cells[d] /\ destroys'[d] = destroys[d]
                                     /\ out'[d] = out[d] /\ chan'[d] = chan[d]
        /\ chan'[c] = "closing" /\ Bounded(c)'
    BY <1>3, <2>1, <2>2, FlushFailsFacts
  <2>4. Frame
    BY <1>3, <2>1, <2>3 DEF Types, Untouched, Released
  <2>5. EmptyBefore(c)' /\ Listed(c)' /\ WillReport(c)' /\ Remembered(c)'
    BY <2>1, <2>3 DEF EmptyBefore, Listed, WillReport, Remembered, Released
  <2>6. Connected(c)' /\ HasSocket(c)'
    BY <1>1, <1>3, <2>1, <2>3 DEF Connected, HasSocket, Released
  <2> QED
    BY <1>4, <2>3, <2>4, <2>5, <2>6 DEF ChannelInv
<1> QED
  BY <1>6, <1>7, <1>8, <1>9 DEF KistServe

\* Vanilla: the channel is left waiting for room only when its outbuf is at
\* the high water mark, for the size_t difference is zero nowhere else.
LEMMA VanillaServeKeeps ==
    ASSUME IInv, NEW c \in Channels, VanillaServe(c)
    PROVE  IInv'
<1> DEFINE n == NumCellsWriteable(c)
           popped == [q EXCEPT !.pending = @ \ {c}]
           SetState(s, st) == [s EXCEPT !.state[c] = st]
<1>1. /\ at = "loop" /\ mode = "vanilla" /\ c \in q.pending
      /\ mode' = mode /\ at' = at /\ cur' = cur
  BY DEF VanillaServe
<1>2. /\ Types /\ run \in RunLocals /\ ChannelInv(c) /\ cur = NoChannel
      /\ \A d \in Channels : d # cur
      /\ q.state[c] = "PENDING" /\ chan[c] \in {"open", "opening", "closing"}
      /\ popped \in Sys /\ popped.state = q.state /\ popped.pending = q.pending \ {c}
      /\ popped.socks = q.socks
  BY <1>1, PopFacts
<1>3. /\ cells[c] \in Nat /\ destroys[c] \in Nat /\ out[c] \in 0..MaxData /\ Bounded(c)
      /\ High \in Nat \ {0} /\ MaxData \in Nat /\ q.socks = {}
  BY <1>1, <1>2, SchedulerConstants DEF Types, ChannelInv, IInv, Locals
<1>4. n \in Nat /\ (n > 0 => chan[c] = "open") /\ (n = 0 /\ chan[c] = "open" => out[c] > 0)
  BY <1>3, RoomIsZero DEF NumCellsWriteable
<1> HIDE DEF n, popped
<1>5. ASSUME NEW s \in Sys, NEW st \in SchedStates
      PROVE  /\ SetState(s, st) \in Sys /\ SetState(s, st).pending = s.pending
             /\ SetState(s, st).socks = s.socks /\ SetState(s, st).state[c] = st
             /\ \A d \in Channels \ {c} : Same(s, SetState(s, st), d)
  <2> DEFINE t == SetState(s, st)
  <2>1. /\ t \in Sys /\ t.pending = s.pending /\ t.socks = s.socks
        /\ t.state = [s.state EXCEPT ![c] = st]
    BY DEF Sys
  <2>2. t.state[c] = st /\ \A d \in Channels \ {c} : t.state[d] = s.state[d]
    <3> HIDE DEF t
    <3> QED
      BY <2>1 DEF Sys
  <2> HIDE DEF t
  <2>3. \A d \in Channels \ {c} : Same(s, t, d)
    BY <2>1, <2>2 DEF Same
  <2> QED
    BY <2>1, <2>2, <2>3 DEF t
<1> HIDE DEF SetState
\* The step, once c is off the list, has a state that suits its outbuf and
\* its queues, and has nothing in the socket table.
<1>6. ASSUME chan' \in [Channels -> ChanStates], chan'[c] \in {chan[c], "closing"},
             cells' \in [Channels -> 0..MaxData], destroys' \in [Channels -> 0..MaxData],
             out' \in [Channels -> 0..MaxData],
             \A d \in Channels \ {c} : /\ cells'[d] = cells[d] /\ destroys'[d] = destroys[d]
                                       /\ out'[d] = out[d] /\ chan'[d] = chan[d]
                                       /\ Same(popped, q', d)
                                       /\ (d \in run'.readd <=> d \in run.readd),
             Bounded(c)', EmptyBefore(c)', q' \in Sys, q'.socks = {},
             run' \in RunLocals, run'.prev = run.prev, c \notin q'.pending,
             q'.state[c] = "PENDING" => c \in run'.readd,
             WillReport(c)',
             chan'[c] = "open" /\ cells'[c] > 0 =>
                c \in run'.readd \/ q'.state[c] = "WAITING_TO_WRITE"
      PROVE  IInv'
  <2> DEFINE S == {c}
  <2>1. Listed(c)' /\ Remembered(c)'
    BY <1>1, <1>6 DEF Listed, Remembered, InHand
  <2>2. Connected(c)' /\ HasSocket(c)'
    BY <1>1, <1>2, <1>6 DEF Connected, HasSocket
  <2>3. S \in SUBSET Channels /\ \A d \in S : ChannelInv(d)'
    BY <1>6, <2>1, <2>2 DEF ChannelInv
  <2>4. \A d \in Channels \ S :
             /\ Untouched(d) /\ (d \in run'.readd <=> d \in run.readd)
             /\ (d = cur' <=> d = cur) /\ (d = run'.prev => d = run.prev)
    BY <1>1, <1>2, <1>6 DEF Untouched, Same
  <2>5. Types'
    BY <1>6 DEF Types
  <2> HIDE DEF S
  <2> QED
    BY <1>1, <1>2, <1>6, <2>3, <2>4, <2>5, RunStep
\* The outbuf is full, or the channel is not open.
<1>7. CASE /\ n = 0
           /\ q' = SetState(popped, "WAITING_TO_WRITE")
           /\ UNCHANGED <<chan, cells, destroys, out, run>>
  <2>1. /\ q' \in Sys /\ q'.pending = popped.pending /\ q'.socks = popped.socks
        /\ q'.state[c] = "WAITING_TO_WRITE" /\ \A d \in Channels \ {c} : Same(popped, q', d)
    BY <1>2, <1>5, <1>7 DEF SchedStates
  <2>2. Bounded(c)' /\ EmptyBefore(c)' /\ WillReport(c)'
    BY <1>2, <1>4, <1>7 DEF ChannelInv, Bounded, EmptyBefore, WillReport, Total
  <2> QED
    BY <1>2, <1>3, <1>6, <1>7, <2>1, <2>2 DEF Types
\* m cells fit: all of them, or as many as there is room for.
<1>8. ASSUME NEW m \in Nat, Flush(c, m), chan' = chan
      PROVE  /\ cells' \in [Channels -> 0..MaxData] /\ destroys' \in [Channels -> 0..MaxData]
             /\ out' \in [Channels -> 0..MaxData] /\ chan' \in [Channels -> ChanStates]
             /\ \A d \in Channels \ {c} : /\ cells'[d] = cells[d] /\ destroys'[d] = destroys[d]
                                          /\ out'[d] = out[d] /\ chan'[d] = chan[d]
             /\ out'[c] = out[c] + m /\ cells'[c] <= Total(c) - m /\ cells'[c] \in Nat
             /\ Bounded(c)' /\ EmptyBefore(c)'
  <2>1. /\ cells' \in [Channels -> 0..MaxData] /\ destroys' \in [Channels -> 0..MaxData]
        /\ out' \in [Channels -> 0..MaxData]
        /\ \A d \in Channels \ {c} : /\ cells'[d] = cells[d] /\ destroys'[d] = destroys[d]
                                     /\ out'[d] = out[d]
        /\ out'[c] = out[c] + m /\ Total(c)' = Total(c) - m
        /\ cells'[c] <= cells[c] /\ cells'[c] <= Total(c) - m
    BY <1>2, <1>3, <1>8, FlushFacts
  <2>2. Bounded(c)' /\ EmptyBefore(c)' /\ cells'[c] \in Nat
    BY <1>2, <1>3, <1>8, <2>1 DEF Bounded, EmptyBefore, Total, ChannelInv
  <2> QED
    BY <1>2, <1>8, <2>1, <2>2 DEF Types
<1>9. CASE /\ n > Total(c)
           /\ Flush(c, Total(c))
           /\ q' = SetState(popped, "WAITING_FOR_CELLS")
           /\ UNCHANGED <<chan, run>>
  <2>1. /\ q' \in Sys /\ q'.pending = popped.pending /\ q'.socks = popped.socks
        /\ q'.state[c] = "WAITING_FOR_CELLS" /\ \A d \in Channels \ {c} : Same(popped, q', d)
    BY <1>2, <1>5, <1>9 DEF SchedStates
  <2>2. PICK m \in Nat : m = Total(c)
    BY <1>3 DEF Total
  <2>3. Flush(c, m) /\ chan' = chan
    BY <1>9, <2>2
  <2>4. WillReport(c)'
    BY <2>1 DEF WillReport
  <2>5. cells'[c] = 0
    BY <1>8, <2>2, <2>3
  <2> QED
    BY <1>2, <1>3, <1>6, <1>8, <1>9, <2>1, <2>3, <2>4, <2>5
<1>10. CASE /\ n \in 1..Total(c)
            /\ Flush(c, n)
            /\ LET more == Total(c) > n
                   room == (High - (out[c] + n)) % SizeMax > 0
               IN  /\ q' = IF more /\ room THEN popped
                           ELSE SetState(popped,
                                  IF more THEN "WAITING_TO_WRITE"
                                  ELSE IF room THEN "WAITING_FOR_CELLS"
                                  ELSE "IDLE")
                   /\ run' = IF more /\ room
                             THEN [run EXCEPT !.readd = @ \cup {c}] ELSE run
            /\ UNCHANGED chan
  <2>1. PICK m \in Nat : m = n
    BY <1>4
  <2> DEFINE more == Total(c) > m
             room == (High - (out[c] + m)) % SizeMax > 0
  <2>2. /\ Flush(c, m) /\ chan' = chan
        /\ q' = IF more /\ room THEN popped
                ELSE SetState(popped, IF more THEN "WAITING_TO_WRITE"
                                      ELSE IF room THEN "WAITING_FOR_CELLS" ELSE "IDLE")
        /\ run' = IF more /\ room THEN [run EXCEPT !.readd = @ \cup {c}] ELSE run
    BY <1>10, <2>1
  <2>3. /\ ~room => out'[c] > 0
        /\ ~more => cells'[c] = 0
    <3>1. out'[c] = out[c] + m /\ out'[c] \in 0..MaxData /\ cells'[c] <= Total(c) - m /\ cells'[c] \in Nat
      BY <1>8, <2>2
    <3>2. ~room => out[c] + m = High
      BY <3>1, RoomIsZero
    <3> QED
      BY <1>3, <3>1, <3>2 DEF Total
  <2> HIDE DEF more, room
  <2>4. CASE more /\ room
    <3>1. q' = popped /\ run' = [run EXCEPT !.readd = @ \cup {c}]
      BY <2>2, <2>4
    <3>2. /\ run' \in RunLocals /\ run'.prev = run.prev /\ c \in run'.readd
          /\ \A d \in Channels \ {c} : d \in run'.readd <=> d \in run.readd
      BY <1>2, <3>1 DEF RunLocals
    <3>3. WillReport(c)' /\ c \notin q'.pending /\ q'.socks = {} /\ q' \in Sys
          /\ \A d \in Channels \ {c} : Same(popped, q', d)
      BY <1>2, <1>3, <3>1 DEF WillReport, Same
    <3> QED
      BY <1>2, <1>6, <1>8, <2>2, <3>2, <3>3
  <2>5. CASE ~(more /\ room)
    <3>1. PICK st \in {"WAITING_TO_WRITE", "WAITING_FOR_CELLS", "IDLE"} :
            /\ q' = SetState(popped, st) /\ run' = run
            /\ st # "WAITING_FOR_CELLS" => out'[c] > 0
            /\ st # "WAITING_TO_WRITE" => cells'[c] = 0
      BY <2>2, <2>3, <2>5
    <3>2. /\ q' \in Sys /\ q'.pending = popped.pending /\ q'.socks = popped.socks
          /\ q'.state[c] = st /\ \A d \in Channels \ {c} : Same(popped, q', d)
      BY <1>2, <1>5, <3>1 DEF SchedStates
    <3>3. WillReport(c)'
      BY <3>1, <3>2 DEF WillReport
    <3> QED
      BY <1>2, <1>3, <1>6, <1>8, <2>2, <3>1, <3>2, <3>3
  <2> QED
    BY <2>4, <2>5
\* The connection breaks at the k-th cell.
<1>11. CASE \E k \in 1..Min({n, Total(c)}) :
              /\ n > 0 /\ Total(c) > 0
              /\ FlushFails(c, k, n)
              /\ q' = SetState(ReleaseChannel(popped, c),
                               IF k < n THEN "WAITING_FOR_CELLS"
                               ELSE IF Total(c) > k THEN "WAITING_TO_WRITE"
                               ELSE "IDLE")
              /\ UNCHANGED run
  <2>1. PICK k \in 1..Min({n, Total(c)}), st \in {"WAITING_TO_WRITE", "WAITING_FOR_CELLS", "IDLE"} :
              /\ FlushFails(c, k, n)
              /\ q' = SetState(ReleaseChannel(popped, c), st) /\ run' = run
    BY <1>11
  <2>2. k \in Nat /\ k <= Total(c)
    <3>1. n \in Int /\ Total(c) \in Int
      BY <1>3, <1>4 DEF Total
    <3>2. Min({n, Total(c)}) \in Int /\ Min({n, Total(c)}) <= Total(c)
      BY <3>1, MinOfTwo
    <3> QED
      BY <2>1, <3>1, <3>2
  <2>3. PICK m \in Nat : m = n
    BY <1>4
  <2>4. /\ cells' \in [Channels -> 0..MaxData] /\ destroys' \in [Channels -> 0..MaxData]
        /\ out' \in [Channels -> 0..MaxData] /\ chan' \in [Channels -> ChanStates]
        /\ \A d \in Channels \ {c} : /\ cells'[d] = cells[d] /\ destroys'[d] = destroys[d]
                                     /\ out'[d] = out[d] /\ chan'[d] = chan[d]
        /\ chan'[c] = "closing" /\ Bounded(c)'
    BY <1>2, <1>3, <2>1, <2>2, <2>3, FlushFailsFacts
  <2> DEFINE s == ReleaseChannel(popped, c)
  <2>5. s \in Sys /\ Released(popped, s, c)
    BY <1>2, ReleaseChannelFacts DEF Released
  <2> HIDE DEF s
  <2>6. /\ q' \in Sys /\ q'.pending = s.pending /\ q'.socks = s.socks
        /\ q'.state[c] = st /\ \A d \in Channels \ {c} : Same(s, q', d)
    BY <1>5, <2>1, <2>5 DEF SchedStates, s
  <2>7. /\ c \notin q'.pending /\ q'.socks = {}
        /\ \A d \in Channels \ {c} : Same(popped, q', d)
    BY <1>1, <1>2, <1>3, <2>5, <2>6 DEF Released, Same
  <2>8. EmptyBefore(c)' /\ WillReport(c)'
    BY <2>4 DEF EmptyBefore, WillReport
  <2> QED
    BY <1>2, <1>6, <2>1, <2>4, <2>6, <2>7, <2>8
<1> QED
  BY <1>7, <1>9, <1>10, <1>11 DEF VanillaServe, n, popped, SetState

\* The list is empty: what follows needs no socket.
LEMMA LoopDoneKeeps ==
    ASSUME IInv, LoopDone
    PROVE  IInv'
<1>1. /\ at = "loop" /\ at' = "final" /\ cur = NoChannel
      /\ UNCHANGED <<chan, cells, destroys, out, mode, q, cur, run>>
  BY DEF LoopDone, IInv, Locals
<1>2. TypeOK' /\ Locals' /\ WorkIsScheduled'
  BY <1>1 DEF IInv, TypeOK, Locals, WorkIsScheduled
<1>3. ASSUME NEW d \in Channels PROVE ChannelInv(d)'
  <2>1. ChannelInv(d)
    BY DEF IInv
  <2>2. Bounded(d)' /\ EmptyBefore(d)'
    BY <1>1, <2>1 DEF ChannelInv, Bounded, EmptyBefore, Total
  <2>3. Listed(d)' /\ WillReport(d)' /\ Remembered(d)'
    BY <1>1, <2>1 DEF ChannelInv, Listed, WillReport, Remembered, InHand
  <2>4. Connected(d)' /\ HasSocket(d)'
    BY <1>1, <2>1 DEF ChannelInv, Connected, HasSocket
  <2> QED
    BY <2>2, <2>3, <2>4 DEF ChannelInv
<1> QED
  BY <1>2, <1>3 DEF IInv

\* The outbufs the run has filled are written.
LEMMA FinalWriteKeeps ==
    ASSUME IInv, NEW c \in Channels, FinalWrite(c)
    PROVE  IInv'
<1>1. /\ at = "final" /\ at' = at /\ cur' = cur /\ mode' = mode /\ cells' = cells
      /\ destroys' = destroys /\ WriteToKernel(c, q) /\ run' = [run EXCEPT !.table = @ \ {c}]
  BY DEF FinalWrite
<1>2. Types /\ run \in RunLocals /\ cur = NoChannel /\ c # cur
  BY <1>1, TypesHold, SchedulerConstants DEF IInv, TypeOK, RunLocals, Locals
<1>3. run' \in RunLocals /\ run'.readd = run.readd /\ run'.prev = run.prev
  BY <1>1, <1>2 DEF RunLocals
<1>4. /\ out' \in [Channels -> 0..MaxData] /\ chan' \in [Channels -> ChanStates]
      /\ \A d \in Channels \ {c} : out'[d] = out[d] /\ chan'[d] = chan[d]
      /\ q' = q \/ GotRoom(q, q', c) \/ Released(q, q', c)
  BY <1>1, <1>2, WriteToKernelFacts DEF IInv, Types, ChanStates
<1>5. Types' /\ q'.socks \subseteq q.socks /\ \A d \in Channels \ {c} : Untouched(d)
  BY <1>1, <1>2, <1>4 DEF Types, Untouched, Same, GotRoom, Released
<1>6. ChannelInv(c)'
  <2>1. Same(q, q, c) /\ q \in Sys
    BY <1>2 DEF Same, Types
  <2> QED
    BY <1>1, <1>2, <1>3, <2>1, WrittenTo
<1> DEFINE S == {c}
<1>7. S \in SUBSET Channels /\ \A d \in S : ChannelInv(d)'
  BY <1>6
<1>8. \A d \in Channels \ S :
           /\ Untouched(d) /\ (d \in run'.readd <=> d \in run.readd)
           /\ (d = cur' <=> d = cur) /\ (d = run'.prev => d = run.prev)
  BY <1>1, <1>3, <1>5
<1> HIDE DEF S
<1> QED
  BY <1>1, <1>2, <1>3, <1>5, <1>7, <1>8, RunStep

\* The end of a run lists what it has put aside.
LEMMA RunEndKeeps ==
    ASSUME IInv, RunEnd
    PROVE  IInv'
<1> DEFINE s == [q EXCEPT
                   !.state = [c \in Channels |-> IF c \in run.readd THEN "PENDING" ELSE @[c]],
                   !.pending = @ \cup run.readd]
<1>1. /\ at = "final" /\ at' = "waiting" /\ run' = NoRun /\ cur = NoChannel
      /\ UNCHANGED <<chan, cells, destroys, out, mode, cur>> /\ q' = Schedule(s)
  BY DEF RunEnd, IInv, Locals
<1>2. Types /\ run \in RunLocals
  BY TypesHold DEF IInv, TypeOK, RunLocals
<1>3. /\ s \in Sys /\ s.pending = q.pending \cup run.readd /\ s.socks = q.socks
      /\ \A c \in Channels : s.state[c] = IF c \in run.readd THEN "PENDING" ELSE q.state[c]
  <2> DEFINE st == [c \in Channels |-> IF c \in run.readd THEN "PENDING" ELSE q.state[c]]
  <2>1. st \in [Channels -> SchedStates]
    BY <1>2 DEF Types, Sys, SchedStates
  <2>2. s = [q EXCEPT !.state = st, !.pending = @ \cup run.readd]
    OBVIOUS
  <2>3. \A c \in Channels : st[c] = IF c \in run.readd THEN "PENDING" ELSE q.state[c]
    OBVIOUS
  <2> HIDE DEF st, s
  <2>4. s.state = st /\ s.pending = q.pending \cup run.readd /\ s.socks = q.socks /\ s \in Sys
    BY <1>2, <2>1, <2>2 DEF Types, Sys, RunLocals
  <2> QED
    BY <2>3, <2>4
<1> HIDE DEF s
<1>4. /\ q' \in Sys /\ EventSet(q') /\ q'.pending = q.pending \cup run.readd /\ q'.socks = q.socks
      /\ \A c \in Channels : q'.state[c] = IF c \in run.readd THEN "PENDING" ELSE q.state[c]
  BY <1>1, <1>3, ScheduleFacts
<1>5. /\ run' \in RunLocals /\ run'.readd = {} /\ run'.prev = NoChannel
  BY <1>1 DEF NoRun, RunLocals
<1>6. TypeOK'
  BY <1>1, <1>4, <1>5 DEF IInv, TypeOK, Sys, RunLocals
<1>7. Locals' /\ WorkIsScheduled'
  BY <1>1, <1>4 DEF IInv, Locals, WorkIsScheduled, EventSet
<1>8. ASSUME NEW c \in Channels PROVE ChannelInv(c)'
  <2>1. ChannelInv(c) /\ c # cur
    BY <1>1, SchedulerConstants DEF IInv
  <2>2. Bounded(c)' /\ EmptyBefore(c)'
    BY <1>1, <2>1 DEF ChannelInv, Bounded, EmptyBefore, Total
  <2>3. Listed(c)' /\ WillReport(c)' /\ Remembered(c)'
    BY <1>1, <1>4, <1>5, <2>1 DEF ChannelInv, Listed, WillReport, Remembered, InHand
  <2>4. Connected(c)' /\ HasSocket(c)'
    BY <1>1, <1>4, <1>5, <2>1 DEF ChannelInv, Connected, HasSocket
  <2> QED
    BY <2>2, <2>3, <2>4 DEF ChannelInv
<1> QED
  BY <1>6, <1>7, <1>8 DEF IInv

-----------------------------------------------------------------------------
(* The theorems.                                                            *)

\* Every step keeps the invariant ...
LEMMA IInvInductive == IInv /\ [Next]_vars => IInv'
<1> SUFFICES ASSUME IInv, [Next]_vars PROVE IInv'
  OBVIOUS
<1>1. CASE Run
  BY <1>1, RunBeginKeeps, KistServeKeeps, LoopDoneKeeps, RunEndKeeps, KistPopKeeps,
     VanillaServeKeeps, FinalWriteKeeps DEF Run
<1>2. CASE \E c \in Channels : ChannelEvent(c)
  BY <1>2, UnheardKeeps, OpenKeeps, AppendCellKeeps, SendDestroyKeeps, WriteEventKeeps,
     CloseKeeps DEF ChannelEvent
<1>3. CASE \E m \in Modes : SetScheduler(m)
  BY <1>3, SetSchedulerKeeps
<1>4. CASE UNCHANGED vars
  BY <1>4 DEF vars, IInv, TypeOK, Locals, WorkIsScheduled, ChannelInv, Bounded, Listed,
     EmptyBefore, WillReport, Remembered, Connected, HasSocket, InHand, Total
<1> QED
  BY <1>1, <1>2, <1>3, <1>4 DEF Next

\* ... and so it always holds.
LEMMA IInvHolds == Spec => []IInv
BY InitIInv, IInvInductive, PTL DEF Spec

\* The type invariant of the scheduler.
THEOREM TypeCorrect == Spec => []TypeOK
<1>1. IInv => TypeOK
  BY DEF IInv
<1> QED
  BY IInvHolds, <1>1, PTL

\* A listed channel is PENDING, and a PENDING one is listed, being served or
\* waiting in to_readd: scheduler_set_channel_state and the heap agree whatever
\* a write inside a run calls back into.
THEOREM ListAndStatesAgree == Spec => []ListAgrees
<1>1. IInv => ListAgrees
  BY DEF IInv, ChannelInv, Listed, InHand, ListAgrees
<1> QED
  BY IInvHolds, <1>1, PTL

\* Between runs a listed channel has the run event set.
THEOREM ListedIsScheduled == Spec => []WorkIsScheduled
<1>1. IInv => WorkIsScheduled
  BY DEF IInv
<1> QED
  BY IInvHolds, <1>1, PTL

\* No open channel with cells of circuits is forgotten between runs.
THEOREM NoneForgotten == Spec => []NotForgotten
<1>1. IInv => NotForgotten
  BY DEF IInv, ChannelInv, Remembered, WillReport, InHand, NotForgotten
<1> QED
  BY IInvHolds, <1>1, PTL

\* What is listed, or will be at the end of the run, has a connection: a run
\* follows no pointer to a connection that is gone.
THEOREM ListedIsConnected == Spec => []ListedHasConnection
<1>1. IInv => ListedHasConnection
  <2>1. ASSUME IInv PROVE q.pending \cup run.readd \subseteq Channels
    BY <2>1 DEF IInv, TypeOK
  <2> QED
    BY <2>1 DEF IInv, ChannelInv, Connected, ListedHasConnection
<1> QED
  BY IInvHolds, <1>1, PTL

\* The socket table has entries of channels that exist, and one for every
\* channel the KIST loop may serve.
THEOREM SocketTableKnown == Spec => []SocketsKnown
<1>1. IInv => SocketsKnown
  <2> SUFFICES ASSUME IInv PROVE SocketsKnown
    OBVIOUS
  <2>1. q.pending \cup ({cur} \ {NoChannel}) \subseteq Channels /\ q.socks \subseteq Channels
    BY DEF IInv, TypeOK
  <2> QED
    BY <2>1 DEF IInv, ChannelInv, HasSocket, SocketsKnown
<1> QED
  BY IInvHolds, <1>1, PTL
=============================================================================
