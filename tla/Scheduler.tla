---------------------------- MODULE Scheduler ----------------------------
(***************************************************************************)
(* The relay's cell scheduler: scheduler.c with the KIST, KISTLite and     *)
(* Vanilla implementations, and what drives it from channel.c,             *)
(* connection_or.c, connection.c, relay.c and circuitmux.c.                *)
(*                                                                         *)
(* Everything happens on the main thread.  While the scheduler runs        *)
(* (at # "waiting") no other handler does, but a run writes to sockets,    *)
(* and such a write calls back into the scheduler: it may report room in   *)
(* the output buffer, or fail and take the channel down in the middle of   *)
(* the loop that is serving it.                                            *)
(*                                                                         *)
(* Amounts are in cells.  Which circuit of a channel is served first, and  *)
(* which channel, is the priority queue's choice and left open.            *)
(* CHANNEL_STATE_MAINT is left out: an OR connection never leaves the open *)
(* state except to close, so scheduler_channel_doesnt_want_writes is never *)
(* called.                                                                 *)
(***************************************************************************)
EXTENDS Integers, FiniteSets, FiniteSetsExt

CONSTANTS
    Channels,   \* channel_t objects (a freed one may be allocated again)
    NoChannel,  \* the null pointer
    Modes,      \* the scheduler types the configuration may select
    Low,        \* or_conn_lowwatermark()
    High,       \* or_conn_highwatermark()
    Batch,      \* outbufs above this are written in the loop (8 cells)
    Window,     \* what the kernel may take for one socket, at most
    SizeMax,    \* size_t is computed modulo this
    MaxData     \* bound: cells a channel holds in its queues and outbuf

ASSUME SchedulerConstants ==
    /\ NoChannel \notin Channels
    /\ Modes \subseteq {"kist", "lite", "vanilla"} /\ Modes # {}
    /\ {Low, High} \subseteq Nat \ {0}
    /\ {Batch, Window, SizeMax, MaxData} \subseteq Nat
    /\ SizeMax > High + MaxData

SchedStates == {"IDLE", "WAITING_FOR_CELLS", "WAITING_TO_WRITE", "PENDING"}

VARIABLES
    chan,       \* state of each channel; "finished": CLOSED or ERROR, no conn
    cells,      \* cells on the circuit queues of its cmux
    destroys,   \* cmux->destroy_cell_queue.n
    out,        \* cells in the outbuf of its connection
    mode,       \* the_scheduler and kist_lite_mode
    q,          \* the scheduling system: scheduler_state of every channel,
                \* channels_pending, run_sched_ev, socket_table
    at,         \* where the run is
    cur,        \* the channel popped
    run         \* the other local variables of run()

vars == <<chan, cells, destroys, out, mode, q, at, cur, run>>

\* One type for the whole state.
TypeOK ==
    /\ chan \in [Channels -> {"freed", "opening", "open", "closing", "finished"}]
    /\ {cells, destroys, out} \subseteq [Channels -> 0..MaxData]
    /\ mode \in Modes
    /\ q \in [state : [Channels -> SchedStates], pending : SUBSET Channels,
              ev : BOOLEAN, socks : SUBSET Channels]
    /\ at \in {"waiting", "loop", "serve", "final"}
    /\ cur \in Channels \cup {NoChannel}
    /\ run \in [prev : Channels \cup {NoChannel}, room : [Channels -> Nat],
                table : SUBSET Channels, readd : SUBSET Channels]

NoRun == [prev |-> NoChannel, room |-> [c \in Channels |-> 0],
          table |-> {}, readd |-> {}]

Init ==
    /\ chan = [c \in Channels |-> "freed"]
    /\ cells = [c \in Channels |-> 0]
    /\ destroys = cells
    /\ out = cells
    /\ mode \in Modes
    /\ q = [state |-> [c \in Channels |-> "IDLE"], pending |-> {},
            ev |-> FALSE, socks |-> {}]
    /\ at = "waiting" /\ cur = NoChannel /\ run = NoRun

(***************************************************************************)
(* scheduler.c: the calls by which the rest of the relay moves a channel   *)
(* between the four states.  Each maps the scheduling system to the next.  *)
(***************************************************************************)

\* the_scheduler->schedule(): set the run event if there is work.
Schedule(s) == IF s.pending = {} THEN s ELSE [s EXCEPT !.ev = TRUE]

MakePending(s, c) ==
    Schedule([s EXCEPT !.state[c] = "PENDING", !.pending = @ \cup {c}])

HasWaitingCells(s, c) ==
    CASE s.state[c] = "WAITING_FOR_CELLS" -> MakePending(s, c)
      [] s.state[c] = "IDLE" -> [s EXCEPT !.state[c] = "WAITING_TO_WRITE"]
      [] OTHER -> s

\* Mutant: room in the outbuf is only noted, cells that wait are not listed.
MutWantsWrites(s, c) ==
    IF s.state[c] \in {"WAITING_TO_WRITE", "IDLE"}
    THEN [s EXCEPT !.state[c] = "WAITING_FOR_CELLS"] ELSE s

WantsWrites(s, c) ==
    CASE s.state[c] = "WAITING_TO_WRITE" -> MakePending(s, c)
      [] s.state[c] = "IDLE" -> [s EXCEPT !.state[c] = "WAITING_FOR_CELLS"]
      [] OTHER -> s

\* scheduler_release_channel; only KIST has an on_channel_free.
ReleaseChannel(s, c) ==
    [s EXCEPT !.state[c] = "IDLE", !.pending = @ \ {c},
              !.socks = IF mode = "vanilla" THEN @ ELSE @ \ {c}]

(***************************************************************************)
(* Sockets and queues.                                                     *)
(***************************************************************************)

Total(c) == cells[c] + destroys[c]

\* channel_num_cells_writeable: the difference is a size_t, so an outbuf
\* above the high water mark wraps around.
NumCellsWriteable(c) ==
    IF chan[c] = "open" THEN (High - out[c]) % SizeMax ELSE 0

\* connection_or_num_cells_writeable compares first.
OrNumCellsWriteable(c) == Max({High - out[c], 0})

\* What connection_handle_write may do to channel c: give some of the outbuf
\* to TLS and report it (connection_or_flushed_some), stop at WANTREAD, which
\* returns before the report, or fail.  A connection marked for close is left
\* alone.
HandleWrite(c, s) ==
    LET Result(o, t) == [dead |-> FALSE, out |-> o, s |-> t]
        flushed(o) == IF o < out[c] /\ o < Low THEN WantsWrites(s, c) ELSE s
    IN  IF chan[c] \notin {"opening", "open"} \/ out[c] = 0
        THEN {Result(out[c], s)}
        ELSE {Result(o, flushed(o)) : o \in 0..out[c]}
             \cup {Result(o, s) : o \in 1..out[c]}
             \cup {[dead |-> TRUE, out |-> 0, s |-> ReleaseChannel(s, c)]}

\* The connection of c is written to while the scheduling system is s.
WriteToKernel(c, s) ==
    \E w \in HandleWrite(c, s) :
        /\ out' = [out EXCEPT ![c] = w.out]
        /\ chan' = [chan EXCEPT ![c] = IF w.dead THEN "closing" ELSE @]
        /\ q' = w.s

\* channel_flush_from_first_active_circuit(chan, n) when every cell reaches
\* the outbuf; the cmux chooses between circuits and DESTROY cells.
Flush(c, n) ==
    \E k \in 0..n :
        /\ k <= cells[c] /\ n - k <= destroys[c]
        /\ cells' = [cells EXCEPT ![c] = @ - k]
        /\ destroys' = [destroys EXCEPT ![c] = @ - (n - k)]
        /\ out' = [out EXCEPT ![c] = @ + n]

\* Adding the n-th cell to the outbuf fails and closes the connection.  What
\* the call was still allowed to send is popped and dropped (max is what it
\* was asked for).
FlushFails(c, n, max) ==
    /\ chan' = [chan EXCEPT ![c] = "closing"]
    /\ IF n = max
       THEN Flush(c, n)
       ELSE /\ cells' = [cells EXCEPT ![c] = 0]
            /\ destroys' = [destroys EXCEPT ![c] = 0]
            /\ out' = [out EXCEPT ![c] = @ + n]

(***************************************************************************)
(* Events of the main loop, between runs.                                  *)
(***************************************************************************)

Idle == at = "waiting"
SameRun == UNCHANGED <<at, cur, run>>
HasSpace(c) == Total(c) + out[c] < MaxData

\* channel_init: a new channel, perhaps at the address of a freed one.
New(c) ==
    /\ Idle /\ chan[c] = "freed"
    /\ chan' = [chan EXCEPT ![c] = "opening"]
    /\ UNCHANGED <<cells, destroys, out, mode, q>> /\ SameRun

\* Cells the scheduler has no part in: the handshake's, and padding.
OtherCell(c) ==
    /\ Idle /\ chan[c] \in {"opening", "open"} /\ HasSpace(c)
    /\ out' = [out EXCEPT ![c] = @ + 1]
    /\ UNCHANGED <<chan, cells, destroys, mode, q>> /\ SameRun

\* channel_tls_handle_state_change_on_orconn(OPEN): the circuits that waited
\* for the channel send their CREATE cells first, then the scheduler hears
\* whether the outbuf has room.
Open(c) ==
    /\ Idle /\ chan[c] = "opening"
    /\ chan' = [chan EXCEPT ![c] = "open"]
    /\ \E n \in 0..1 :
        /\ n = 0 \/ HasSpace(c)
        /\ cells' = [cells EXCEPT ![c] = @ + n]
        /\ LET s == IF n = 0 THEN q ELSE HasWaitingCells(q, c)
           IN  q' = IF OrNumCellsWriteable(c) > 0 THEN WantsWrites(s, c) ELSE s
    /\ UNCHANGED <<destroys, out, mode>> /\ SameRun

\* append_cell_to_circuit_queue; a channel that is closing still has circuits.
AppendCell(c) ==
    /\ Idle /\ chan[c] \in {"open", "closing"} /\ HasSpace(c)
    /\ cells' = [cells EXCEPT ![c] = @ + 1]
    /\ q' = HasWaitingCells(q, c)
    /\ UNCHANGED <<chan, destroys, out, mode>> /\ SameRun

\* A circuit's queue is cleared (circuit_about_to_free, or the OOM handler):
\* the scheduler is not told.
CircuitCleared(c) ==
    /\ Idle /\ cells[c] > 0
    /\ \E n \in 0..(cells[c] - 1) : cells' = [cells EXCEPT ![c] = n]
    /\ UNCHANGED <<chan, destroys, out, mode, q>> /\ SameRun

\* channel_send_destroy -> circuitmux_append_destroy_cell: the scheduler is
\* not told either; one cell goes to the outbuf at once if that is empty.
SendDestroy(c) ==
    /\ Idle /\ chan[c] = "open" /\ HasSpace(c)
    /\ \/ /\ out[c] > 0
          /\ destroys' = [destroys EXCEPT ![c] = @ + 1]
          /\ UNCHANGED <<chan, cells, out, q>>
       \/ /\ out[c] = 0
          /\ out' = [out EXCEPT ![c] = 1]
          /\ \/ UNCHANGED <<cells, destroys>>
             \/ /\ cells[c] > 0
                /\ cells' = [cells EXCEPT ![c] = @ - 1]
                /\ destroys' = [destroys EXCEPT ![c] = @ + 1]
          /\ \/ UNCHANGED <<chan, q>>
             \/ /\ chan' = [chan EXCEPT ![c] = "closing"]
                /\ q' = ReleaseChannel(q, c)
    /\ UNCHANGED mode /\ SameRun

\* The socket is writeable: connection_handle_write.
WriteEvent(c) ==
    /\ Idle /\ chan[c] \in {"opening", "open"} /\ out[c] > 0
    /\ WriteToKernel(c, q)
    /\ UNCHANGED <<cells, destroys, mode>> /\ SameRun

\* channel_mark_for_close, channel_close_for_error.
MarkForClose(c) ==
    /\ Idle /\ chan[c] \in {"opening", "open"}
    /\ chan' = [chan EXCEPT ![c] = "closing"]
    /\ q' = ReleaseChannel(q, c)
    /\ UNCHANGED <<cells, destroys, out, mode>> /\ SameRun

\* Mutant: the channel was released when it started to close, so not again.
MutChannelClosed(c) ==
    /\ Idle /\ chan[c] = "closing"
    /\ chan' = [chan EXCEPT ![c] = "finished"]
    /\ cells' = [cells EXCEPT ![c] = 0]
    /\ out' = [out EXCEPT ![c] = 0]
    /\ UNCHANGED <<destroys, mode, q>> /\ SameRun

\* connection_or_about_to_close -> channel_closed: its circuits are unlinked,
\* it is released a second time and loses its connection.
ChannelClosed(c) ==
    /\ Idle /\ chan[c] = "closing"
    /\ chan' = [chan EXCEPT ![c] = "finished"]
    /\ cells' = [cells EXCEPT ![c] = 0]
    /\ out' = [out EXCEPT ![c] = 0]
    /\ q' = ReleaseChannel(q, c)
    /\ UNCHANGED <<destroys, mode>> /\ SameRun

\* channel_run_cleanup -> channel_free_.
ChannelFree(c) ==
    /\ Idle /\ chan[c] = "finished"
    /\ chan' = [chan EXCEPT ![c] = "freed"]
    /\ destroys' = [destroys EXCEPT ![c] = 0]
    /\ q' = ReleaseChannel(q, c)
    /\ UNCHANGED <<cells, out, mode>> /\ SameRun

\* Mutant: the socket table survives the scheduler that owns it.
MutSetScheduler(m) ==
    /\ Idle /\ m # mode
    /\ mode' = m
    /\ UNCHANGED <<chan, cells, destroys, out, q>> /\ SameRun

\* set_scheduler, on new options or a new consensus: the old scheduler frees
\* its state when the object changes (KIST and KISTLite share one).
SetScheduler(m) ==
    /\ Idle /\ m # mode
    /\ mode' = m
    /\ q' = IF m = "vanilla" THEN [q EXCEPT !.socks = {}] ELSE q
    /\ UNCHANGED <<chan, cells, destroys, out>> /\ SameRun

(***************************************************************************)
(* A run: scheduler_evt_callback.                                          *)
(***************************************************************************)

\* update_socket_info: KIST asks the kernel, and counts the outbuf against
\* the answer; when the kernel does not tell, it does for this socket what
\* KISTLite does for all: it takes what the outbuf has room for.
Limits(c) ==
    {NumCellsWriteable(c)}
    \cup IF mode = "kist" THEN 0..Max({Window - out[c], 0}) ELSE {}

RunBegin ==
    /\ Idle /\ q.ev
    /\ at' = "loop"
    /\ IF mode = "vanilla"
       THEN /\ run' = NoRun
            /\ q' = [q EXCEPT !.ev = FALSE]
       ELSE /\ \E room \in [q.pending -> 0..SizeMax] :
                  /\ \A c \in q.pending : room[c] \in Limits(c)
                  /\ run' = [NoRun EXCEPT !.room =
                        [c \in Channels |-> IF c \in q.pending THEN room[c] ELSE 0]]
            /\ q' = [q EXCEPT !.ev = FALSE, !.socks = @ \cup q.pending]
    /\ UNCHANGED <<chan, cells, destroys, out, mode, cur>>

\* KIST pops a channel; having switched channels, it first writes a well
\* filled outbuf of the previous one.
KistPop(c) ==
    /\ at = "loop" /\ mode # "vanilla" /\ c \in q.pending
    /\ at' = "serve" /\ cur' = c
    /\ LET popped == [q EXCEPT !.pending = @ \ {c}]
           p == run.prev
           writes == p \notin {NoChannel, c} /\ out[p] > Batch
       IN  /\ IF writes THEN WriteToKernel(p, popped)
              ELSE q' = popped /\ UNCHANGED <<chan, out>>
           /\ run' = [run EXCEPT !.prev = c, !.table =
                        (@ \cup {c}) \ (IF writes THEN {p} ELSE {})]
    /\ UNCHANGED <<cells, destroys, mode>>

\* Back to the top of the loop with cur in scheduler state st.
Leave(st) ==
    /\ at' = "loop" /\ cur' = NoChannel
    /\ q' = [q EXCEPT !.state[cur] = st]

\* The four cases, for room left and cells left.
Decide(room, more) ==
    /\ at' = "loop" /\ cur' = NoChannel
    /\ q' = [q EXCEPT
          !.state[cur] = IF more THEN "PENDING" ELSE "WAITING_FOR_CELLS",
          !.pending = IF more /\ room > 0 THEN @ \cup {cur} ELSE @]
    /\ run' = [run EXCEPT
          !.room[cur] = room,
          !.readd = IF more /\ room = 0 THEN @ \cup {cur} ELSE @]

\* One turn of the KIST loop for the channel popped.
KistServe ==
    /\ at = "serve"
    /\ \/ /\ run.room[cur] = 0
          /\ Decide(0, Total(cur) > 0)
          /\ UNCHANGED <<chan, cells, destroys, out>>
       \/ /\ run.room[cur] > 0 /\ chan[cur] # "open"
          /\ Leave("IDLE")
          /\ UNCHANGED <<chan, cells, destroys, out, run>>
       \/ /\ run.room[cur] > 0 /\ chan[cur] = "open" /\ Total(cur) = 0
          /\ Leave("WAITING_FOR_CELLS")
          /\ UNCHANGED <<chan, cells, destroys, out, run>>
       \/ /\ run.room[cur] > 0 /\ chan[cur] = "open" /\ Total(cur) > 0
          /\ Flush(cur, 1)
          /\ Decide(run.room[cur] - 1, Total(cur) > 1)
          /\ UNCHANGED chan
       \/ /\ run.room[cur] > 0 /\ chan[cur] = "open" /\ Total(cur) > 0
          /\ FlushFails(cur, 1, 1)
          /\ at' = "loop" /\ cur' = NoChannel
          /\ q' = ReleaseChannel(q, cur)
          /\ UNCHANGED run
    /\ UNCHANGED mode

\* Vanilla flushes as much as the outbuf accepts, n cells, without writing.
VanillaServe(c) ==
    /\ at = "loop" /\ mode = "vanilla" /\ c \in q.pending
    /\ LET n == NumCellsWriteable(c)
           popped == [q EXCEPT !.pending = @ \ {c}]
           SetState(s, st) == [s EXCEPT !.state[c] = st]
       IN  \/ /\ n = 0
              /\ q' = SetState(popped, "WAITING_TO_WRITE")
              /\ UNCHANGED <<chan, cells, destroys, out, run>>
           \/ /\ n > Total(c)
              /\ Flush(c, Total(c))
              /\ q' = SetState(popped, "WAITING_FOR_CELLS")
              /\ UNCHANGED <<chan, run>>
           \/ /\ n \in 1..Total(c)
              /\ Flush(c, n)
              /\ LET more == Total(c) > n
                     room == (High - (out[c] + n)) % SizeMax > 0
                 IN  /\ q' = IF more /\ room THEN popped
                             ELSE SetState(popped,
                                    IF more THEN "WAITING_TO_WRITE"
                                    ELSE IF room THEN "WAITING_FOR_CELLS"
                                    ELSE "IDLE")
                     /\ run' = IF more /\ room
                               THEN [run EXCEPT !.readd = @ \cup {c}] ELSE run
              /\ UNCHANGED chan
           \/ \E k \in 1..Min({n, Total(c)}) :
              /\ n > 0 /\ Total(c) > 0
              /\ FlushFails(c, k, n)
              /\ q' = SetState(ReleaseChannel(popped, c),
                               IF k < n THEN "WAITING_FOR_CELLS"
                               ELSE IF Total(c) > k THEN "WAITING_TO_WRITE"
                               ELSE "IDLE")
              /\ UNCHANGED run
    /\ UNCHANGED <<mode, at, cur>>

\* The loop ends when no channel is listed.
LoopDone ==
    /\ at = "loop" /\ q.pending = {}
    /\ at' = "final"
    /\ UNCHANGED <<chan, cells, destroys, out, mode, q, cur, run>>

\* KIST writes every outbuf it touched and has not written yet.
FinalWrite(c) ==
    /\ at = "final" /\ c \in run.table
    /\ WriteToKernel(c, q)
    /\ run' = [run EXCEPT !.table = @ \ {c}]
    /\ UNCHANGED <<cells, destroys, mode, at, cur>>

\* Mutant: to_readd is dropped with the other locals.
MutRunEnd ==
    /\ at = "final" /\ run.table = {}
    /\ at' = "waiting" /\ run' = NoRun
    /\ q' = Schedule(q)
    /\ UNCHANGED <<chan, cells, destroys, out, mode, cur>>

\* Channels over their limit are listed again, those that died meanwhile
\* too, and the event is set if there is work.
RunEnd ==
    /\ at = "final" /\ run.table = {}
    /\ at' = "waiting" /\ run' = NoRun
    /\ q' = Schedule([q EXCEPT
                !.state = [c \in Channels |->
                    IF c \in run.readd THEN "PENDING" ELSE @[c]],
                !.pending = @ \cup run.readd])
    /\ UNCHANGED <<chan, cells, destroys, out, mode, cur>>

Run == \/ RunBegin \/ KistServe \/ LoopDone \/ RunEnd
       \/ \E c \in Channels : KistPop(c) \/ VanillaServe(c) \/ FinalWrite(c)

ChannelEvent(c) ==
    \/ New(c) \/ OtherCell(c) \/ Open(c)
    \/ AppendCell(c) \/ CircuitCleared(c) \/ SendDestroy(c) \/ WriteEvent(c)
    \/ MarkForClose(c) \/ ChannelClosed(c) \/ ChannelFree(c)

Next == Run \/ (\E c \in Channels : ChannelEvent(c)) \/ (\E m \in Modes : SetScheduler(m))

Spec == Init /\ [][Next]_vars

\* The main loop serves every event that is ready before it polls again, so
\* the scheduler's event runs, a run goes on to its end, and a socket whose
\* peer reads is written to although runs come between.
FairSpec ==
    /\ Spec
    /\ WF_vars(Run)
    /\ \A c \in Channels : SF_vars(WriteEvent(c) /\ out'[c] < out[c])

--------------------------------------------------------------------------
(***************************************************************************)
(* Properties                                                              *)
(***************************************************************************)

\* The state of a channel and the list agree: a listed channel is PENDING, so
\* none is inserted twice into the heap (SCHED_BUG on sched_heap_idx), and
\* between runs a PENDING channel is listed.
ListAgrees ==
    \A c \in Channels :
        /\ c \in q.pending => q.state[c] = "PENDING"
        /\ q.state[c] = "PENDING" =>
              \/ c \in q.pending
              \/ at # "waiting" /\ c \in run.readd \cup {cur}

\* Between runs a listed channel always has a run coming.
WorkIsScheduled == at = "waiting" /\ q.pending # {} => q.ev

\* Between runs no open channel with cells of circuits is forgotten: it is
\* listed, or it waits for its outbuf and the outbuf is not empty, so that a
\* write to come reports room.
NotForgotten ==
    \A c \in Channels : at = "waiting" /\ chan[c] = "open" /\ cells[c] > 0 =>
        \/ c \in q.pending
        \/ q.state[c] = "WAITING_TO_WRITE" /\ out[c] > 0

\* A channel without a connection is neither listed nor about to be: a run
\* looks at the outbuf and the socket of every listed channel.
ListedHasConnection ==
    \A c \in q.pending \cup run.readd : chan[c] \in {"open", "opening", "closing"}

\* The entries of the socket table point to channels that exist, and every
\* channel the KIST loop may serve has one.
SocketsKnown ==
    /\ \A c \in q.socks : chan[c] \notin {"finished", "freed"}
    /\ at \in {"loop", "serve"} /\ mode # "vanilla" =>
          q.pending \cup ({cur} \ {NoChannel}) \subseteq q.socks

\* An open channel that always has cells of circuits is served again and
\* again (runs move cells of it to its outbuf), unless other cells keep
\* taking the place.  KIST is left out: it serves a channel only when the
\* kernel reports room in the socket, about which nothing is assumed.
CellsServed ==
    \A c \in Channels :
        /\ <>[](chan[c] = "open" /\ cells[c] > 0 /\ mode # "kist")
        /\ <>[][at = "waiting" => out'[c] <= out[c]]_vars
        => []<><<at # "waiting" /\ out'[c] > out[c]>>_vars

\* A channel that holds a DESTROY cell is listed again and again until the
\* cell is gone: data goes on being put onto the buffer as it is flushed.
DestroysScheduled ==
    \A c \in Channels :
        <>[](chan[c] = "open" /\ destroys[c] > 0) => []<>(c \in q.pending)

\* "Stop writing on an orconn when its outbuf is this large": a run moves no
\* cell into an outbuf that is at the high water mark.
StopsAtHigh ==
    [][\A c \in Channels :
        at # "waiting" /\ mode # "kist" /\ out[c] >= High => out'[c] <= out[c]]_vars

=============================================================================
