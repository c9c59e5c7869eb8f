-------------------------- MODULE NodeRelayProofs ---------------------------
(***************************************************************************)
(* A node and its relay: the ports it finds for it, and the connection over*)
(* which it controls it.                                                   *)
(*                                                                         *)
(* The control connections, for any number of controllers and any keys.    *)
(* The inductive invariant says of each controller that at most one        *)
(* command or the lines of one reply are on their way, and that a node     *)
(* which may believe that its service was added is right; and of all of    *)
(* them that no two hold the same service.                                 *)
(***************************************************************************)
EXTENDS ControlPort, PortTrio, SequenceTheorems, TLAPS

\* The command that controller c waits for an answer to.
Asked(c) == [n |-> sent[c], name |-> Command[step[c]]]

\* Lines of the reply to command n: it ends with the first one that says so.
ReplyTo(n, lines) ==
  \A i \in 1..Len(lines) : /\ lines[i].n = n
                           /\ lines[i].err \/ lines[i].last => i = Len(lines)

\* At most one command is on its way, the present one, or lines that answer it.
OneAtATime(c) ==
  /\ waiting[c] => step[c] \in DOMAIN Command
  /\ inbuf[c] # <<>> => /\ inbuf[c] = <<Asked(c)>> /\ waiting[c]
                        /\ outbuf[c] = <<>> /\ conn[c] # "gone"
  /\ outbuf[c] # <<>> => waiting[c]
  /\ ReplyTo(sent[c], outbuf[c])

\* A line that says that the relay is ready was written when it was.
SaidReady(c) ==
  /\ c \in Polling /\ step[c] \in {"up", "del", "closed"} => ready
  /\ ready100[c] => ready
  /\ \A i \in 1..Len(outbuf[c]) : outbuf[c][i].ready => ready

\* ADD_ONION of controller c has succeeded, as far as c may find out, and its
\* DEL_ONION has not been answered and may yet be.
Claims(c) ==
  \/ step[c] \in {"boot", "up"}
  \/ step[c] = "add" /\ outbuf[c] # <<>> /\ ~outbuf[c][1].err
  \/ step[c] = "del" /\ (~waiting[c] \/ inbuf[c] # <<>>)

\* A detached service outlives the connection, unless somebody else deletes it.
Holds(c) ==
  /\ Claims(c) /\ ~exited
  /\ IF c \in Detaching THEN KeyOf[c] \notin removed ELSE conn[c] # "gone"

\* What a controller holds is on the list it goes by ...
Listed(c) == Holds(c) => KeyOf[c] \in IF c \in Detaching THEN detached ELSE own[c]

\* ... and is held by no other.
HeldByOne == \A c, d \in Client : c # d /\ Holds(c) /\ Holds(d) => KeyOf[c] # KeyOf[d]

\* Connections that are gone, and a relay that has exited, have no services.
GoneOwnsNothing ==
  /\ \A c \in Client : conn[c] = "gone" => own[c] = {}
  /\ exited => \A c \in Client : conn[c] = "gone"

\* The inductive invariant.
IInv ==
  /\ TypeOK
  /\ ListedOnce
  /\ GoneOwnsNothing
  /\ HeldByOne
  /\ \A c \in Client : OneAtATime(c) /\ SaidReady(c) /\ Listed(c)

-----------------------------------------------------------------------------
(* Commands and replies.                                                   *)

\* A line of a reply.
Line == [n : Nat, err : BOOLEAN, last : BOOLEAN, ready : BOOLEAN]

\* The steps in which a controller sends a command.
LEMMA CommandSteps ==
  /\ DOMAIN Command = {"auth", "auth_again", "add", "boot", "del"}
  /\ Command["auth"] = "AUTHENTICATE" /\ Command["auth_again"] = "AUTHENTICATE"
  /\ Command["add"] = "ADD_ONION" /\ Command["boot"] = "GETINFO" /\ Command["del"] = "DEL_ONION"
BY DEF Command

\* Lines that end with an OK are a reply without an error, and say that the
\* relay is ready where they are told to.
LEMMA LinesFacts ==
  ASSUME NEW n \in Nat, NEW oks, Len(oks) \in Nat \ {0},
         \A i \in 1..Len(oks) : oks[i] \in BOOLEAN
  PROVE  /\ Lines(n, oks) \in Seq(Line) /\ Lines(n, oks) # <<>>
         /\ Len(Lines(n, oks)) = Len(oks) /\ ReplyTo(n, Lines(n, oks))
         /\ \A i \in 1..Len(oks) : ~Lines(n, oks)[i].err /\ (Lines(n, oks)[i].ready => oks[i])
<1> DEFINE L == Lines(n, oks)
<1>1. \A i \in 1..Len(oks) : /\ L[i] \in Line /\ L[i].n = n /\ L[i].err = FALSE
                             /\ L[i].last = (i = Len(oks)) /\ L[i].ready = oks[i]
  BY DEF Lines, Line
<1>2. L \in Seq(Line) /\ Len(L) = Len(oks)
  BY <1>1 DEF Lines
<1> HIDE DEF L
<1>3. ASSUME NEW i \in 1..Len(oks)
      PROVE  ~L[i].err /\ (L[i].last => i = Len(oks)) /\ (L[i].ready => oks[i])
  BY <1>1
<1>4. L # <<>> /\ ReplyTo(n, L)
  BY <1>1, <1>2, <1>3 DEF ReplyTo
<1> QED
  BY <1>2, <1>3, <1>4 DEF L

\* An error is a reply of one line.
LEMMA ErrorFacts ==
  ASSUME NEW n \in Nat
  PROVE  /\ Error(n) \in Seq(Line) /\ Error(n) # <<>> /\ Len(Error(n)) = 1
         /\ ReplyTo(n, Error(n)) /\ Error(n)[1].err /\ ~Error(n)[1].ready
BY DEF Error, Line, ReplyTo

\* The replies of the handlers: lines that say that the relay is ready are
\* written when it is.
LEMMA OksFacts ==
  ASSUME ready \in BOOLEAN,
         NEW oks \in {<<FALSE>>, <<FALSE, FALSE>>, <<FALSE, FALSE, FALSE>>, <<ready, FALSE>>}
  PROVE  /\ Len(oks) \in Nat \ {0}
         /\ \A i \in 1..Len(oks) : oks[i] \in BOOLEAN /\ (oks[i] => ready)
<1>1. CASE oks = <<ready, FALSE>>
  <2>1. Len(oks) = 2 /\ oks[1] = ready /\ oks[2] = FALSE
    BY <1>1
  <2>2. oks[1] \in BOOLEAN /\ oks[2] \in BOOLEAN
    BY <2>1
  <2>3. \A i \in 1..Len(oks) : oks[i] \in BOOLEAN
    BY <2>1, <2>2
  <2>4. \A i \in 1..Len(oks) : oks[i] => ready
    BY <2>1
  <2> QED
    BY <2>1, <2>3, <2>4
<1>2. CASE oks = <<FALSE>>
  <2>1. Len(oks) = 1 /\ oks[1] = FALSE
    BY <1>2
  <2>2. oks[1] \in BOOLEAN
    BY <2>1
  <2>3. \A i \in 1..Len(oks) : oks[i] \in BOOLEAN
    BY <2>1, <2>2
  <2>4. \A i \in 1..Len(oks) : oks[i] => ready
    BY <2>1
  <2> QED
    BY <2>1, <2>3, <2>4
<1>3. CASE oks = <<FALSE, FALSE>>
  <2>1. Len(oks) = 2 /\ oks[1] = FALSE /\ oks[2] = FALSE
    BY <1>3
  <2>2. oks[1] \in BOOLEAN /\ oks[2] \in BOOLEAN
    BY <2>1
  <2>3. \A i \in 1..Len(oks) : oks[i] \in BOOLEAN
    BY <2>1, <2>2
  <2>4. \A i \in 1..Len(oks) : oks[i] => ready
    BY <2>1
  <2> QED
    BY <2>1, <2>3, <2>4
<1>4. CASE oks = <<FALSE, FALSE, FALSE>>
  <2>1. Len(oks) = 3 /\ oks[1] = FALSE /\ oks[2] = FALSE /\ oks[3] = FALSE
    BY <1>4
  <2>2. oks[1] \in BOOLEAN /\ oks[2] \in BOOLEAN /\ oks[3] \in BOOLEAN
    BY <2>1
  <2>3. \A i \in 1..Len(oks) : oks[i] \in BOOLEAN
    BY <2>1, <2>2
  <2>4. \A i \in 1..Len(oks) : oks[i] => ready
    BY <2>1
  <2> QED
    BY <2>1, <2>3, <2>4
<1> QED
  BY <1>1, <1>2, <1>3, <1>4

\* What a command that the relay takes from connection c does to it: the lines
\* are the reply to the present command.
Answered(c, lines) ==
  /\ conn[c] \in {"needauth", "open"} /\ inbuf[c] = <<Asked(c)>> /\ waiting[c]
  /\ step[c] \in DOMAIN Command /\ outbuf[c] = <<>>
  /\ inbuf' = [inbuf EXCEPT ![c] = <<>>]
  /\ lines \in Seq(Line) /\ lines # <<>> /\ ReplyTo(sent[c], lines)
  /\ outbuf' = [outbuf EXCEPT ![c] = lines]
  /\ UNCHANGED <<clientVars, authNeeded, exited, ready, drops>>
  /\ conn' \in {conn, [conn EXCEPT ![c] = "open"], [conn EXCEPT ![c] = "marked"]}
  /\ \A i \in 1..Len(lines) : lines[i].ready => ready

\* The relay answers the command it takes.
LEMMA RelayAnswers ==
  ASSUME TypeOK, NEW c \in Client, OneAtATime(c),
         Authenticate(c) \/ Refuse(c) \/ AddOnion(c) \/ Getinfo(c) \/ DelOnion(c)
  PROVE  \E lines : Answered(c, lines)
<1>1. \E name \in {"AUTHENTICATE", "ADD_ONION", "GETINFO", "DEL_ONION"} : Take(c, name)
  BY DEF Authenticate, Refuse, AddOnion, Getinfo, DelOnion
<1>2. /\ conn[c] \in {"needauth", "open"} /\ inbuf[c] # <<>>
      /\ inbuf' = [inbuf EXCEPT ![c] = Tail(@)]
  BY <1>1 DEF Take
<1>3. /\ inbuf[c] = <<Asked(c)>> /\ waiting[c] /\ outbuf[c] = <<>> /\ step[c] \in DOMAIN Command
      /\ inbuf \in [Client -> Seq([n : Nat, name : {Command[s] : s \in DOMAIN Command}])]
      /\ outbuf \in [Client -> Seq(Line)] /\ sent[c] \in Nat
  BY <1>2 DEF OneAtATime, TypeOK, Line
<1>4. inbuf' = [inbuf EXCEPT ![c] = <<>>] /\ Number(c) = sent[c]
  BY <1>2, <1>3 DEF Number, Asked
<1>5. ASSUME NEW lines \in Seq(Line), Write(c, lines)
      PROVE  outbuf' = [outbuf EXCEPT ![c] = lines]
  BY <1>3, <1>5 DEF Write
<1>6. UNCHANGED <<clientVars, authNeeded, exited, ready, drops>>
  BY DEF Authenticate, Refuse, AddOnion, Getinfo, DelOnion
<1>7. conn' \in {conn, [conn EXCEPT ![c] = "open"], [conn EXCEPT ![c] = "marked"]}
  BY DEF Authenticate, Refuse, AddOnion, Getinfo, DelOnion
<1>8. \E lines : /\ Write(c, lines) /\ lines \in Seq(Line) /\ lines # <<>>
                 /\ ReplyTo(sent[c], lines)
                 /\ \A i \in 1..Len(lines) : lines[i].ready => ready
  <2>1. ASSUME Write(c, Error(sent[c]))
        PROVE  \E lines : /\ Write(c, lines) /\ lines \in Seq(Line) /\ lines # <<>>
                          /\ ReplyTo(sent[c], lines)
                          /\ \A i \in 1..Len(lines) : lines[i].ready => ready
    <3>1. \A i \in 1..Len(Error(sent[c])) : ~Error(sent[c])[i].ready
      BY <1>3, ErrorFacts
    <3> QED
      BY <1>3, <2>1, <3>1, ErrorFacts
  <2>2. ASSUME NEW oks \in {<<FALSE>>, <<FALSE, FALSE>>, <<FALSE, FALSE, FALSE>>, <<ready, FALSE>>},
               Write(c, Lines(sent[c], oks))
        PROVE  \E lines : /\ Write(c, lines) /\ lines \in Seq(Line) /\ lines # <<>>
                          /\ ReplyTo(sent[c], lines)
                          /\ \A i \in 1..Len(lines) : lines[i].ready => ready
    <3>1. /\ Len(oks) \in Nat \ {0}
          /\ \A i \in 1..Len(oks) : oks[i] \in BOOLEAN /\ (oks[i] => ready)
      BY OksFacts DEF TypeOK
    <3>2. \A i \in 1..Len(Lines(sent[c], oks)) : Lines(sent[c], oks)[i].ready => ready
      BY <1>3, <3>1, LinesFacts
    <3> QED
      BY <1>3, <2>2, <3>1, <3>2, LinesFacts
  <2>3. CASE Authenticate(c)
    BY <1>4, <2>1, <2>2, <2>3 DEF Authenticate
  <2>4. CASE Refuse(c)
    BY <1>4, <2>1, <2>4 DEF Refuse
  <2>5. CASE AddOnion(c)
    BY <1>4, <2>1, <2>2, <2>5 DEF AddOnion
  <2>6. CASE Getinfo(c)
    BY <1>4, <2>1, <2>2, <2>6 DEF Getinfo
  <2>7. CASE DelOnion(c)
    BY <1>4, <2>1, <2>2, <2>7 DEF DelOnion
  <2> QED
    BY <2>3, <2>4, <2>5, <2>6, <2>7
<1> QED
  BY <1>2, <1>3, <1>4, <1>5, <1>6, <1>7, <1>8 DEF Answered

-----------------------------------------------------------------------------
(* What a step does to one controller.                                     *)

\* Nothing that is kept for controller d changes.
Apart(d) ==
  /\ step'[d] = step[d] /\ waiting'[d] = waiting[d] /\ sent'[d] = sent[d]
  /\ ready100'[d] = ready100[d] /\ conn'[d] = conn[d]
  /\ inbuf'[d] = inbuf[d] /\ outbuf'[d] = outbuf[d]

\* A step of or for one controller leaves the others alone.
LEMMA OthersApart ==
  ASSUME TypeOK, NEW c \in Client, NEW d \in Client \ {c},
         ClientStep(c) \/ Shutdown(c) \/ RelayStep(c) \/ Drop(c)
  PROVE  Apart(d)
<1> USE DEF clientVars, wireVars
<1>0. /\ step \in [Client -> Step] /\ waiting \in [Client -> BOOLEAN] /\ sent \in [Client -> Nat]
      /\ ready100 \in [Client -> BOOLEAN]
      /\ conn \in [Client -> {"needauth", "open", "marked", "gone"}]
      /\ inbuf \in [Client -> Seq([n : Nat, name : {Command[s] : s \in DOMAIN Command}])]
      /\ outbuf \in [Client -> Seq(Line)]
  BY DEF TypeOK, Line
<1>1. CASE Send(c)
  BY <1>0, <1>1 DEF Send, Apart
<1>2. CASE ReadLine(c)
  BY <1>0, <1>2 DEF ReadLine, Apart
<1>3. CASE ReadEof(c) \/ Deadline(c) \/ Shutdown(c)
  BY <1>0, <1>3 DEF ReadEof, Deadline, Shutdown, Apart
<1>4. CASE Authenticate(c) \/ Refuse(c) \/ AddOnion(c) \/ Getinfo(c) \/ DelOnion(c)
  BY <1>0, <1>4 DEF Authenticate, Refuse, AddOnion, Getinfo, DelOnion, Take, Write, Apart
<1>5. CASE CloseMarked(c) \/ Drop(c)
  BY <1>0, <1>5 DEF CloseMarked, Drop, CloseConn, Apart
<1> QED
  BY <1>1, <1>2, <1>3, <1>4, <1>5 DEF ClientStep, RelayStep

\* What is left of a sequence of lines when the first is read.
LEMMA TailFacts ==
  ASSUME NEW s \in Seq(Line), s # <<>>
  PROVE  /\ Tail(s) \in Seq(Line) /\ Len(s) \in Nat /\ Len(s) >= 1 /\ Len(Tail(s)) = Len(s) - 1
         /\ \A i \in 1..(Len(s) - 1) : Tail(s)[i] = s[i + 1]
         /\ Len(s) = 1 => Tail(s) = <<>>
<1>1. /\ Tail(s) \in Seq(Line) /\ Len(s) \in Nat /\ Len(s) >= 1 /\ Len(Tail(s)) = Len(s) - 1
      /\ \A i \in 1..(Len(s) - 1) : Tail(s)[i] = s[i + 1]
  OBVIOUS
<1>2. Len(s) = 1 => Tail(s) = <<>>
  <2>1. Tail(s) # <<>> => Len(Tail(s)) \in Nat \ {0}
    BY <1>1, EmptySeq
  <2> QED
    BY <1>1, <2>1
<1> QED
  BY <1>1, <1>2

\* What a line that is read does: a reply that ends leaves nothing behind.
LEMMA ReadLineFacts ==
  ASSUME TypeOK, NEW c \in Client, OneAtATime(c), ReadLine(c)
  PROVE  /\ waiting[c] /\ step[c] \in DOMAIN Command /\ inbuf[c] = <<>> /\ inbuf' = inbuf
         /\ outbuf[c] # <<>> /\ outbuf'[c] = Tail(outbuf[c]) /\ outbuf[c] \in Seq(Line)
         /\ UNCHANGED <<sent, conn, serviceVars, exited, ready>>
         /\ ready100'[c] = (ready100[c] \/ outbuf[c][1].ready)
         /\ \/ ~outbuf[c][1].err /\ waiting'[c] /\ step'[c] = step[c]
            \/ /\ ~waiting'[c] /\ outbuf'[c] = <<>>
               /\ \/ outbuf[c][1].err /\ step'[c] = OnError(step[c])
                  \/ ~outbuf[c][1].err /\ step'[c] = OnReply(c, step[c], ready100'[c])
<1>0. /\ step \in [Client -> Step] /\ waiting \in [Client -> BOOLEAN]
      /\ ready100 \in [Client -> BOOLEAN] /\ outbuf \in [Client -> Seq(Line)]
  BY DEF TypeOK, Line
<1>1. PICK line \in Line : line = Head(outbuf[c]) /\ line = outbuf[c][1]
  BY <1>0 DEF ReadLine
<1>2. /\ waiting[c] /\ outbuf[c] # <<>>
      /\ outbuf' = [outbuf EXCEPT ![c] = Tail(@)]
      /\ ready100' = [ready100 EXCEPT ![c] = ready100[c] \/ line.ready]
      /\ waiting' = [waiting EXCEPT ![c] = ~(line.err \/ line.last)]
      /\ step' = [step EXCEPT ![c] = IF line.err THEN OnError(@)
                                     ELSE IF line.last THEN OnReply(c, @, ready100[c] \/ line.ready) ELSE @]
      /\ UNCHANGED <<inbuf, sent, conn, serviceVars, exited, ready>>
  BY <1>1 DEF ReadLine
<1>3. step[c] \in DOMAIN Command /\ inbuf[c] = <<>>
  BY <1>2 DEF OneAtATime
<1>4. /\ outbuf'[c] = Tail(outbuf[c]) /\ outbuf[c] \in Seq(Line)
      /\ ready100'[c] = (ready100[c] \/ line.ready)
  BY <1>0, <1>2
<1>5. line.err \/ line.last => outbuf'[c] = <<>>
  <2>1. 1 \in 1..Len(outbuf[c]) /\ Len(outbuf[c]) \in Nat
    BY <1>2, <1>4
  <2>2. outbuf[c][1].err \/ outbuf[c][1].last => 1 = Len(outbuf[c])
    BY <2>1 DEF OneAtATime, ReplyTo
  <2>3. 1 = Len(outbuf[c]) => Tail(outbuf[c]) = <<>>
    BY <1>2, <1>4, TailFacts
  <2> QED
    BY <1>1, <1>4, <2>2, <2>3
<1>6. waiting'[c] <=> ~(line.err \/ line.last)
  BY <1>0, <1>2
<1>7. step'[c] = IF line.err THEN OnError(step[c])
                 ELSE IF line.last THEN OnReply(c, step[c], ready100'[c]) ELSE step[c]
  BY <1>0, <1>2, <1>4
<1> QED
  BY <1>1, <1>2, <1>3, <1>4, <1>5, <1>6, <1>7

-----------------------------------------------------------------------------
(* The wire.                                                               *)

\* Commands and lines stay those of the present command, and ready means it.
LEMMA WireKept ==
  ASSUME TypeOK, [Next]_vars, NEW d \in Client, OneAtATime(d), SaidReady(d)
  PROVE  OneAtATime(d)' /\ SaidReady(d)'
<1> USE DEF clientVars, wireVars
<1>0. /\ step \in [Client -> Step] /\ waiting \in [Client -> BOOLEAN] /\ sent \in [Client -> Nat]
      /\ ready100 \in [Client -> BOOLEAN] /\ ready \in BOOLEAN
      /\ conn \in [Client -> {"needauth", "open", "marked", "gone"}]
      /\ inbuf \in [Client -> Seq([n : Nat, name : {Command[s] : s \in DOMAIN Command}])]
      /\ outbuf \in [Client -> Seq(Line)]
  BY DEF TypeOK, Line
<1>1. ASSUME Apart(d), ready => ready'
      PROVE  OneAtATime(d)' /\ SaidReady(d)'
  BY <1>1 DEF Apart, OneAtATime, SaidReady, ReplyTo, Asked
<1>2. CASE UNCHANGED vars
  BY <1>1, <1>2 DEF vars, Apart
<1>3. CASE Send(d)
  <2>1. /\ ~waiting[d] /\ step[d] \in DOMAIN Command /\ step' = step /\ waiting'[d] = TRUE
        /\ sent'[d] = sent[d] + 1 /\ ready100'[d] = FALSE
        /\ outbuf' = outbuf /\ conn' = conn /\ ready' = ready
        /\ inbuf'[d] = IF conn[d] = "gone" THEN inbuf[d]
                       ELSE Append(inbuf[d], [n |-> sent[d] + 1, name |-> Command[step[d]]])
    BY <1>0, <1>3 DEF Send
  <2>2. inbuf[d] = <<>> /\ outbuf[d] = <<>>
    BY <2>1 DEF OneAtATime
  <2>3. inbuf'[d] = IF conn[d] = "gone" THEN <<>> ELSE <<Asked(d)'>>
    BY <2>1, <2>2 DEF Asked
  <2>4. Len(outbuf'[d]) = 0
    BY <2>1, <2>2
  <2>5. OneAtATime(d)'
    BY <2>1, <2>2, <2>3, <2>4 DEF OneAtATime, ReplyTo
  <2>6. SaidReady(d)'
    BY <2>1, <2>4 DEF SaidReady
  <2> QED
    BY <2>5, <2>6
<1>4. CASE ReadLine(d)
  <2>9. /\ inbuf'[d] = <<>> /\ sent' = sent /\ ready' = ready
        /\ outbuf'[d] = Tail(outbuf[d]) /\ outbuf[d] # <<>> /\ outbuf[d] \in Seq(Line)
    BY <1>4, ReadLineFacts
  <2>1. /\ Len(outbuf'[d]) = Len(outbuf[d]) - 1 /\ Len(outbuf[d]) \in Nat /\ Len(outbuf[d]) >= 1
        /\ \A i \in 1..(Len(outbuf[d]) - 1) : outbuf'[d][i] = outbuf[d][i + 1]
    BY <2>9, TailFacts
  <2>2. \A i \in 1..(Len(outbuf[d]) - 1) :
           /\ i + 1 \in 1..Len(outbuf[d])
           /\ i + 1 = Len(outbuf[d]) => i = Len(outbuf'[d])
    BY <2>1
  <2>3. ReplyTo(sent[d], outbuf[d])'
    BY <2>1, <2>2, <2>9 DEF OneAtATime, ReplyTo
  <2>4. \A i \in 1..Len(outbuf'[d]) : outbuf'[d][i].ready => ready'
    BY <2>1, <2>2, <2>9 DEF SaidReady
  <2>5. (waiting'[d] => step'[d] = step[d] /\ step[d] \in DOMAIN Command)
        /\ (outbuf'[d] # <<>> => waiting'[d])
    BY <1>4, ReadLineFacts
  <2>6. OneAtATime(d)'
    BY <2>3, <2>5, <2>9 DEF OneAtATime
  <2>7. ready100'[d] => ready
    <3>1. 1 \in 1..Len(outbuf[d])
      BY <2>1
    <3> QED
      BY <1>4, <3>1, ReadLineFacts DEF SaidReady
  <2>8. d \in Polling /\ step'[d] \in {"up", "del", "closed"} => ready
    <3>1. step'[d] \in {step[d], OnError(step[d]), OnReply(d, step[d], ready100'[d])}
          /\ step[d] \in DOMAIN Command
      BY <1>4, ReadLineFacts
    <3>2. OnError(step[d]) \in {"up", "del", "closed"} => step[d] = "del"
      BY DEF OnError
    <3>3. d \in Polling /\ OnReply(d, step[d], ready100'[d]) \in {"up", "del", "closed"}
            => step[d] = "del" \/ ready100'[d]
      BY <3>1, CommandSteps DEF OnReply
    <3> QED
      BY <2>7, <3>1, <3>2, <3>3 DEF SaidReady
  <2> QED
    BY <2>4, <2>6, <2>7, <2>8, <2>9 DEF SaidReady
<1>5. CASE ReadEof(d) \/ Deadline(d) \/ Shutdown(d)
  <2>1. /\ UNCHANGED <<sent, ready100, conn, inbuf, outbuf, ready>>
        /\ step'[d] \in {OnError(step[d]), "failed"} \/ (step[d] = "up" /\ step'[d] = "del")
    BY <1>0, <1>5 DEF ReadEof, Deadline, Shutdown
  <2>2. inbuf[d] = <<>> /\ outbuf[d] = <<>> /\ ~waiting'[d]
    <3>1. CASE ReadEof(d)
      BY <1>0, <3>1 DEF ReadEof, OneAtATime
    <3>2. CASE Deadline(d)
      BY <1>0, <3>2 DEF Deadline, OneAtATime
    <3>3. CASE Shutdown(d)
      BY <1>0, <3>3, CommandSteps DEF Shutdown, OneAtATime
    <3> QED
      BY <1>5, <3>1, <3>2, <3>3
  <2>3. OneAtATime(d)'
    BY <2>1, <2>2 DEF OneAtATime, ReplyTo
  <2>4. OnError(step[d]) \in {"up", "del", "closed"} => step[d] = "del"
    BY DEF OnError
  <2>5. SaidReady(d)'
    BY <2>1, <2>4 DEF SaidReady
  <2> QED
    BY <2>3, <2>5
<1>6. CASE Authenticate(d) \/ Refuse(d) \/ AddOnion(d) \/ Getinfo(d) \/ DelOnion(d)
  <2>1. PICK lines : Answered(d, lines)
    BY <1>6, RelayAnswers
  <2>2. /\ inbuf'[d] = <<>> /\ outbuf'[d] = lines /\ waiting'[d] /\ step'[d] = step[d]
        /\ step[d] \in DOMAIN Command /\ sent' = sent /\ ready100' = ready100 /\ ready' = ready
        /\ ReplyTo(sent[d], lines)
        /\ \A i \in 1..Len(lines) : lines[i].ready => ready
    BY <1>0, <2>1 DEF Answered
  <2>3. OneAtATime(d)'
    BY <2>2 DEF OneAtATime, ReplyTo
  <2>4. SaidReady(d)'
    BY <2>2 DEF SaidReady
  <2> QED
    BY <2>3, <2>4
<1>7. CASE CloseMarked(d) \/ Drop(d)
  <2>1. /\ UNCHANGED <<clientVars, ready>> /\ inbuf'[d] = <<>>
        /\ \E i \in 0..Len(outbuf[d]) : outbuf'[d] = SubSeq(outbuf[d], 1, i)
    BY <1>0, <1>7 DEF CloseMarked, Drop, CloseConn
  <2>2. PICK k \in 0..Len(outbuf[d]) : outbuf'[d] = SubSeq(outbuf[d], 1, k)
    BY <2>1
  <2>3. /\ Len(outbuf[d]) \in Nat /\ Len(outbuf'[d]) = k /\ k <= Len(outbuf[d])
        /\ \A i \in 1..k : outbuf'[d][i] = outbuf[d][i] /\ i \in 1..Len(outbuf[d])
    BY <1>0, <2>2
  <2>4. ReplyTo(sent[d], outbuf[d])'
    BY <2>1, <2>3 DEF OneAtATime, ReplyTo
  <2>5. outbuf'[d] # <<>> => outbuf[d] # <<>>
    BY <1>0, <2>2, <2>3
  <2>6. OneAtATime(d)'
    BY <2>1, <2>4, <2>5 DEF OneAtATime
  <2>7. SaidReady(d)'
    BY <2>1, <2>3 DEF SaidReady
  <2> QED
    BY <2>6, <2>7
<1>8. ASSUME NEW c \in Client \ {d},
             ClientStep(c) \/ Shutdown(c) \/ RelayStep(c) \/ Drop(c)
      PROVE  OneAtATime(d)' /\ SaidReady(d)'
  <2>1. ready' = ready
    BY <1>8 DEF ClientStep, RelayStep, Send, ReadLine, ReadEof, Deadline, Shutdown, Authenticate,
       Refuse, AddOnion, Getinfo, DelOnion, CloseMarked, Drop
  <2> QED
    BY <1>1, <1>8, <2>1, OthersApart
<1>9. CASE RelayExits
  <2>1. /\ UNCHANGED <<clientVars, outbuf, ready>> /\ inbuf'[d] = <<>>
    BY <1>9 DEF RelayExits
  <2> QED
    BY <2>1 DEF OneAtATime, SaidReady, ReplyTo
<1>10. CASE Bootstrapped
  BY <1>1, <1>10 DEF Bootstrapped, Apart
<1> QED
  BY <1>2, <1>3, <1>4, <1>5, <1>6, <1>7, <1>8, <1>9, <1>10 DEF Next, ClientStep, RelayStep

-----------------------------------------------------------------------------
(* Services.                                                               *)

\* The relay adds the service of controller c.
Adds(c) == /\ AddOnion(c) /\ ~Collides(KeyOf[c])
           /\ services' = services \cup {KeyOf[c]}
           /\ detached' = IF c \in Detaching THEN detached \cup {KeyOf[c]} ELSE detached
           /\ own' = IF c \in Detaching THEN own ELSE [own EXCEPT ![c] = @ \cup {KeyOf[c]}]
           /\ removed' = removed

\* It removes service k for it.
Removes(c, k) ==
  /\ DelOnion(c) /\ k \in Named(c) /\ k \in own[c] \cup detached
  /\ services' = services \ {k}
  /\ own' = [own EXCEPT ![c] = @ \ {k}]
  /\ detached' = IF k \in own[c] THEN detached ELSE detached \ {k}
  /\ removed' = IF c \in Detaching \/ k \in own[c] THEN removed ELSE removed \cup {k}

\* A controller that waits for ADD_ONION gets an error unless it was added.
LEMMA AddAnswered ==
  ASSUME TypeOK, NEW c \in Client, OneAtATime(c), step[c] = "add",
         Authenticate(c) \/ Refuse(c) \/ AddOnion(c) \/ Getinfo(c) \/ DelOnion(c)
  PROVE  Adds(c) \/ outbuf'[c][1].err
<1>1. PICK lines : Answered(c, lines)
  BY RelayAnswers
<1>2. /\ inbuf[c] = <<Asked(c)>> /\ sent[c] \in Nat /\ outbuf[c] = <<>>
      /\ outbuf \in [Client -> Seq(Line)]
  BY <1>1 DEF Answered, TypeOK, Line
<1>3. Head(inbuf[c]).name = "ADD_ONION" /\ Number(c) = sent[c]
  BY <1>2, CommandSteps DEF Asked, Number
<1>4. Refuse(c) \/ AddOnion(c)
  BY <1>3 DEF Authenticate, Getinfo, DelOnion, Take
<1>5. Adds(c) \/ Write(c, Error(sent[c]))
  BY <1>3, <1>4 DEF Refuse, AddOnion, Adds
<1>6. ASSUME Write(c, Error(sent[c])) PROVE outbuf'[c][1].err
  <2>1. outbuf'[c] = Error(sent[c])
    BY <1>2, <1>6, ErrorFacts DEF Write
  <2> QED
    BY <1>2, <2>1, ErrorFacts
<1> QED
  BY <1>5, <1>6

\* Nobody comes to believe in a service that was not added.
LEMMA ClaimsFacts ==
  ASSUME TypeOK, [Next]_vars, NEW d \in Client, OneAtATime(d), Claims(d)'
  PROVE  (Claims(d) \/ Adds(d)) /\ ~DelOnion(d)
<1> USE DEF clientVars, wireVars
<1>0. /\ step \in [Client -> Step] /\ waiting \in [Client -> BOOLEAN]
      /\ inbuf \in [Client -> Seq([n : Nat, name : {Command[s] : s \in DOMAIN Command}])]
      /\ outbuf \in [Client -> Seq(Line)]
  BY DEF TypeOK, Line
<1>1. ASSUME Apart(d) PROVE Claims(d)
  BY <1>1 DEF Apart, Claims
<1>2. ~DelOnion(d)
  <2> SUFFICES ASSUME DelOnion(d) PROVE FALSE
    OBVIOUS
  <2>1. PICK lines : Answered(d, lines)
    BY RelayAnswers
  <2>2. /\ inbuf[d] = <<Asked(d)>> /\ step[d] \in DOMAIN Command /\ waiting'[d]
        /\ step'[d] = step[d] /\ inbuf'[d] = <<>>
    BY <1>0, <2>1 DEF Answered
  <2>3. Command[step[d]] = "DEL_ONION"
    BY <2>2 DEF DelOnion, Take, Asked
  <2>4. step[d] = "del"
    BY <2>2, <2>3, CommandSteps
  <2> QED
    BY <2>2, <2>4 DEF Claims
<1>3. CASE UNCHANGED vars
  BY <1>1, <1>2, <1>3 DEF vars, Apart
<1>4. CASE Send(d)
  <2>1. ~waiting[d] /\ step' = step /\ outbuf' = outbuf
    BY <1>4 DEF Send
  <2> QED
    BY <1>2, <2>1 DEF Claims
<1>5. CASE ReadLine(d)
  <2>1. CASE ~outbuf[d][1].err /\ waiting'[d] /\ step'[d] = step[d]
    BY <1>2, <1>5, <2>1, ReadLineFacts DEF Claims
  <2>2. CASE /\ ~waiting'[d] /\ outbuf'[d] = <<>>
             /\ outbuf[d][1].err /\ step'[d] = OnError(step[d])
    BY <1>2, <2>2 DEF Claims, OnError
  <2>3. CASE /\ ~waiting'[d] /\ outbuf'[d] = <<>>
             /\ ~outbuf[d][1].err /\ step'[d] = OnReply(d, step[d], ready100'[d])
    <3>1. step[d] \in DOMAIN Command /\ outbuf[d] # <<>>
      BY <1>5, ReadLineFacts
    <3>2. step'[d] \in {"boot", "up"} => step[d] \in {"add", "boot"}
      BY <2>3, <3>1, CommandSteps DEF OnReply
    <3>3. step'[d] # "del"
      BY <2>3, <3>1, CommandSteps DEF OnReply
    <3> QED
      BY <1>2, <2>3, <3>1, <3>2, <3>3 DEF Claims
  <2> QED
    BY <1>5, <2>1, <2>2, <2>3, ReadLineFacts
<1>6. CASE ReadEof(d)
  <2>1. step'[d] = OnError(step[d]) /\ outbuf'[d] = <<>>
    BY <1>0, <1>6 DEF ReadEof
  <2> QED
    BY <1>2, <2>1 DEF Claims, OnError
<1>7. CASE Deadline(d) \/ Shutdown(d)
  <2>1. step'[d] = "failed" \/ (step[d] = "up" /\ step'[d] = "del")
    BY <1>0, <1>7 DEF Deadline, Shutdown
  <2> QED
    BY <1>2, <2>1 DEF Claims
<1>8. CASE Authenticate(d) \/ Refuse(d) \/ AddOnion(d) \/ Getinfo(d)
  <2>1. PICK lines : Answered(d, lines)
    BY <1>8, RelayAnswers
  <2>2. waiting'[d] /\ step'[d] = step[d] /\ inbuf'[d] = <<>>
    BY <1>0, <2>1 DEF Answered
  <2> QED
    BY <1>2, <1>8, <2>2, AddAnswered DEF Claims
<1>9. CASE CloseMarked(d) \/ Drop(d)
  <2>1. /\ UNCHANGED clientVars /\ inbuf'[d] = <<>>
        /\ \E i \in 0..Len(outbuf[d]) : outbuf'[d] = SubSeq(outbuf[d], 1, i)
    BY <1>0, <1>9 DEF CloseMarked, Drop, CloseConn
  <2>2. outbuf'[d] # <<>> => outbuf[d] # <<>> /\ outbuf'[d][1] = outbuf[d][1]
    BY <1>0, <2>1
  <2> QED
    BY <1>2, <2>1, <2>2 DEF Claims
<1>10. ASSUME NEW c \in Client \ {d},
              ClientStep(c) \/ Shutdown(c) \/ RelayStep(c) \/ Drop(c)
       PROVE  Claims(d)
  BY <1>1, <1>10, OthersApart
<1>11. CASE RelayExits
  BY <1>2, <1>11 DEF RelayExits, Claims
<1>12. CASE Bootstrapped
  BY <1>1, <1>2, <1>12 DEF Bootstrapped, Apart
<1> QED
  BY <1>2, <1>3, <1>4, <1>5, <1>6, <1>7, <1>8, <1>9, <1>10, <1>11, <1>12
     DEF Next, ClientStep, RelayStep

\* Which steps change services or close connections.
LEMMA ServiceSteps ==
  ASSUME TypeOK, [Next]_vars
  PROVE  \/ /\ UNCHANGED <<serviceVars, exited>>
            /\ \A d \in Client : conn'[d] = "gone" <=> conn[d] = "gone"
         \/ RelayExits
         \/ \E c \in Client : /\ \/ Adds(c) \/ CloseMarked(c) \/ Drop(c)
                                 \/ \E k \in Key : Removes(c, k)
                              /\ exited' = exited
<1>0. conn \in [Client -> {"needauth", "open", "marked", "gone"}]
  BY DEF TypeOK
<1>1. CASE UNCHANGED vars
  BY <1>1 DEF vars
<1>2. ASSUME NEW c \in Client, ClientStep(c) \/ Shutdown(c)
      PROVE  UNCHANGED <<serviceVars, exited, conn>>
  BY <1>2 DEF ClientStep, Send, ReadLine, ReadEof, Deadline, Shutdown
<1>3. ASSUME NEW c \in Client,
             Authenticate(c) \/ Refuse(c) \/ Getinfo(c) \/ AddOnion(c) \/ DelOnion(c),
             ~Adds(c), ~\E k \in Key : Removes(c, k)
      PROVE  /\ UNCHANGED <<serviceVars, exited>>
             /\ \A d \in Client : conn'[d] = "gone" <=> conn[d] = "gone"
  <2>1. UNCHANGED <<serviceVars, exited>>
    <3>1. CASE Authenticate(c) \/ Refuse(c) \/ Getinfo(c)
      BY <3>1 DEF Authenticate, Refuse, Getinfo
    <3>2. CASE AddOnion(c)
      BY <1>3, <3>2 DEF AddOnion, Adds
    <3>3. CASE DelOnion(c)
      <4>1. PICK k \in Named(c) : DelOnion(c)!3!(k)
        BY <3>3 DEF DelOnion
      <4>2. k \in Key
        BY <4>1 DEF Named, Key
      <4> QED
        BY <1>3, <3>3, <4>1, <4>2 DEF DelOnion, Removes
    <3> QED
      BY <1>3, <3>1, <3>2, <3>3
  <2>2. /\ conn[c] \in {"needauth", "open"}
        /\ conn' \in {conn, [conn EXCEPT ![c] = "open"], [conn EXCEPT ![c] = "marked"]}
    BY <1>3 DEF Authenticate, Refuse, Getinfo, AddOnion, DelOnion, Take
  <2> QED
    BY <1>0, <2>1, <2>2
<1>4. ASSUME NEW c \in Client,
             Adds(c) \/ CloseMarked(c) \/ Drop(c) \/ \E k \in Key : Removes(c, k)
      PROVE  exited' = exited
  BY <1>4 DEF Adds, AddOnion, Removes, DelOnion, CloseMarked, Drop
<1>5. CASE Bootstrapped
  BY <1>5 DEF Bootstrapped
<1> QED
  BY <1>1, <1>2, <1>3, <1>4, <1>5 DEF Next, RelayStep

\* The lists, element by element.
LEMMA ListedElements ==
  ListedOnce <=>
    /\ \A k : k \in services <=> k \in detached \/ \E c \in Client : k \in own[c]
    /\ \A c \in Client : \A k \in own[c] : k \notin detached
    /\ \A c, d \in Client : c # d => \A k \in own[c] : k \notin own[d]
BY DEF ListedOnce

\* The lists of services stay in step with the services and with what the
\* controllers hold.
LEMMA ServicesKept ==
  ASSUME IInv, [Next]_vars
  PROVE  ListedOnce' /\ GoneOwnsNothing' /\ HeldByOne' /\ \A d \in Client : Listed(d)'
<1>0. /\ TypeOK /\ own \in [Client -> SUBSET Key]
      /\ conn \in [Client -> {"needauth", "open", "marked", "gone"}]
      /\ \A d \in Client : OneAtATime(d) /\ Listed(d)
  BY DEF IInv, TypeOK
<1>1. /\ \A k : k \in services <=> k \in detached \/ \E c \in Client : k \in own[c]
      /\ \A c \in Client : \A k \in own[c] : k \notin detached
      /\ \A c, d \in Client : c # d => \A k \in own[c] : k \notin own[d]
  BY ListedElements DEF IInv
<1>2. ASSUME NEW d \in Client, Holds(d) PROVE KeyOf[d] \in services
  BY <1>0, <1>1, <1>2 DEF Listed
<1>3. ASSUME NEW d \in Client, Claims(d)'
      PROVE  (Claims(d) \/ Adds(d)) /\ ~DelOnion(d)
  BY <1>0, <1>3, ClaimsFacts
<1>4. CASE /\ UNCHANGED <<serviceVars, exited>>
           /\ \A d \in Client : conn'[d] = "gone" <=> conn[d] = "gone"
           /\ ~\E c \in Client : Adds(c)
  <2>1. \A d \in Client : Holds(d)' => Holds(d)
    BY <1>3, <1>4 DEF Holds, serviceVars
  <2>2. UNCHANGED <<services, detached, own, exited, removed>>
    BY <1>4 DEF serviceVars
  <2>3. ListedOnce' /\ GoneOwnsNothing'
    BY <1>4, <2>2 DEF IInv, ListedOnce, GoneOwnsNothing
  <2>4. HeldByOne' /\ \A d \in Client : Listed(d)'
    BY <2>1, <2>2 DEF IInv, HeldByOne, Listed
  <2> QED
    BY <2>3, <2>4
<1>5. CASE RelayExits
  <2>1. /\ exited' = TRUE /\ services' = {} /\ detached' = {}
        /\ \A c \in Client : own'[c] = {} /\ conn'[c] = "gone"
    BY <1>5 DEF RelayExits
  <2>2. ListedOnce'
    BY <2>1 DEF ListedOnce
  <2> QED
    BY <2>1, <2>2 DEF GoneOwnsNothing, HeldByOne, Listed, Holds
<1>6. ASSUME NEW c \in Client, Adds(c), exited' = exited
      PROVE  ListedOnce' /\ GoneOwnsNothing' /\ HeldByOne' /\ \A d \in Client : Listed(d)'
  <2> DEFINE k == KeyOf[c]
  <2>1. /\ k \notin services /\ conn[c] = "open" /\ conn' = conn
        /\ services' = services \cup {k}
        /\ detached' = IF c \in Detaching THEN detached \cup {k} ELSE detached
        /\ own' = IF c \in Detaching THEN own ELSE [own EXCEPT ![c] = @ \cup {k}]
        /\ removed' = removed
    BY <1>6 DEF Adds, AddOnion, Collides
  <2>2. /\ \A d \in Client : own'[d] = IF d = c /\ c \notin Detaching THEN own[d] \cup {k} ELSE own[d]
        /\ k \notin detached /\ \A d \in Client : k \notin own[d]
    BY <1>0, <1>1, <2>1
  <2>3. \A j : j \in services' <=> j \in detached' \/ \E d \in Client : j \in own'[d]
    BY <1>1, <2>1, <2>2
  <2>4. /\ \A d \in Client : \A j \in own'[d] : j \notin detached'
        /\ \A d, e \in Client : d # e => \A j \in own'[d] : j \notin own'[e]
    BY <1>1, <2>1, <2>2
  <2>5. ListedOnce'
    BY <2>3, <2>4 DEF ListedOnce
  <2>6. GoneOwnsNothing'
    BY <1>6, <2>1, <2>2 DEF IInv, GoneOwnsNothing
  <2>7. ASSUME NEW d \in Client \ {c}, Holds(d)' PROVE Holds(d)
    <3>1. ~Adds(d)
      <4> SUFFICES ASSUME Adds(d) PROVE FALSE
        OBVIOUS
      <4>1. Apart(d)
        BY <1>0, <1>6, OthersApart DEF Adds, RelayStep
      <4>2. PICK lines : Answered(d, lines)
        BY <1>0, RelayAnswers DEF Adds
      <4>3. inbuf'[d] = <<>> /\ inbuf[d] # <<>>
        BY <1>0, <4>2 DEF Answered, TypeOK
      <4> QED
        BY <4>1, <4>3 DEF Apart
    <3> QED
      BY <1>3, <1>6, <2>1, <2>7, <3>1 DEF Holds
  <2>8. ASSUME NEW d \in Client PROVE Listed(d)'
    <3>1. CASE d = c
      BY <2>1, <2>2, <3>1 DEF Listed
    <3>2. CASE d # c
      BY <1>0, <2>1, <2>2, <2>7, <3>2 DEF Listed
    <3> QED
      BY <3>1, <3>2
  <2>9. HeldByOne'
    <3>1. ASSUME NEW d \in Client \ {c}, Holds(d)' PROVE KeyOf[d] # k
      BY <1>2, <2>1, <2>7, <3>1
    <3> QED
      BY <2>7, <3>1 DEF IInv, HeldByOne
  <2> QED
    BY <2>5, <2>6, <2>8, <2>9
<1>7. ASSUME NEW c \in Client, NEW k \in Key, Removes(c, k), exited' = exited
      PROVE  ListedOnce' /\ GoneOwnsNothing' /\ HeldByOne' /\ \A d \in Client : Listed(d)'
  <2>1. /\ conn[c] = "open" /\ conn' = conn
        /\ k \in own[c] \cup detached
        /\ services' = services \ {k}
        /\ own' = [own EXCEPT ![c] = @ \ {k}]
        /\ detached' = IF k \in own[c] THEN detached ELSE detached \ {k}
        /\ removed' = IF c \in Detaching \/ k \in own[c] THEN removed ELSE removed \cup {k}
    BY <1>7 DEF Removes, DelOnion
  <2>2. \A d \in Client : own'[d] = IF d = c THEN own[d] \ {k} ELSE own[d]
    BY <1>0, <2>1
  <2>3. /\ k \notin detached' /\ \A d \in Client : k \notin own'[d]
    BY <1>1, <2>1, <2>2
  <2>4. /\ \A j : j # k => (j \in detached' <=> j \in detached)
        /\ \A d \in Client : \A j : j # k => (j \in own'[d] <=> j \in own[d])
    BY <2>1, <2>2
  <2>5. \A j : j \in services' <=> j \in detached' \/ \E d \in Client : j \in own'[d]
    BY <1>1, <2>1, <2>3, <2>4
  <2>6. /\ \A d \in Client : \A j \in own'[d] : j \notin detached'
        /\ \A d, e \in Client : d # e => \A j \in own'[d] : j \notin own'[e]
    BY <1>1, <2>3, <2>4
  <2>7. ListedOnce'
    BY <2>5, <2>6 DEF ListedOnce
  <2>8. GoneOwnsNothing'
    BY <1>7, <2>1, <2>2 DEF IInv, GoneOwnsNothing
  <2>9. ~exited /\ Claims(c) /\ ~Claims(c)'
    <3>1. ~Claims(c)'
      BY <1>3, <1>7 DEF Removes
    <3>2. ~exited
      BY <2>1 DEF IInv, GoneOwnsNothing
    <3>3. PICK lines : Answered(c, lines)
      BY <1>0, <1>7, RelayAnswers DEF Removes
    <3>4. inbuf[c] = <<Asked(c)>> /\ inbuf[c] # <<>> /\ step[c] \in DOMAIN Command
      BY <3>3 DEF Answered
    <3>5. Command[step[c]] = "DEL_ONION"
      BY <1>7, <3>4 DEF Removes, DelOnion, Take, Asked
    <3>6. step[c] = "del"
      BY <3>4, <3>5, CommandSteps
    <3> QED
      BY <3>1, <3>2, <3>4, <3>6 DEF Claims
  <2>10. ASSUME NEW d \in Client, Holds(d)' PROVE Holds(d) /\ d # c /\ KeyOf[d] # k
    <3>1. d # c
      BY <2>9, <2>10 DEF Holds
    <3>2. ~Adds(d)
      <4> SUFFICES ASSUME Adds(d) PROVE FALSE
        OBVIOUS
      <4>1. services' = services \cup {KeyOf[d]} /\ KeyOf[d] \notin services
        BY DEF Adds, AddOnion, Collides
      <4> QED
        BY <2>1, <4>1
    <3>3. Holds(d)
      BY <1>3, <1>7, <2>1, <2>10, <3>2 DEF Holds
    <3>4. ASSUME KeyOf[d] = k PROVE FALSE
      <4>1. KeyOf[d] \in IF d \in Detaching THEN detached ELSE own[d]
        BY <1>0, <3>3 DEF Listed
      <4>2. k \in detached /\ k \notin own[c] /\ d \in Detaching
        BY <1>1, <2>1, <3>1, <3>4, <4>1
      <4>3. c \in Detaching
        BY <2>1, <2>10, <3>4, <4>2 DEF Holds
      <4>4. k = KeyOf[c]
        BY <1>7, <4>3 DEF Removes, Named
      <4>5. Holds(c)
        BY <2>9, <3>3, <3>4, <4>2, <4>3, <4>4 DEF Holds
      <4> QED
        BY <3>1, <3>3, <3>4, <4>4, <4>5 DEF IInv, HeldByOne
    <3> QED
      BY <3>1, <3>3, <3>4
  <2>11. \A d \in Client : Listed(d)'
    BY <1>0, <2>4, <2>10 DEF Listed
  <2>12. HeldByOne'
    BY <2>10 DEF IInv, HeldByOne
  <2> QED
    BY <2>7, <2>8, <2>11, <2>12
<1>8. ASSUME NEW c \in Client, CloseMarked(c) \/ Drop(c), exited' = exited
      PROVE  ListedOnce' /\ GoneOwnsNothing' /\ HeldByOne' /\ \A d \in Client : Listed(d)'
  <2>1. /\ conn' = [conn EXCEPT ![c] = "gone"] /\ conn[c] # "gone"
        /\ services' = services \ own[c]
        /\ own' = [own EXCEPT ![c] = {}]
        /\ detached' = detached /\ removed' = removed
    BY <1>8 DEF CloseMarked, Drop, CloseConn
  <2>2. /\ \A d \in Client : own'[d] = IF d = c THEN {} ELSE own[d]
        /\ \A d \in Client : conn'[d] = IF d = c THEN "gone" ELSE conn[d]
    BY <1>0, <2>1
  <2>3. \A j : j \in services' <=> j \in detached' \/ \E d \in Client : j \in own'[d]
    BY <1>1, <2>1, <2>2
  <2>4. /\ \A d \in Client : \A j \in own'[d] : j \notin detached'
        /\ \A d, e \in Client : d # e => \A j \in own'[d] : j \notin own'[e]
    BY <1>1, <2>1, <2>2
  <2>5. ListedOnce'
    BY <2>3, <2>4 DEF ListedOnce
  <2>6. GoneOwnsNothing'
    BY <1>8, <2>2 DEF IInv, GoneOwnsNothing
  <2>7. ASSUME NEW d \in Client, Holds(d)' PROVE Holds(d)
    <3>1. ~Adds(d)
      <4> SUFFICES ASSUME Adds(d) PROVE FALSE
        OBVIOUS
      <4>1. services' = services \cup {KeyOf[d]} /\ KeyOf[d] \notin services
        BY DEF Adds, AddOnion, Collides
      <4> QED
        BY <2>1, <4>1
    <3> QED
      BY <1>3, <1>8, <2>1, <2>2, <2>7, <3>1 DEF Holds
  <2>8. \A d \in Client : Listed(d)'
    <3>1. ASSUME NEW d \in Client, Holds(d)', d \notin Detaching PROVE d # c
      BY <2>2, <3>1 DEF Holds
    <3> QED
      BY <1>0, <2>1, <2>2, <2>7, <3>1 DEF Listed
  <2>9. HeldByOne'
    BY <2>7 DEF IInv, HeldByOne
  <2> QED
    BY <2>5, <2>6, <2>8, <2>9
<1> QED
  BY <1>0, <1>4, <1>5, <1>6, <1>7, <1>8, ServiceSteps
     DEF Adds, AddOnion


-----------------------------------------------------------------------------
(* The invariant.                                                          *)

\* A command as it is sent.
Commands == [n : Nat, name : {Command[s] : s \in DOMAIN Command}]

\* Where replies and errors lead.
LEMMA StepsAreSteps ==
  ASSUME NEW c, NEW s \in DOMAIN Command, NEW b
  PROVE  OnError(s) \in Step /\ OnReply(c, s, b) \in Step
<1>1. OnError(s) \in Step
  BY DEF OnError, Step
<1>2. OnReply(c, s, b) \in Step
  BY CommandSteps DEF OnReply, Step
<1> QED
  BY <1>1, <1>2

\* Every step keeps the types.
LEMMA TypesKept ==
  ASSUME TypeOK, [Next]_vars, \A d \in Client : OneAtATime(d)
  PROVE  TypeOK'
<1> USE DEF clientVars, wireVars, serviceVars
<1>0. /\ step \in [Client -> Step] /\ waiting \in [Client -> BOOLEAN] /\ sent \in [Client -> Nat]
      /\ polls \in [Client -> 0..MaxPolls] /\ MaxPolls \in Nat /\ MaxDrops \in Nat
      /\ ready100 \in [Client -> BOOLEAN] /\ ready \in BOOLEAN /\ exited \in BOOLEAN
      /\ conn \in [Client -> {"needauth", "open", "marked", "gone"}]
      /\ inbuf \in [Client -> Seq(Commands)]
      /\ outbuf \in [Client -> Seq(Line)]
      /\ services \subseteq Key /\ detached \subseteq Key /\ own \in [Client -> SUBSET Key]
      /\ removed \subseteq Key
      /\ authNeeded \in BOOLEAN /\ drops \in 0..MaxDrops
  BY ControlPortAssumption DEF TypeOK, Line, Commands
<1>1. CASE UNCHANGED vars
  BY <1>1 DEF vars, TypeOK
<1>2. ASSUME NEW c \in Client, Send(c) PROVE TypeOK'
  <2>1. /\ step[c] \in DOMAIN Command /\ (step[c] = "boot" => polls[c] < MaxPolls)
        /\ waiting' = [waiting EXCEPT ![c] = TRUE]
        /\ sent' = [sent EXCEPT ![c] = @ + 1]
        /\ polls' = [polls EXCEPT ![c] = IF step[c] = "boot" THEN @ + 1 ELSE @]
        /\ ready100' = [ready100 EXCEPT ![c] = FALSE]
        /\ inbuf' = IF conn[c] = "gone" THEN inbuf
                    ELSE [inbuf EXCEPT ![c] = Append(@, [n |-> sent[c] + 1, name |-> Command[step[c]]])]
        /\ UNCHANGED <<step, conn, outbuf, serviceVars, authNeeded, exited, ready, drops>>
    BY <1>2 DEF Send
  <2>2. [n |-> sent[c] + 1, name |-> Command[step[c]]] \in Commands
    BY <1>0, <2>1 DEF Commands
  <2>3. inbuf' \in [Client -> Seq(Commands)]
    BY <1>0, <2>1, <2>2
  <2>4. polls' \in [Client -> 0..MaxPolls]
    <3>1. polls[c] \in 0..MaxPolls
      BY <1>0
    <3>2. (IF step[c] = "boot" THEN polls[c] + 1 ELSE polls[c]) \in 0..MaxPolls
      BY <1>0, <2>1, <3>1
    <3> QED
      BY <1>0, <2>1, <3>2
  <2>5. /\ waiting' \in [Client -> BOOLEAN] /\ sent' \in [Client -> Nat]
        /\ ready100' \in [Client -> BOOLEAN]
    BY <1>0, <2>1
  <2> QED
    BY <1>0, <2>1, <2>3, <2>4, <2>5 DEF TypeOK, Commands, Line
<1>3. ASSUME NEW c \in Client, ReadLine(c) PROVE TypeOK'
  <2>1. /\ outbuf[c] # <<>> /\ outbuf' = [outbuf EXCEPT ![c] = Tail(@)]
        /\ \E b : ready100' = [ready100 EXCEPT ![c] = ready100[c] \/ b]
        /\ \E b : waiting' = [waiting EXCEPT ![c] = ~b]
        /\ \E s : step' = [step EXCEPT ![c] = s]
        /\ UNCHANGED <<sent, polls, conn, inbuf, serviceVars, authNeeded, exited, ready, drops>>
    BY <1>3 DEF ReadLine
  <2>2. /\ step[c] \in DOMAIN Command
        /\ step'[c] \in {step[c], OnError(step[c]), OnReply(c, step[c], ready100'[c])}
    BY <1>3, ReadLineFacts
  <2>3. step' \in [Client -> Step]
    <3>1. step'[c] \in Step
      BY <1>0, <2>2, StepsAreSteps
    <3> QED
      BY <1>0, <2>1, <3>1
  <2>4. outbuf' \in [Client -> Seq(Line)]
    BY <1>0, <2>1, TailFacts
  <2>5. ready100' \in [Client -> BOOLEAN]
    BY <1>0, <2>1
  <2>6. waiting' \in [Client -> BOOLEAN]
    BY <1>0, <2>1
  <2> QED
    BY <1>0, <2>1, <2>3, <2>4, <2>5, <2>6 DEF TypeOK, Commands, Line
<1>4. ASSUME NEW c \in Client, ReadEof(c) \/ Deadline(c) \/ Shutdown(c) PROVE TypeOK'
  <2>1. /\ UNCHANGED <<sent, polls, ready100, conn, wireVars, serviceVars, authNeeded, exited,
                       ready, drops>>
        /\ waiting' \in {waiting, [waiting EXCEPT ![c] = FALSE]}
        /\ \E s \in {OnError(step[c]), "failed", "del"} : step' = [step EXCEPT ![c] = s]
    BY <1>4 DEF ReadEof, Deadline, Shutdown
  <2>2. ReadEof(c) => step[c] \in DOMAIN Command
    BY DEF ReadEof, OneAtATime
  <2>3. \E s \in Step : step' = [step EXCEPT ![c] = s]
    <3>1. CASE ReadEof(c)
      BY <2>2, <3>1, StepsAreSteps DEF ReadEof
    <3>2. CASE Deadline(c) \/ Shutdown(c)
      BY <3>2 DEF Deadline, Shutdown, Step
    <3> QED
      BY <1>4, <3>1, <3>2
  <2>4. step' \in [Client -> Step] /\ waiting' \in [Client -> BOOLEAN]
    BY <1>0, <2>1, <2>3
  <2> QED
    BY <1>0, <2>1, <2>4 DEF TypeOK, Commands, Line
<1>5. ASSUME NEW c \in Client,
             Authenticate(c) \/ Refuse(c) \/ AddOnion(c) \/ Getinfo(c) \/ DelOnion(c)
      PROVE  TypeOK'
  <2>1. PICK lines : Answered(c, lines)
    BY <1>5, RelayAnswers
  <2>2. /\ inbuf' = [inbuf EXCEPT ![c] = <<>>]
        /\ lines \in Seq(Line) /\ outbuf' = [outbuf EXCEPT ![c] = lines]
        /\ UNCHANGED <<clientVars, authNeeded, exited, ready, drops>>
        /\ conn' \in {conn, [conn EXCEPT ![c] = "open"], [conn EXCEPT ![c] = "marked"]}
    BY <2>1 DEF Answered
  <2>3. inbuf' \in [Client -> Seq(Commands)] /\ outbuf' \in [Client -> Seq(Line)]
    BY <1>0, <2>2
  <2>4. conn' \in [Client -> {"needauth", "open", "marked", "gone"}]
    BY <1>0, <2>2
  <2>5. /\ services' \subseteq Key /\ detached' \subseteq Key /\ own' \in [Client -> SUBSET Key]
        /\ removed' \subseteq Key
    <3>1. KeyOf[c] \in Key
      BY DEF Key
    <3>2. CASE Authenticate(c) \/ Refuse(c) \/ Getinfo(c)
      BY <1>0, <3>2 DEF Authenticate, Refuse, Getinfo
    <3>3. CASE AddOnion(c)
      <4>1. \/ UNCHANGED serviceVars
            \/ /\ services' = services \cup {KeyOf[c]}
               /\ detached' \in {detached, detached \cup {KeyOf[c]}}
               /\ own' \in {own, [own EXCEPT ![c] = @ \cup {KeyOf[c]}]}
               /\ removed' = removed
        BY <3>3 DEF AddOnion
      <4>2. own[c] \cup {KeyOf[c]} \in SUBSET Key
        BY <1>0, <3>1
      <4>3. [own EXCEPT ![c] = own[c] \cup {KeyOf[c]}] \in [Client -> SUBSET Key]
        BY <1>0, <4>2
      <4> QED
        BY <1>0, <3>1, <4>1, <4>3
    <3>4. CASE DelOnion(c)
      <4>1. PICK k \in Named(c) :
              \/ UNCHANGED serviceVars
              \/ /\ services' = services \ {k} /\ own' = [own EXCEPT ![c] = @ \ {k}]
                 /\ detached' \in {detached, detached \ {k}}
                 /\ removed' \in {removed, removed \cup {k}}
        BY <3>4 DEF DelOnion
      <4>2. k \in Key
        BY DEF Named, Key
      <4> QED
        BY <1>0, <4>1, <4>2
    <3> QED
      BY <1>5, <3>2, <3>3, <3>4
  <2> QED
    BY <1>0, <2>2, <2>3, <2>4, <2>5 DEF TypeOK, Commands, Line
<1>6. ASSUME NEW c \in Client, CloseMarked(c) \/ Drop(c) PROVE TypeOK'
  <2>1. /\ UNCHANGED <<clientVars, detached, removed, authNeeded, exited, ready>>
        /\ conn' = [conn EXCEPT ![c] = "gone"]
        /\ services' = services \ own[c] /\ own' = [own EXCEPT ![c] = {}]
        /\ inbuf' = [inbuf EXCEPT ![c] = <<>>]
        /\ \E i \in 0..Len(outbuf[c]) : outbuf' = [outbuf EXCEPT ![c] = SubSeq(@, 1, i)]
        /\ drops' = drops \/ (drops < MaxDrops /\ drops' = drops + 1)
    BY <1>6 DEF CloseMarked, Drop, CloseConn
  <2>2. outbuf' \in [Client -> Seq(Line)]
    <3>1. PICK i \in 0..Len(outbuf[c]) : outbuf' = [outbuf EXCEPT ![c] = SubSeq(@, 1, i)]
      BY <2>1
    <3>2. SubSeq(outbuf[c], 1, i) \in Seq(Line)
      BY <1>0
    <3> QED
      BY <1>0, <3>1, <3>2
  <2>3. /\ inbuf' \in [Client -> Seq(Commands)]
        /\ conn' \in [Client -> {"needauth", "open", "marked", "gone"}]
        /\ services' \subseteq Key /\ own' \in [Client -> SUBSET Key]
    BY <1>0, <2>1
  <2>4. drops' \in 0..MaxDrops
    BY <1>0, <2>1
  <2> QED
    BY <1>0, <2>1, <2>2, <2>3, <2>4 DEF TypeOK, Commands, Line
<1>7. CASE RelayExits
  BY <1>0, <1>7 DEF RelayExits, TypeOK, Commands, Line
<1>8. CASE Bootstrapped
  BY <1>0, <1>8 DEF Bootstrapped, TypeOK, Commands, Line
<1> QED
  BY <1>1, <1>2, <1>3, <1>4, <1>5, <1>6, <1>7, <1>8 DEF Next, ClientStep, RelayStep

\* At the start nothing is on its way and nothing is served.
LEMMA InitIInv == Init => IInv
<1> SUFFICES ASSUME Init PROVE IInv
  OBVIOUS
<1>1. step \in [Client -> {"auth", "add"}]
  BY DEF Init
<1>2. TypeOK
  <2>1. step \in [Client -> Step]
    BY <1>1 DEF Step
  <2>2. /\ inbuf \in [Client -> Seq([n : Nat, name : {Command[s] : s \in DOMAIN Command}])]
        /\ outbuf \in [Client -> Seq([n : Nat, err : BOOLEAN, last : BOOLEAN, ready : BOOLEAN])]
    BY DEF Init
  <2>3. polls \in [Client -> 0..MaxPolls] /\ drops \in 0..MaxDrops
    BY ControlPortAssumption DEF Init
  <2> QED
    BY <2>1, <2>2, <2>3 DEF Init, TypeOK
<1>3. ListedOnce /\ GoneOwnsNothing
  BY DEF Init, ListedOnce, GoneOwnsNothing
<1>4. ASSUME NEW c \in Client
      PROVE  OneAtATime(c) /\ SaidReady(c) /\ ~Claims(c)
  <2>1. /\ step[c] \in {"auth", "add"} /\ ~waiting[c] /\ ~ready100[c]
        /\ inbuf[c] = <<>> /\ outbuf[c] = <<>> /\ Len(outbuf[c]) = 0
    BY <1>1 DEF Init
  <2> QED
    BY <2>1 DEF OneAtATime, SaidReady, Claims, ReplyTo
<1> QED
  BY <1>2, <1>3, <1>4 DEF IInv, HeldByOne, Listed, Holds

\* Every step keeps the invariant.
LEMMA NextIInv == IInv /\ [Next]_vars => IInv'
<1> SUFFICES ASSUME IInv, [Next]_vars PROVE IInv'
  OBVIOUS
<1>1. TypeOK'
  BY TypesKept DEF IInv
<1>2. \A d \in Client : OneAtATime(d)' /\ SaidReady(d)'
  BY WireKept DEF IInv
<1> QED
  BY <1>1, <1>2, ServicesKept DEF IInv

\* It holds of every reachable state.
LEMMA IInvHolds == Spec => []IInv
BY InitIInv, NextIInv, PTL DEF Spec

\* Type correctness of the two ends of the control connections, for any number
\* of controllers.
THEOREM ControlTypeCorrect == Spec => []TypeOK
<1>1. IInv => TypeOK
  BY DEF IInv
<1> QED
  BY <1>1, IInvHolds, PTL

\* _onionrelay_control_command never takes a line of an earlier reply for the
\* answer to its command, though its callers swallow the exception of a reply
\* of which lines may be left: an error line is the last of its reply.
THEOREM RepliesInStep == Spec => []InStep
<1>1. IInv => InStep
  <2> SUFFICES ASSUME IInv, NEW c \in Client
               PROVE  /\ \A i \in DOMAIN outbuf[c] : outbuf[c][i].n = sent[c] /\ waiting[c]
                      /\ \A i \in DOMAIN inbuf[c] : inbuf[c][i].n = sent[c] /\ waiting[c]
    BY DEF InStep
  <2>1. OneAtATime(c) /\ outbuf[c] \in Seq(Line)
    BY DEF IInv, TypeOK, Line
  <2>2. ASSUME NEW i \in DOMAIN outbuf[c] PROVE outbuf[c][i].n = sent[c] /\ waiting[c]
    <3>1. i \in 1..Len(outbuf[c]) /\ outbuf[c] # <<>>
      BY <2>1
    <3> QED
      BY <2>1, <3>1 DEF OneAtATime, ReplyTo
  <2>3. ASSUME NEW i \in DOMAIN inbuf[c] PROVE inbuf[c][i].n = sent[c] /\ waiting[c]
    <3>1. inbuf[c] # <<>>
      OBVIOUS
    <3>2. inbuf[c] = <<Asked(c)>> /\ waiting[c]
      BY <2>1, <3>1 DEF OneAtATime
    <3> QED
      BY <3>2 DEF Asked
  <2> QED
    BY <2>2, <2>3
<1> QED
  BY <1>1, IInvHolds, PTL

\* A node that is up is served by the relay as long as the relay runs, whatever
\* keys others add and whichever connections break, unless a controller that is
\* not p4.py deletes its service: the service is detached, and its key is refused
\* to all other nodes, who delete only what they could add.
THEOREM NodesStayServed == Spec => []UpIsServed
<1>1. IInv => UpIsServed
  <2> SUFFICES ASSUME IInv, NEW c \in Detaching, step[c] = "up", ~exited,
                      KeyOf[c] \notin removed
               PROVE  KeyOf[c] \in services
    BY DEF UpIsServed
  <2>1. c \in Client /\ Listed(c)
    BY ControlPortAssumption DEF IInv
  <2>2. KeyOf[c] \in detached
    BY <2>1 DEF Listed, Holds, Claims
  <2> QED
    BY <2>2 DEF IInv, ListedOnce
<1> QED
  BY <1>1, IInvHolds, PTL

\* The lists of services that DEL_ONION and closing connections go by hold
\* every service of hs_service_map once.
THEOREM ServicesListedOnce == Spec => []ListedOnce
<1>1. IInv => ListedOnce
  BY DEF IInv
<1> QED
  BY <1>1, IInvHolds, PTL

\* _wait_for_onionrelay_bootstrap does not report success before the relay has
\* bootstrapped; invite does not ask.
THEOREM UpWhenReady == Spec => []UpIsReady
<1>1. IInv => UpIsReady
  BY ControlPortAssumption DEF IInv, UpIsReady, SaidReady
<1> QED
  BY <1>1, IInvHolds, PTL

-----------------------------------------------------------------------------
(***************************************************************************)
(* Local ports, for any number of nodes, state directories and trios.      *)
(* The inductive invariant has two halves.  However starts race, a relay   *)
(* listens on the ports of its own node and a node that is up has its      *)
(* signalling port, which is why two of them never share a relay.  When    *)
(* starts do not race, one is under way at a time, so that what its search *)
(* found busy stays busy, and what it found free is not taken by another.  *)
(***************************************************************************)
\* The k-th trio that the search of node n looks at.
Nth(n, k) == (Seed[Dir[n]] + k) % Bases

\* A node whose relay was started has picked its ports.
HasTrio ==
  \A n \in Node : /\ relay[n] # "none" => at[n] \notin {"idle", "probe"} /\ trio[n] \in Trio
                  /\ at[n] \in {"wait", "control", "listen", "up"} => relay[n] # "none"
                  /\ at[n] \in {"idle", "probe"} => tried[n] < Bases

\* A control port is the third of the trio of its relay's node.
ControlIsThird == \A n \in Node, p \in Port : owner[p] = Control(n) => p = trio[n] + 2

\* A node that is up has its signalling port.
ServesFirst == \A n \in Node : at[n] = "up" => owner[trio[n]] = Server(n)

\* A node talks to a relay of its own trio.
TalksOnTrio ==
  \A n \in Node : /\ talks[n] # None => /\ relay[talks[n]] # "none" /\ trio[talks[n]] = trio[n]
                                        /\ relay[n] # "none"
                  /\ at[n] \in {"listen", "up"} => talks[n] # None

\* However starts race, relays and servers listen where they belong.
Placed == HasTrio /\ ControlIsThird /\ ServesFirst /\ TalksOnTrio

\* The search begins at the seed.
NotBegun == \A n \in Node : at[n] = "idle" => tried[n] = 0 /\ probe[n] = 0

\* The start of node n, or of its relay, is under way.
Active(n) == at[n] \in Starting \/ relay[n] \in {"spawned", "half", "bound"}

\* Without races one start is under way at a time, and no other program is there.
OneStarts ==
  serial => /\ \A n, m \in Node : Active(n) /\ Active(m) => n = m
            /\ \A p \in Port : owner[p] # Other

\* The trios that the search has given up have a port in use.
TriedBusy ==
  serial => \A n \in Node : at[n] = "probe" \/ Picked(n) =>
              \A k \in 0..(tried[n] - 1) : \E p \in TrioPorts(Nth(n, k)) : owner[p] # None

\* The ports of the trio that were probed are free, and so are those picked.
ProbedFree ==
  serial => \A n \in Node :
    /\ at[n] = "probe" => \A i \in 0..2 : i < probe[n] => is_local_port_free(Candidate(n) + i)
    /\ Picked(n) => /\ trio[n] = Candidate(n)
                    /\ \A i \in 0..2 : is_local_port_free(trio[n] + i)

\* Nobody else's relay has the control port of a node that starts.
NotAnothers ==
  serial => \A n, m \in Node :
    n # m /\ at[n] \in {"wait", "control"} => owner[trio[n] + 2] # Control(m)

\* When starts do not race, what a start found is what it meets.
Calm == NotBegun /\ OneStarts /\ TriedBusy /\ ProbedFree /\ NotAnothers /\ OwnRelay

\* The inductive invariant.
PortIInv == PortTypeOK /\ Placed /\ Calm

-----------------------------------------------------------------------------
(* Listeners and trios.                                                    *)

\* Listeners of different nodes or kinds are different.
LEMMA ListenersDiffer ==
  ASSUME NEW n \in Node, NEW m \in Node
  PROVE  /\ Server(n) = Server(m) => n = m
         /\ Control(n) = Control(m) => n = m
         /\ Server(n) \notin Relay(m) /\ Control(n) # Socks(m)
         /\ Control(n) \in Relay(n) /\ Socks(n) \in Relay(n)
         /\ Relay(n) \cup {Server(n)} \subseteq Owner
         /\ {None, Other} \cap (Relay(n) \cup {Server(n)}) = {}
         /\ n # m => Relay(n) \cap Relay(m) = {}
<1>1. Relay(n) \cup {Server(n)} \subseteq Listener
  BY DEF Listener
<1> QED
  BY <1>1, PortAssumption DEF Owner, Server, Control, Socks, Relay

\* The search stays among the trios.
LEMMA NthIsTrio ==
  ASSUME NEW n \in Node, NEW k \in Nat
  PROVE  Nth(n, k) \in Trio
BY PortAssumption DEF Nth, Trio

\* The ports of a trio.
LEMMA TrioIsPorts ==
  ASSUME NEW b \in Trio, NEW i \in 0..2
  PROVE  b \in Nat /\ b + i \in Port /\ b + i \in TrioPorts(b) /\ b # None /\ Bases \in Nat \ {0}
BY PortAssumption DEF Trio, Port, TrioPorts

\* A probe: the next port, a trio that is picked, or one that is given up.
LEMMA ProbeSteps ==
  ASSUME PortTypeOK, HasTrio, NEW n \in Node, Probe(n)
  PROVE  /\ at[n] = "probe" /\ relay[n] = "none" /\ UNCHANGED <<serial, owner, talks>>
         /\ Candidate(n) = Nth(n, tried[n]) /\ Candidate(n) \in Trio
         /\ tried[n] \in 0..(Bases - 1) /\ probe[n] \in 0..2
         /\ \/ /\ is_local_port_free(Candidate(n) + probe[n]) /\ probe[n] < 2
               /\ probe' = [probe EXCEPT ![n] = probe[n] + 1]
               /\ UNCHANGED <<at, tried, trio, relay>>
            \/ /\ is_local_port_free(Candidate(n) + probe[n]) /\ probe[n] = 2
               /\ probe' = [probe EXCEPT ![n] = 0]
               /\ tried' = tried
               /\ trio' = [trio EXCEPT ![n] = Candidate(n)]
               /\ relay' = [relay EXCEPT ![n] = "spawned"]
               /\ at' = [at EXCEPT ![n] = "wait"]
            \/ /\ ~is_local_port_free(Candidate(n) + probe[n])
               /\ probe' = [probe EXCEPT ![n] = 0]
               /\ tried' = [tried EXCEPT ![n] = tried[n] + 1]
               /\ UNCHANGED <<trio, relay>>
               /\ \/ tried[n] + 1 = Bases /\ at' = [at EXCEPT ![n] = "ended"]
                  \/ tried[n] + 1 < Bases /\ at' = at
<1>1. /\ at[n] = "probe" /\ relay[n] = "none" /\ UNCHANGED <<serial, owner, talks>>
      /\ tried[n] \in 0..(Bases - 1) /\ probe[n] \in 0..2
  BY PortAssumption DEF Probe, PortTypeOK, HasTrio
<1>2. Candidate(n) = Nth(n, tried[n]) /\ Candidate(n) \in Trio
  BY <1>1, NthIsTrio, PortAssumption DEF Candidate, Nth
<1> DEFINE free == is_local_port_free(Candidate(n) + probe[n])
<1>3. /\ probe' = [probe EXCEPT ![n] = IF free /\ probe[n] # 2 THEN @ + 1 ELSE 0]
      /\ tried' = [tried EXCEPT ![n] = IF free THEN @ ELSE @ + 1]
      /\ trio' = IF free /\ probe[n] = 2 THEN [trio EXCEPT ![n] = Candidate(n)] ELSE trio
      /\ relay' = IF free /\ probe[n] = 2 THEN [relay EXCEPT ![n] = "spawned"] ELSE relay
      /\ at' = [at EXCEPT ![n] = IF free /\ probe[n] = 2 THEN "wait"
                                 ELSE IF ~free /\ tried[n] + 1 = Bases THEN "ended" ELSE @]
  BY DEF Probe, LastProbe
<1> HIDE DEF free
<1>4. /\ at \in [Node -> {"idle", "up", "ended"} \cup Starting] /\ tried \in [Node -> 0..Bases]
      /\ [at EXCEPT ![n] = at[n]] = at /\ [tried EXCEPT ![n] = tried[n]] = tried
  BY DEF PortTypeOK
<1>5. CASE free /\ probe[n] < 2
  BY <1>1, <1>2, <1>3, <1>4, <1>5 DEF free
<1>6. CASE free /\ probe[n] = 2
  BY <1>1, <1>2, <1>3, <1>4, <1>6 DEF free
<1>7. CASE ~free
  <2>1. /\ probe' = [probe EXCEPT ![n] = 0] /\ tried' = [tried EXCEPT ![n] = tried[n] + 1]
        /\ UNCHANGED <<trio, relay>>
    BY <1>3, <1>7
  <2>2. tried[n] + 1 = Bases \/ tried[n] + 1 < Bases
    BY <1>1, PortAssumption
  <2>3. tried[n] + 1 = Bases => at' = [at EXCEPT ![n] = "ended"]
    BY <1>3, <1>7
  <2>4. tried[n] + 1 < Bases => at' = at
    BY <1>1, <1>3, <1>4, <1>7, PortAssumption
  <2> QED
    BY <1>1, <1>2, <1>7, <2>1, <2>2, <2>3, <2>4 DEF free
<1>8. probe[n] < 2 \/ probe[n] = 2
  BY <1>1
<1> QED
  BY <1>5, <1>6, <1>7, <1>8

-----------------------------------------------------------------------------
(* The steps keep the types and where relays and servers listen.           *)


\* The types are preserved.
LEMMA PortTypesKept ==
  ASSUME PortTypeOK, HasTrio, PortNext
  PROVE  PortTypeOK'
<1> USE DEF nodeVars
<1>0. /\ serial \in BOOLEAN /\ at \in [Node -> {"idle", "up", "ended"} \cup Starting]
      /\ tried \in [Node -> 0..Bases] /\ probe \in [Node -> 0..2]
      /\ trio \in [Node -> Trio \cup {None}]
      /\ relay \in [Node -> {"none", "spawned", "half", "bound", "up", "exited"}]
      /\ owner \in [Port -> Owner] /\ talks \in [Node -> Node \cup {None}]
      /\ Bases \in Nat \ {0} /\ None \in Owner
      /\ \A n \in Node, p \in Port : /\ owner[p] = Server(n) => at[n] = "up"
                                     /\ owner[p] \in Relay(n) => relay[n] \in {"half", "bound", "up"}
  BY PortAssumption DEF PortTypeOK, Owner
<1>1. ASSUME /\ serial' \in BOOLEAN /\ at' \in [Node -> {"idle", "up", "ended"} \cup Starting]
             /\ tried' \in [Node -> 0..Bases] /\ probe' \in [Node -> 0..2]
             /\ trio' \in [Node -> Trio \cup {None}]
             /\ relay' \in [Node -> {"none", "spawned", "half", "bound", "up", "exited"}]
             /\ owner' \in [Port -> Owner] /\ talks' \in [Node -> Node \cup {None}],
             \A n \in Node, p \in Port :
               /\ owner'[p] = Server(n) => at'[n] = "up"
               /\ owner'[p] \in Relay(n) => relay'[n] \in {"half", "bound", "up"}
      PROVE  PortTypeOK'
  BY <1>1 DEF PortTypeOK
<1>2. ASSUME NEW xs, Frees(xs)
      PROVE  /\ owner' \in [Port -> Owner]
             /\ \A p \in Port : owner'[p] = IF owner[p] \in xs THEN None ELSE owner[p]
  BY <1>0, <1>2 DEF Frees
<1>3. ASSUME NEW n \in Node, Begin(n) \/ Connect(n) \/ StartFails(n) PROVE PortTypeOK'
  <2>1. /\ at[n] # "up" /\ \E s \in {"probe", "control", "ended"} : at' = [at EXCEPT ![n] = s]
        /\ UNCHANGED <<serial, tried, probe, trio, relay, owner, talks>>
    BY <1>3 DEF Begin, Connect, StartFails, Starting
  <2>2. /\ at' \in [Node -> {"idle", "up", "ended"} \cup Starting]
        /\ \A m \in Node : at[m] = "up" => at'[m] = "up"
    BY <1>0, <2>1 DEF Starting
  <2> QED
    BY <1>0, <1>1, <2>1, <2>2
<1>4. ASSUME NEW n \in Node, Probe(n) PROVE PortTypeOK'
  <2>1. /\ at' \in [Node -> {"idle", "up", "ended"} \cup Starting]
        /\ \A m \in Node : at[m] = "up" => at'[m] = "up"
    BY <1>0, <1>4, ProbeSteps DEF Starting
  <2>2. /\ relay' \in [Node -> {"none", "spawned", "half", "bound", "up", "exited"}]
        /\ \A m \in Node : relay[m] \in {"half", "bound", "up"} => relay'[m] = relay[m]
    BY <1>0, <1>4, ProbeSteps
  <2>3. tried' \in [Node -> 0..Bases] /\ probe' \in [Node -> 0..2]
    <3>1. /\ tried[n] + 1 \in 0..Bases /\ tried[n] \in 0..Bases /\ 0 \in 0..2
          /\ (probe[n] < 2 => probe[n] + 1 \in 0..2)
      BY <1>0, <1>4, ProbeSteps
    <3> QED
      BY <1>0, <1>4, <3>1, ProbeSteps
  <2>4. trio' \in [Node -> Trio \cup {None}]
    BY <1>0, <1>4, ProbeSteps
  <2>5. UNCHANGED <<serial, owner, talks>>
    BY <1>4 DEF Probe
  <2> QED
    BY <1>0, <1>1, <2>1, <2>2, <2>3, <2>4, <2>5
<1>5. ASSUME NEW n \in Node, RelayBinds(n) PROVE PortTypeOK'
  <2>1. /\ relay[n] \in {"spawned", "half"} /\ trio[n] \in Trio
        /\ UNCHANGED <<serial, at, tried, probe, trio, talks>>
        /\ \/ /\ relay' = [relay EXCEPT ![n] = "half"]
              /\ owner' = [owner EXCEPT ![trio[n] + 1] = Socks(n)]
           \/ /\ relay' = [relay EXCEPT ![n] = "bound"]
              /\ owner' = [owner EXCEPT ![trio[n] + 2] = Control(n)]
           \/ /\ relay' = [relay EXCEPT ![n] = "exited"]
              /\ Frees(Relay(n)) \/ (relay[n] = "spawned" /\ owner' = owner)
    BY <1>5 DEF RelayBinds, RelayBindsSocks, RelayBindsControl, HasTrio
  <2>2. trio[n] + 1 \in Port /\ trio[n] + 2 \in Port
    BY <2>1, TrioIsPorts
  <2>3. /\ relay' \in [Node -> {"none", "spawned", "half", "bound", "up", "exited"}]
        /\ \A m \in Node \ {n} : relay'[m] = relay[m]
    BY <1>0, <2>1
  <2>4. owner' \in [Port -> Owner]
    BY <1>0, <1>2, <2>1, <2>2, ListenersDiffer
  <2>5. \A p \in Port : \/ owner'[p] = owner[p] /\ relay'[n] # "exited"
                        \/ owner'[p] \in Relay(n) /\ relay'[n] \in {"half", "bound"}
                        \/ owner'[p] \in {owner[p], None} /\ owner'[p] \notin Relay(n)
    <3>1. CASE relay' = [relay EXCEPT ![n] = "exited"] /\ Frees(Relay(n))
      BY <1>0, <1>2, <3>1, ListenersDiffer
    <3>2. CASE relay[n] = "spawned" /\ owner' = owner
      BY <1>0, <3>2
    <3>3. CASE relay' = [relay EXCEPT ![n] = "half"] \/ relay' = [relay EXCEPT ![n] = "bound"]
      BY <1>0, <2>1, <2>2, <3>3, ListenersDiffer
    <3> QED
      BY <2>1, <3>1, <3>2, <3>3
  <2>6. relay'[n] \in {"half", "bound", "exited"}
    BY <1>0, <2>1
  <2>7. ASSUME NEW m \in Node, NEW p \in Port
        PROVE  /\ owner'[p] = Server(m) => at'[m] = "up"
               /\ owner'[p] \in Relay(m) => relay'[m] \in {"half", "bound", "up"}
    BY <1>0, <2>1, <2>3, <2>5, <2>6, ListenersDiffer
  <2> QED
    BY <1>0, <1>1, <2>1, <2>3, <2>4, <2>7
<1>6. ASSUME NEW n \in Node, RelayLocks(n) \/ OrphanEnds(n) PROVE PortTypeOK'
  <2>1. /\ UNCHANGED <<serial, at, tried, probe, trio, talks>>
        /\ \/ relay' = [relay EXCEPT ![n] = "up"] /\ owner' = owner
           \/ relay' = [relay EXCEPT ![n] = "exited"] /\ Frees(Relay(n))
    BY <1>6 DEF RelayLocks, OrphanEnds
  <2>2. /\ relay' \in [Node -> {"none", "spawned", "half", "bound", "up", "exited"}]
        /\ \A m \in Node \ {n} : relay'[m] = relay[m]
    BY <1>0, <2>1
  <2>3. CASE relay' = [relay EXCEPT ![n] = "up"] /\ owner' = owner
    BY <1>0, <1>1, <2>1, <2>2, <2>3
  <2>4. CASE relay' = [relay EXCEPT ![n] = "exited"] /\ Frees(Relay(n))
    <3>1. /\ owner' \in [Port -> Owner]
          /\ \A p \in Port : owner'[p] = IF owner[p] \in Relay(n) THEN None ELSE owner[p]
      BY <1>2, <2>4
    <3>2. ASSUME NEW m \in Node, NEW p \in Port
          PROVE  /\ owner'[p] = Server(m) => at'[m] = "up"
                 /\ owner'[p] \in Relay(m) => relay'[m] \in {"half", "bound", "up"}
      BY <1>0, <2>1, <2>2, <3>1, ListenersDiffer
    <3> QED
      BY <1>0, <1>1, <2>1, <2>2, <3>1, <3>2
  <2> QED
    BY <2>1, <2>3, <2>4
<1>7. ASSUME NEW n \in Node, Authenticated(n) PROVE PortTypeOK'
  <2>1. /\ at[n] = "control" /\ at' = [at EXCEPT ![n] = "listen"]
        /\ \E m \in Node : talks' = [talks EXCEPT ![n] = m]
        /\ UNCHANGED <<serial, tried, probe, trio, relay, owner>>
    BY <1>7 DEF Authenticated
  <2>2. /\ at' \in [Node -> {"idle", "up", "ended"} \cup Starting]
        /\ \A m \in Node : at[m] = "up" => at'[m] = "up"
        /\ talks' \in [Node -> Node \cup {None}]
    BY <1>0, <2>1 DEF Starting
  <2> QED
    BY <1>0, <1>1, <2>1, <2>2
<1>8. ASSUME NEW n \in Node, Listen(n) PROVE PortTypeOK'
  <2>1. /\ at[n] = "listen" /\ at' = [at EXCEPT ![n] = "up"] /\ trio[n] \in Trio
        /\ owner' = [owner EXCEPT ![trio[n]] = Server(n)]
        /\ UNCHANGED <<serial, tried, probe, trio, relay, talks>>
    BY <1>8 DEF Listen, HasTrio
  <2>2. /\ at' \in [Node -> {"idle", "up", "ended"} \cup Starting]
        /\ \A m \in Node : at[m] = "up" \/ m = n => at'[m] = "up"
    BY <1>0, <2>1
  <2>3. owner' \in [Port -> Owner] /\ \A p \in Port : owner'[p] = owner[p] \/ owner'[p] = Server(n)
    <3>1. Server(n) \in Owner
      BY ListenersDiffer
    <3> QED
      BY <1>0, <2>1, <3>1
  <2>4. ASSUME NEW m \in Node, NEW p \in Port
        PROVE  /\ owner'[p] = Server(m) => at'[m] = "up"
               /\ owner'[p] \in Relay(m) => relay'[m] \in {"half", "bound", "up"}
    BY <1>0, <2>1, <2>2, <2>3, ListenersDiffer
  <2> QED
    BY <1>0, <1>1, <2>1, <2>2, <2>3, <2>4
<1>9. ASSUME NEW n \in Node, Stop(n) \/ Kill(n) PROVE PortTypeOK'
  <2>1. /\ at' = [at EXCEPT ![n] = "ended"]
        /\ UNCHANGED <<serial, tried, probe, trio, talks>>
        /\ \/ relay' = relay /\ Frees({Server(n)})
           \/ relay' = [relay EXCEPT ![n] = "exited"] /\ Frees(Relay(n) \cup {Server(n)})
    BY <1>9 DEF Stop, Kill
  <2>2. /\ at' \in [Node -> {"idle", "up", "ended"} \cup Starting]
        /\ \A m \in Node \ {n} : at'[m] = at[m] /\ relay'[m] = relay[m]
        /\ relay' \in [Node -> {"none", "spawned", "half", "bound", "up", "exited"}]
    BY <1>0, <2>1
  <2>3. /\ owner' \in [Port -> Owner]
        /\ \A p \in Port : /\ owner'[p] = owner[p] \/ owner'[p] = None
                           /\ owner'[p] # Server(n)
                           /\ relay' # relay => owner'[p] \notin Relay(n)
    BY <1>0, <1>2, <2>1, ListenersDiffer
  <2>4. ASSUME NEW m \in Node, NEW p \in Port
        PROVE  /\ owner'[p] = Server(m) => at'[m] = "up"
               /\ owner'[p] \in Relay(m) => relay'[m] \in {"half", "bound", "up"}
    BY <1>0, <2>1, <2>2, <2>3, ListenersDiffer
  <2> QED
    BY <1>0, <1>1, <2>1, <2>2, <2>3, <2>4
<1>10. ASSUME NEW q \in Port, OtherBinds(q) \/ OtherLeaves(q) PROVE PortTypeOK'
  <2>1. /\ UNCHANGED <<serial, at, tried, probe, trio, relay, talks>>
        /\ \E x \in {None, Other} : owner' = [owner EXCEPT ![q] = x]
    BY <1>10 DEF OtherBinds, OtherLeaves
  <2>2. owner' \in [Port -> Owner] /\ \A p \in Port : owner'[p] \in {None, Other, owner[p]}
    BY <1>0, <2>1 DEF Owner
  <2>3. ASSUME NEW m \in Node, NEW p \in Port
        PROVE  /\ owner'[p] = Server(m) => at'[m] = "up"
               /\ owner'[p] \in Relay(m) => relay'[m] \in {"half", "bound", "up"}
    BY <1>0, <2>1, <2>2, ListenersDiffer
  <2> QED
    BY <1>0, <1>1, <2>1, <2>2, <2>3
<1> QED
  BY <1>3, <1>4, <1>5, <1>6, <1>7, <1>8, <1>9, <1>10 DEF PortNext

\* Every step keeps it.
LEMMA PlacedKept ==
  ASSUME PortTypeOK, Placed, PortNext
  PROVE  Placed'
<1> USE DEF nodeVars
<1>0. /\ at \in [Node -> {"idle", "up", "ended"} \cup Starting]
      /\ tried \in [Node -> 0..Bases] /\ trio \in [Node -> Trio \cup {None}]
      /\ relay \in [Node -> {"none", "spawned", "half", "bound", "up", "exited"}]
      /\ owner \in [Port -> Owner] /\ talks \in [Node -> Node \cup {None}]
      /\ \A n \in Node, p \in Port : /\ owner[p] = Server(n) => at[n] = "up"
                                     /\ owner[p] \in Relay(n) => relay[n] \in {"half", "bound", "up"}
      /\ HasTrio /\ ControlIsThird /\ ServesFirst /\ TalksOnTrio
  BY DEF PortTypeOK, Placed
<1>f. ASSUME NEW xs, Frees(xs)
      PROVE  \A p \in Port : owner'[p] = IF owner[p] \in xs THEN None ELSE owner[p]
  BY <1>0, <1>f DEF Frees
<1>t. ASSUME NEW n \in Node, relay[n] # "none"
      PROVE  trio[n] \in Port /\ trio[n] + 1 \in Port /\ trio[n] + 2 \in Port /\ trio[n] \in Nat
  <2>1. trio[n] \in Trio
    BY <1>0, <1>t DEF HasTrio
  <2> QED
    BY <2>1, PortAssumption DEF Trio, Port
<1>1. ASSUME NEW n \in Node, Begin(n) \/ Connect(n) \/ StartFails(n) PROVE Placed'
  <2>1. /\ UNCHANGED <<tried, trio, relay, owner, talks>> /\ at[n] # "up"
        /\ \A m \in Node \ {n} : at'[m] = at[m]
        /\ \/ at[n] = "idle" /\ at'[n] = "probe"
           \/ at[n] = "wait" /\ at'[n] = "control"
           \/ at[n] \in {"wait", "control", "listen"} /\ at'[n] = "ended"
    BY <1>0, <1>1 DEF Begin, Connect, StartFails, Starting
  <2>2. HasTrio'
    BY <1>0, <2>1 DEF HasTrio
  <2>3. ControlIsThird' /\ ServesFirst' /\ TalksOnTrio'
    BY <1>0, <2>1 DEF ControlIsThird, ServesFirst, TalksOnTrio
  <2> QED
    BY <2>2, <2>3 DEF Placed
<1>2. ASSUME NEW n \in Node, Probe(n) PROVE Placed'
  <2>1. /\ at[n] = "probe" /\ relay[n] = "none" /\ UNCHANGED <<owner, talks>>
        /\ Candidate(n) \in Trio
        /\ \A m \in Node \ {n} : /\ at'[m] = at[m] /\ relay'[m] = relay[m] /\ trio'[m] = trio[m]
                                 /\ tried'[m] = tried[m]
        /\ \/ at'[n] \in {"probe", "ended"} /\ relay'[n] = "none" /\ trio'[n] = trio[n]
           \/ at'[n] = "wait" /\ relay'[n] = "spawned" /\ trio'[n] = Candidate(n)
        /\ at'[n] = "probe" => tried'[n] < Bases
    <3>1. /\ at[n] = "probe" /\ relay[n] = "none" /\ UNCHANGED <<owner, talks>>
          /\ Candidate(n) \in Trio
          /\ tried[n] \in 0..(Bases - 1) /\ Bases \in Nat
      BY <1>0, <1>2, ProbeSteps, PortAssumption
    <3>2. \A m \in Node \ {n} : /\ at'[m] = at[m] /\ relay'[m] = relay[m] /\ trio'[m] = trio[m]
                                /\ tried'[m] = tried[m]
      BY <1>0, <1>2, ProbeSteps
    <3>3. /\ \/ at'[n] \in {"probe", "ended"} /\ relay'[n] = "none" /\ trio'[n] = trio[n]
             \/ at'[n] = "wait" /\ relay'[n] = "spawned" /\ trio'[n] = Candidate(n)
      BY <1>0, <1>2, <3>1, ProbeSteps
    <3>4. at'[n] = "probe" => tried'[n] < Bases
      BY <1>0, <1>2, <3>1, ProbeSteps
    <3> QED
      BY <3>1, <3>2, <3>3, <3>4
  <2>2. HasTrio'
    BY <1>0, <2>1 DEF HasTrio
  <2>3. \A p \in Port : owner[p] # Control(n)
    BY <1>0, <2>1, ListenersDiffer
  <2>4. ControlIsThird'
    BY <1>0, <2>1, <2>3 DEF ControlIsThird
  <2>5. ServesFirst'
    BY <1>0, <2>1 DEF ServesFirst
  <2>6. TalksOnTrio'
    <3>1. \A m \in Node : talks[m] # None => talks[m] \in Node \ {n} /\ m # n
      BY <1>0, <2>1 DEF TalksOnTrio
    <3> QED
      BY <1>0, <2>1, <3>1 DEF TalksOnTrio
  <2> QED
    BY <2>2, <2>4, <2>5, <2>6 DEF Placed
<1>3. ASSUME NEW n \in Node, RelayBinds(n) PROVE Placed'
  <2>1. /\ relay[n] \in {"spawned", "half"} /\ UNCHANGED <<at, tried, trio, talks>>
        /\ \/ /\ relay' = [relay EXCEPT ![n] = "half"]
              /\ owner[trio[n] + 1] = None
              /\ owner' = [owner EXCEPT ![trio[n] + 1] = Socks(n)]
           \/ /\ relay' = [relay EXCEPT ![n] = "bound"]
              /\ owner[trio[n] + 2] = None
              /\ owner' = [owner EXCEPT ![trio[n] + 2] = Control(n)]
           \/ relay' = [relay EXCEPT ![n] = "exited"] /\ (owner' = owner \/ Frees(Relay(n)))
    BY <1>3 DEF RelayBinds, RelayBindsSocks, RelayBindsControl
  <2>2. \A m \in Node : relay'[m] = "none" <=> relay[m] = "none"
    BY <1>0, <2>1
  <2>3. HasTrio' /\ TalksOnTrio'
    BY <1>0, <2>1, <2>2 DEF HasTrio, TalksOnTrio
  <2>4. \A p \in Port : \/ owner'[p] = owner[p]
                        \/ owner[p] = None /\ owner'[p] = Socks(n)
                        \/ owner[p] = None /\ owner'[p] = Control(n) /\ p = trio[n] + 2
                        \/ owner[p] \in Relay(n) /\ owner'[p] = None
    BY <1>0, <1>f, <1>t, <2>1
  <2>5. ControlIsThird'
    BY <1>0, <2>1, <2>4, ListenersDiffer DEF ControlIsThird
  <2>6. ServesFirst'
    BY <1>0, <1>t, <2>1, <2>4, ListenersDiffer DEF ServesFirst, HasTrio
  <2> QED
    BY <2>3, <2>5, <2>6 DEF Placed
<1>4. ASSUME NEW n \in Node, RelayLocks(n) \/ OrphanEnds(n) PROVE Placed'
  <2>1. /\ relay[n] \in {"bound", "up"} /\ UNCHANGED <<at, tried, trio, talks>>
        /\ \/ relay' = [relay EXCEPT ![n] = "up"] /\ owner' = owner
           \/ relay' = [relay EXCEPT ![n] = "exited"] /\ Frees(Relay(n))
    BY <1>4 DEF RelayLocks, OrphanEnds
  <2>2. \A m \in Node : relay'[m] = "none" <=> relay[m] = "none"
    BY <1>0, <2>1
  <2>3. HasTrio' /\ TalksOnTrio'
    BY <1>0, <2>1, <2>2 DEF HasTrio, TalksOnTrio
  <2>4. \A p \in Port : owner'[p] = owner[p] \/ (owner[p] \in Relay(n) /\ owner'[p] = None)
    BY <1>f, <2>1
  <2>5. ControlIsThird'
    BY <1>0, <2>1, <2>4, ListenersDiffer DEF ControlIsThird
  <2>6. ServesFirst'
    BY <1>0, <1>t, <2>1, <2>4, ListenersDiffer DEF ServesFirst, HasTrio
  <2> QED
    BY <2>3, <2>5, <2>6 DEF Placed
<1>5. ASSUME NEW n \in Node, Authenticated(n) PROVE Placed'
  <2>1. PICK k \in Node : /\ owner[trio[n] + 2] = Control(k) /\ relay[k] = "up"
                          /\ talks' = [talks EXCEPT ![n] = k]
    BY <1>5 DEF Authenticated
  <2>2. /\ at[n] = "control" /\ at' = [at EXCEPT ![n] = "listen"]
        /\ UNCHANGED <<tried, trio, relay, owner>>
    BY <1>5 DEF Authenticated
  <2>3. HasTrio' /\ ControlIsThird' /\ ServesFirst'
    BY <1>0, <2>2 DEF HasTrio, ControlIsThird, ServesFirst
  <2>4. relay[n] # "none" /\ trio[n] + 2 = trio[k] + 2 /\ trio[n] \in Nat /\ trio[k] \in Nat
    BY <1>0, <1>t, <2>1, <2>2 DEF HasTrio, ControlIsThird
  <2>5. trio[k] = trio[n] /\ k # None
    BY <2>4, PortAssumption
  <2>6. TalksOnTrio'
    BY <1>0, <2>1, <2>2, <2>4, <2>5 DEF TalksOnTrio
  <2> QED
    BY <2>3, <2>6 DEF Placed
<1>6. ASSUME NEW n \in Node, Listen(n) PROVE Placed'
  <2>1. /\ at[n] = "listen" /\ at' = [at EXCEPT ![n] = "up"] /\ owner[trio[n]] = None
        /\ owner' = [owner EXCEPT ![trio[n]] = Server(n)]
        /\ UNCHANGED <<tried, trio, relay, talks>>
    BY <1>6 DEF Listen
  <2>2. HasTrio' /\ TalksOnTrio'
    BY <1>0, <2>1 DEF HasTrio, TalksOnTrio
  <2>3. /\ \A p \in Port : owner'[p] = owner[p] \/ (owner[p] = None /\ owner'[p] = Server(n))
        /\ owner'[trio[n]] = Server(n)
    BY <1>0, <1>t, <2>1 DEF HasTrio
  <2>4. ControlIsThird'
    BY <1>0, <2>1, <2>3, ListenersDiffer DEF ControlIsThird, Relay
  <2>5. ServesFirst'
    BY <1>0, <1>t, <2>1, <2>3, ListenersDiffer DEF ServesFirst, HasTrio
  <2> QED
    BY <2>2, <2>4, <2>5 DEF Placed
<1>7. ASSUME NEW n \in Node, Stop(n) \/ Kill(n) PROVE Placed'
  <2>1. /\ at' = [at EXCEPT ![n] = "ended"] /\ at[n] # "idle"
        /\ UNCHANGED <<tried, trio, talks>>
        /\ \/ relay' = relay /\ Frees({Server(n)})
           \/ /\ relay' = [relay EXCEPT ![n] = "exited"] /\ Frees(Relay(n) \cup {Server(n)})
              /\ at[n] = "up"
    BY <1>7 DEF Stop, Kill, Starting
  <2>2. \A m \in Node : relay'[m] = "none" <=> relay[m] = "none"
    BY <1>0, <2>1 DEF HasTrio
  <2>3. HasTrio' /\ TalksOnTrio'
    BY <1>0, <2>1, <2>2 DEF HasTrio, TalksOnTrio
  <2>4. \A p \in Port :
          owner'[p] = owner[p] \/ (owner[p] \in Relay(n) \cup {Server(n)} /\ owner'[p] = None)
    BY <1>f, <2>1
  <2>5. ControlIsThird'
    BY <1>0, <2>1, <2>4, ListenersDiffer DEF ControlIsThird
  <2>6. ServesFirst'
    BY <1>0, <1>t, <2>1, <2>4, ListenersDiffer DEF ServesFirst, HasTrio
  <2> QED
    BY <2>3, <2>5, <2>6 DEF Placed
<1>8. ASSUME NEW q \in Port, OtherBinds(q) \/ OtherLeaves(q) PROVE Placed'
  <2>1. /\ UNCHANGED <<at, tried, trio, relay, talks>>
        /\ owner[q] \in {None, Other}
        /\ \E x \in {None, Other} : owner' = [owner EXCEPT ![q] = x]
    BY <1>8 DEF OtherBinds, OtherLeaves
  <2>2. \A p \in Port :
          owner'[p] = owner[p] \/ (owner[p] \in {None, Other} /\ owner'[p] \in {None, Other})
    BY <1>0, <2>1
  <2>3. HasTrio' /\ TalksOnTrio'
    BY <1>0, <2>1 DEF HasTrio, TalksOnTrio
  <2>4. ControlIsThird'
    BY <1>0, <2>1, <2>2, ListenersDiffer DEF ControlIsThird
  <2>5. ServesFirst'
    BY <1>0, <1>t, <2>1, <2>2, ListenersDiffer DEF ServesFirst, HasTrio
  <2> QED
    BY <2>3, <2>4, <2>5 DEF Placed
<1> QED
  BY <1>1, <1>2, <1>3, <1>4, <1>5, <1>6, <1>7, <1>8 DEF PortNext

-----------------------------------------------------------------------------
(* When starts do not race.                                                *)

\* Every step keeps it.
LEMMA CalmKept ==
  ASSUME PortTypeOK, Placed, Calm, PortNext
  PROVE  Calm'
<1> USE DEF nodeVars
<1>0. /\ at \in [Node -> {"idle", "up", "ended"} \cup Starting]
      /\ tried \in [Node -> 0..Bases] /\ probe \in [Node -> 0..2]
      /\ trio \in [Node -> Trio \cup {None}]
      /\ relay \in [Node -> {"none", "spawned", "half", "bound", "up", "exited"}]
      /\ owner \in [Port -> Owner] /\ talks \in [Node -> Node \cup {None}]
      /\ HasTrio /\ NotBegun /\ OneStarts /\ TriedBusy /\ ProbedFree /\ NotAnothers /\ OwnRelay
  BY DEF PortTypeOK, Placed, Calm
<1>1. NotBegun'
  <2>1. ASSUME NEW n \in Node, Probe(n) PROVE NotBegun'
    BY <1>0, <2>1, ProbeSteps DEF NotBegun
  <2>2. ASSUME NEW n \in Node,
               \/ Begin(n) \/ RelayBinds(n) \/ RelayLocks(n) \/ OrphanEnds(n) \/ Connect(n)
               \/ Authenticated(n) \/ Listen(n) \/ StartFails(n) \/ Stop(n) \/ Kill(n)
        PROVE  NotBegun'
    <3>1. /\ UNCHANGED <<tried, probe>>
          /\ (at' = at \/ \E s : s # "idle" /\ at' = [at EXCEPT ![n] = s])
      BY <2>2 DEF Begin, RelayBinds, RelayBindsSocks, RelayBindsControl, RelayLocks, OrphanEnds, Connect, Authenticated, Listen,
                  StartFails, Stop, Kill
    <3> QED
      BY <1>0, <3>1 DEF NotBegun
  <2>3. ASSUME NEW p \in Port, OtherBinds(p) \/ OtherLeaves(p) PROVE NotBegun'
    BY <1>0, <2>3 DEF OtherBinds, OtherLeaves, NotBegun
  <2> QED
    BY <2>1, <2>2, <2>3 DEF PortNext
<1>2. serial' = serial
  BY DEF PortNext, Begin, Probe, RelayBinds, RelayBindsSocks, RelayBindsControl, RelayLocks,
         OrphanEnds, Connect, Authenticated, Listen, StartFails, Stop, Kill, OtherBinds, OtherLeaves
<1>3. CASE ~serial
  BY <1>1, <1>2, <1>3 DEF Calm, OneStarts, TriedBusy, ProbedFree, NotAnothers, OwnRelay
<1> SUFFICES ASSUME serial PROVE Calm'
  BY <1>3
<1>4. /\ \A n, m \in Node : Active(n) /\ Active(m) => n = m
      /\ \A p \in Port : owner[p] # Other
  BY <1>0 DEF OneStarts
\* Enough to look at: the node that acts, when nobody else is active.
<1>5. ASSUME NEW n \in Node, \A m \in Node \ {n} : ~Active(m),
             \A m \in Node \ {n} : /\ at'[m] = at[m] /\ relay'[m] = relay[m]
                                   /\ talks'[m] = talks[m],
             \A p \in Port : owner'[p] # Other,
             at'[n] = "probe" \/ Picked(n)' =>
               \A k \in 0..(tried'[n] - 1) : \E p \in TrioPorts(Nth(n, k)) : owner'[p] # None,
             at'[n] = "probe" =>
               \A i \in 0..2 : i < probe'[n] => is_local_port_free(Candidate(n) + i)',
             Picked(n)' => /\ trio'[n] = Candidate(n)'
                           /\ \A i \in 0..2 : is_local_port_free(trio[n] + i)',
             at'[n] \in {"wait", "control"} =>
               \A m \in Node \ {n} : owner'[trio'[n] + 2] # Control(m),
             talks'[n] \in {n, None}
      PROVE  Calm'
  <2>1. \A m \in Node \ {n} : ~Active(m)' /\ at'[m] \notin {"probe", "wait", "control"}
    BY <1>5 DEF Active, Starting
  <2>2. OneStarts'
    BY <1>5, <2>1 DEF OneStarts
  <2>3. TriedBusy'
    BY <1>5, <2>1 DEF TriedBusy, Picked
  <2>4. ProbedFree'
    BY <1>5, <2>1 DEF ProbedFree, Picked
  <2>5. NotAnothers'
    BY <1>5, <2>1 DEF NotAnothers
  <2>6. OwnRelay'
    BY <1>0, <1>5 DEF OwnRelay
  <2> QED
    BY <1>1, <2>2, <2>3, <2>4, <2>5, <2>6 DEF Calm
<1>6. ASSUME NEW n \in Node, Begin(n) PROVE Calm'
  <2>1. /\ at[n] = "idle" /\ at' = [at EXCEPT ![n] = "probe"] /\ Quiet
        /\ UNCHANGED <<tried, probe, trio, relay, owner, talks>>
    BY <1>6 DEF Begin
  <2>2. tried'[n] = 0 /\ probe'[n] = 0 /\ at'[n] = "probe" /\ ~Picked(n)'
    BY <1>0, <2>1 DEF NotBegun, Picked
  <2>3. \A m \in Node \ {n} : ~Active(m)
    BY <2>1 DEF Quiet, Active
  <2> QED
    BY <1>0, <1>4, <1>5, <2>1, <2>2, <2>3 DEF OwnRelay
<1>7. ASSUME NEW n \in Node, Probe(n) PROVE Calm'
  <2>1. /\ at[n] = "probe" /\ relay[n] = "none" /\ UNCHANGED <<owner, talks>>
        /\ Candidate(n) = Nth(n, tried[n]) /\ Candidate(n) \in Trio
        /\ tried[n] \in 0..(Bases - 1) /\ probe[n] \in 0..2
    BY <1>0, <1>7, ProbeSteps
  <2>2. \A m \in Node \ {n} : ~Active(m)
    BY <1>4, <2>1 DEF Active, Starting
  <2>3. \A m \in Node \ {n} : /\ at'[m] = at[m] /\ relay'[m] = relay[m] /\ talks'[m] = talks[m]
    <3>1. at' \in {at, [at EXCEPT ![n] = "wait"], [at EXCEPT ![n] = "ended"]}
      BY <1>0, <1>7, ProbeSteps
    <3>2. relay' \in {relay, [relay EXCEPT ![n] = "spawned"]}
      BY <1>0, <1>7, ProbeSteps
    <3> QED
      BY <1>0, <2>1, <3>1, <3>2
  <2>4. talks'[n] \in {n, None} /\ \A p \in Port : owner'[p] # Other
    BY <1>0, <1>4, <2>1 DEF OwnRelay
  <2>5. /\ \A k \in 0..(tried[n] - 1) : \E p \in TrioPorts(Nth(n, k)) : owner[p] # None
        /\ \A i \in 0..2 : i < probe[n] => is_local_port_free(Candidate(n) + i)
    BY <1>0, <2>1 DEF TriedBusy, ProbedFree
  <2>6. \A p : is_local_port_free(p)' <=> is_local_port_free(p)
    BY <2>1 DEF is_local_port_free
  <2>7. tried'[n] = tried[n] => Candidate(n)' = Candidate(n)
    BY DEF Candidate
  <2>8. CASE /\ is_local_port_free(Candidate(n) + probe[n]) /\ probe[n] < 2
             /\ probe' = [probe EXCEPT ![n] = probe[n] + 1]
             /\ UNCHANGED <<at, tried, trio, relay>>
    <3>1. probe'[n] = probe[n] + 1 /\ ~Picked(n)' /\ at'[n] = "probe" /\ tried'[n] = tried[n]
      BY <1>0, <2>1, <2>8 DEF Picked
    <3>2. \A i \in 0..2 : i < probe[n] + 1 => i < probe[n] \/ i = probe[n]
      BY <2>1
    <3>3. \A i \in 0..2 : i < probe'[n] => is_local_port_free(Candidate(n) + i)'
      BY <2>5, <2>6, <2>7, <2>8, <3>1, <3>2
    <3> QED
      BY <1>5, <2>1, <2>2, <2>3, <2>4, <2>5, <3>1, <3>3
  <2>9. CASE /\ is_local_port_free(Candidate(n) + probe[n]) /\ probe[n] = 2
             /\ tried' = tried
             /\ trio' = [trio EXCEPT ![n] = Candidate(n)]
             /\ relay' = [relay EXCEPT ![n] = "spawned"]
             /\ at' = [at EXCEPT ![n] = "wait"]
    <3>1. at'[n] = "wait" /\ trio'[n] = Candidate(n) /\ tried'[n] = tried[n]
      BY <1>0, <2>9
    <3>2. \A i \in 0..2 : i < 2 \/ i = 2
      OBVIOUS
    <3>3. \A i \in 0..2 : is_local_port_free(trio[n] + i)'
      BY <2>5, <2>6, <2>9, <3>1, <3>2
    <3>4. \A m \in Node : owner[Candidate(n) + 2] # Control(m)
      BY <2>9, ListenersDiffer DEF is_local_port_free, Relay
    <3> QED
      BY <1>5, <2>1, <2>2, <2>3, <2>4, <2>5, <2>7, <3>1, <3>3, <3>4
  <2>10. CASE /\ ~is_local_port_free(Candidate(n) + probe[n])
              /\ probe' = [probe EXCEPT ![n] = 0]
              /\ tried' = [tried EXCEPT ![n] = tried[n] + 1]
              /\ UNCHANGED <<trio, relay>>
              /\ at'[n] \in {"probe", "ended"}
    <3>1. /\ probe'[n] = 0 /\ tried'[n] = tried[n] + 1 /\ ~Picked(n)'
          /\ at'[n] \notin {"wait", "control"}
      BY <1>0, <2>10 DEF Picked
    <3>2. \E p \in TrioPorts(Nth(n, tried[n])) : owner[p] # None
      BY <2>1, <2>10, TrioIsPorts DEF is_local_port_free
    <3>3. \A k \in 0..tried[n] : k \in 0..(tried[n] - 1) \/ k = tried[n]
      BY <2>1
    <3>4. tried'[n] - 1 = tried[n]
      BY <2>1, <3>1
    <3>5. \A k \in 0..(tried'[n] - 1) : \E p \in TrioPorts(Nth(n, k)) : owner'[p] # None
      BY <2>1, <2>5, <3>2, <3>3, <3>4
    <3>6. \A i \in 0..2 : ~(i < probe'[n])
      BY <3>1
    <3> QED
      BY <1>5, <2>2, <2>3, <2>4, <3>1, <3>5, <3>6
  <2>11. at' = at \/ at' = [at EXCEPT ![n] = "ended"] => at'[n] \in {"probe", "ended"}
    BY <1>0, <2>1
  <2> QED
    BY <1>0, <1>7, <2>8, <2>9, <2>10, <2>11, ProbeSteps
<1>8. ASSUME NEW n \in Node, RelayBinds(n) \/ RelayLocks(n) PROVE Calm'
  <2>1. /\ relay[n] \in {"spawned", "half", "bound"} /\ UNCHANGED <<at, tried, probe, trio, talks>>
        /\ \E r \in {"half", "bound", "up", "exited"} : relay' = [relay EXCEPT ![n] = r]
        /\ \/ owner' = owner
           \/ owner' = [owner EXCEPT ![trio[n] + 1] = Socks(n)]
           \/ owner' = [owner EXCEPT ![trio[n] + 2] = Control(n)]
           \/ Frees(Relay(n))
    BY <1>8 DEF RelayBinds, RelayBindsSocks, RelayBindsControl, RelayLocks
  <2>2. \A m \in Node \ {n} : ~Active(m)
    BY <1>4, <2>1 DEF Active
  <2>3. at[n] # "probe" /\ ~Picked(n)' /\ \A m \in Node \ {n} : relay'[m] = relay[m]
    BY <1>0, <2>1 DEF HasTrio, Picked
  <2>4. \A p \in Port : owner'[p] \in {owner[p], None} \cup Relay(n)
    BY <1>0, <2>1, ListenersDiffer DEF Frees
  <2>5. \A p \in Port : owner'[p] # Other
    BY <1>4, <2>4, ListenersDiffer, PortAssumption
  <2>6. ASSUME at'[n] \in {"wait", "control"}, NEW m \in Node \ {n}
        PROVE  owner'[trio'[n] + 2] # Control(m)
    <3>1. trio[n] \in Trio /\ trio'[n] + 2 \in Port /\ trio'[n] = trio[n]
      BY <1>0, <2>1, TrioIsPorts DEF HasTrio
    <3>2. owner[trio[n] + 2] # Control(m)
      BY <1>0, <2>1, <2>6 DEF NotAnothers
    <3> QED
      BY <2>4, <2>6, <3>1, <3>2, ListenersDiffer
  <2> QED
    BY <1>0, <1>5, <2>1, <2>2, <2>3, <2>5, <2>6 DEF OwnRelay
<1>9. ASSUME NEW n \in Node, OrphanEnds(n) PROVE Calm'
  <2>1. /\ relay' = [relay EXCEPT ![n] = "exited"] /\ Quiet /\ Frees(Relay(n)) /\ at[n] = "ended"
        /\ UNCHANGED <<at, tried, probe, trio, talks>>
    BY <1>9 DEF OrphanEnds
  <2>2. /\ \A m \in Node \ {n} : ~Active(m) /\ relay'[m] = relay[m]
        /\ ~Picked(n)'
    BY <1>0, <2>1 DEF Quiet, Active, Picked
  <2>3. \A p \in Port : owner'[p] # Other
    BY <1>0, <1>4, <2>1, PortAssumption DEF Frees
  <2> QED
    BY <1>0, <1>5, <2>1, <2>2, <2>3 DEF OwnRelay
<1>10. ASSUME NEW n \in Node, Connect(n) PROVE Calm'
  <2>1. /\ at[n] = "wait" /\ at' = [at EXCEPT ![n] = "control"]
        /\ UNCHANGED <<tried, probe, trio, relay, owner, talks>>
    BY <1>10 DEF Connect
  <2>2. /\ at'[n] = "control" /\ ~Picked(n)'
        /\ \A m \in Node \ {n} : ~Active(m) /\ at'[m] = at[m]
    BY <1>0, <1>4, <2>1 DEF Active, Starting, Picked
  <2> QED
    BY <1>0, <1>4, <1>5, <2>1, <2>2 DEF OwnRelay, NotAnothers
<1>11. ASSUME NEW n \in Node, Authenticated(n) PROVE Calm'
  <2>1. PICK k \in Node : owner[trio[n] + 2] = Control(k) /\ talks' = [talks EXCEPT ![n] = k]
    BY <1>11 DEF Authenticated
  <2>2. /\ at[n] = "control" /\ at' = [at EXCEPT ![n] = "listen"]
        /\ UNCHANGED <<tried, probe, trio, relay, owner>>
    BY <1>11 DEF Authenticated
  <2>3. k = n
    BY <1>0, <2>1, <2>2 DEF NotAnothers
  <2>4. /\ at'[n] = "listen" /\ ~Picked(n)' /\ talks'[n] = n
        /\ \A m \in Node \ {n} : ~Active(m) /\ at'[m] = at[m] /\ talks'[m] = talks[m]
    BY <1>0, <1>4, <2>1, <2>2, <2>3 DEF Active, Starting, Picked
  <2> QED
    BY <1>4, <1>5, <2>2, <2>4
<1>12. ASSUME NEW n \in Node, Listen(n) \/ StartFails(n) PROVE Calm'
  <2>1. /\ at[n] \in Starting
        /\ \E s \in {"up", "ended"} : at' = [at EXCEPT ![n] = s]
        /\ owner' = owner \/ owner' = [owner EXCEPT ![trio[n]] = Server(n)]
        /\ UNCHANGED <<tried, probe, trio, relay, talks>>
    BY <1>12 DEF Listen, StartFails, Starting
  <2>2. /\ at'[n] \in {"up", "ended"} /\ ~Picked(n)'
        /\ \A m \in Node \ {n} : ~Active(m) /\ at'[m] = at[m]
    BY <1>0, <1>4, <2>1 DEF Active, Picked
  <2>3. \A p \in Port : owner'[p] # Other
    BY <1>0, <1>4, <2>1, ListenersDiffer
  <2> QED
    BY <1>0, <1>5, <2>1, <2>2, <2>3 DEF OwnRelay
<1> QED
  BY <1>4, <1>6, <1>7, <1>8, <1>9, <1>10, <1>11, <1>12
     DEF PortNext, Stop, Kill, OtherBinds, OtherLeaves

-----------------------------------------------------------------------------
(* The theorems.                                                           *)

\* At the start nobody listens and no relay runs.
LEMMA PortInitIInv == PortInit => PortIInv
<1> SUFFICES ASSUME PortInit PROVE PortIInv
  OBVIOUS
<1>1. /\ \A n \in Node : /\ at[n] = "idle" /\ tried[n] = 0 /\ probe[n] = 0 /\ relay[n] = "none"
                         /\ talks[n] = None
      /\ \A p \in Port : owner[p] = None
      /\ \A n \in Node : None # Server(n) /\ None \notin Relay(n)
      /\ Bases \in Nat \ {0} /\ None # Other
  BY PortAssumption, ListenersDiffer DEF PortInit
<1>2. PortTypeOK
  BY <1>1 DEF PortInit, PortTypeOK, Owner
<1>3. Placed
  BY <1>1, ListenersDiffer DEF Placed, HasTrio, ControlIsThird, ServesFirst, TalksOnTrio
<1>4. Calm
  BY <1>1 DEF Calm, NotBegun, OneStarts, Active, Starting, TriedBusy, ProbedFree, Picked,
              NotAnothers, OwnRelay
<1> QED
  BY <1>2, <1>3, <1>4 DEF PortIInv

\* Every step keeps the invariant.
LEMMA PortNextIInv == PortIInv /\ [PortNext]_portVars => PortIInv'
<1>1. PortIInv /\ PortNext => PortIInv'
  BY PortTypesKept, PlacedKept, CalmKept DEF PortIInv, Placed
<1>2. PortIInv /\ UNCHANGED portVars => PortIInv'
  BY DEF portVars, nodeVars, PortIInv, PortTypeOK, Placed, Calm, HasTrio, ControlIsThird,
         ServesFirst, TalksOnTrio, NotBegun, OneStarts, Active, TriedBusy, ProbedFree, Picked,
         NotAnothers, OwnRelay, is_local_port_free, Candidate
<1> QED
  BY <1>1, <1>2

\* It holds of every reachable state.
LEMMA PortIInvHolds == PortSpec => []PortIInv
BY PortInitIInv, PortNextIInv, PTL DEF PortSpec

\* Types of ports, nodes and relays, for any number of them: a port is listened
\* on only by a server that is up or a relay that runs.
THEOREM PortTypeCorrect == PortSpec => []PortTypeOK
<1>1. PortIInv => PortTypeOK
  BY DEF PortIInv
<1> QED
  BY <1>1, PortIInvHolds, PTL

\* However starts, kills and other programs race, no two nodes that are up share
\* a relay, though _start_onionrelay talks to whatever listens on its control
\* port: they would have the same trio, of which one has the signalling port.
THEOREM RelayNotShared == PortSpec => []NotShared
<1>1. PortIInv => NotShared
  <2> SUFFICES ASSUME PortIInv, NEW n \in Node, NEW m \in Node, n # m, at[n] = "up", at[m] = "up",
                      talks[n] = talks[m]
               PROVE  FALSE
    BY DEF NotShared
  <2>1. trio[n] = trio[m]
    BY DEF PortIInv, Placed, TalksOnTrio
  <2>2. Server(n) = Server(m)
    BY <2>1 DEF PortIInv, Placed, ServesFirst
  <2> QED
    BY <2>2, ListenersDiffer
<1> QED
  BY <1>1, PortIInvHolds, PTL

\* pick_onion_port_trio finds the first free trio from the seed on, for any
\* number of trios and any ports in use.
THEOREM PickIsFirst == PortSpec => []PickedIsFirst
<1>1. PortIInv => PickedIsFirst
  <2> SUFFICES ASSUME PortIInv, serial, NEW n \in Node, Picked(n), NEW k \in 0..(Bases - 1),
                      \A p \in TrioPorts(Nth(n, k)) : owner[p] = None
               PROVE  \E j \in 0..k : trio[n] = Nth(n, j)
    BY DEF PickedIsFirst, Nth
  <2>1. /\ \A j \in 0..(tried[n] - 1) : \E p \in TrioPorts(Nth(n, j)) : owner[p] # None
        /\ trio[n] = Nth(n, tried[n]) /\ tried[n] \in Nat
    BY PortAssumption DEF PortIInv, PortTypeOK, Calm, TriedBusy, ProbedFree, Candidate, Nth
  <2>2. ~(k < tried[n])
    BY <2>1, PortAssumption
  <2> QED
    BY <2>1, <2>2, PortAssumption
<1> QED
  BY <1>1, PortIInvHolds, PTL

\* When starts do not race and a bind means that nobody listens (everywhere but
\* on Windows), nobody listens on the ports that were picked.
THEOREM PickIsFree == ~Win32 => (PortSpec => []PickedIsFree)
<1> HAVE ~Win32
<1>1. PortIInv => PickedIsFree
  <2> SUFFICES ASSUME PortIInv, serial, NEW n \in Node, Picked(n), NEW p \in TrioPorts(trio[n])
               PROVE  owner[p] = None
    BY DEF PickedIsFree
  <2>1. \A i \in 0..2 : owner[trio[n] + i] = None
    BY DEF PortIInv, Calm, ProbedFree, is_local_port_free
  <2>2. trio[n] \in Nat
    BY PortAssumption DEF PortIInv, Placed, HasTrio, Picked, Trio
  <2>3. p = trio[n] + 0 \/ p = trio[n] + 1 \/ p = trio[n] + 2
    BY <2>2 DEF TrioPorts
  <2> QED
    BY <2>1, <2>3
<1> QED
  BY <1>1, PortIInvHolds, PTL

\* When starts do not race, a node gives its onion key to the relay it started:
\* the relay of another node never has its control port.
THEOREM TalksToOwnRelay == PortSpec => []OwnRelay
<1>1. PortIInv => OwnRelay
  BY DEF PortIInv, Calm
<1> QED
  BY <1>1, PortIInvHolds, PTL
=============================================================================
