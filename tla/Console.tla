-------------------------------- MODULE Console --------------------------------
(***************************************************************************)
(* The web console (web/src): one page, one question at a time, and the    *)
(* event streams that answer them.                                         *)
(*                                                                         *)
(* A stream is read in chunks that know nothing of lines, framed by        *)
(* SseParser, turned into events by ask() and folded into the view by the  *)
(* reducer.  The person may stop a question, ask the next one as soon as   *)
(* this one has settled, or leave; connections drop or close when they     *)
(* like; and a stream that was aborted may have events in hand.            *)
(*                                                                         *)
(* A wire is a sequence of tokens: the text of a line is one token, since  *)
(* the parser looks for nothing but terminators in it, and CR and LF are   *)
(* tokens of their own, so that a chunk may end between them.              *)
(***************************************************************************)
EXTENDS Naturals, Sequences, FiniteSetsExt, SequencesExt

CONSTANTS Transcripts,  \* what may be sent: events, and the line terminator on the wire
          MaxAsks,      \* bound on questions asked
          MaxChunk      \* bound on the tokens of one chunk

CR == <<"CR">>
LF == <<"LF">>

ASSUME BoundsAssumption == Transcripts # {} /\ MaxAsks \in Nat /\ MaxChunk \in Nat \ {0}

(* Nothing follows the answer (TranscriptLegal of QueryService), and lines  *)
(* end in one of the three ways the parser knows.                           *)
ASSUME TranscriptAssumption ==
    \A t \in Transcripts :
      /\ t.script \in Seq(ToSet(t.script))
      /\ \A k \in DOMAIN t.script : t.script[k] = "done" => k = Len(t.script)
      /\ t.style \in {<<CR>>, <<LF>>, <<CR, LF>>}

Comment == <<"comment">>
Asks == 1 .. MaxAsks

VARIABLES view,      \* the reducer's state
          inFlight,  \* the stream of the current AbortController, or 0
          aborted,   \* streams whose signal is aborted
          stream     \* the state of each call of ask()

vars == <<view, inFlight, aborted, stream>>

-------------------------------------------------------------------------------
(* The server's encoding (api/sse.py), and the parser (web/src/api/sse.ts). *)

(* Payloads that are no JSON.  Only a result set can have one: json.dumps    *)
(* writes a float that is not finite, which a float8 column may hold, as    *)
(* NaN or Infinity, and default=str is not asked about a float.             *)
NotJson == {"nan_rows"}

(* event, data and a blank line; a keepalive is a comment and a blank line. *)
(* The text of a payload is named for its event: that of big_rows is longer *)
(* than a line may be, that of nan_rows no JSON.                            *)
EncodeEvent(event, style) ==
    IF event = "keepalive" THEN <<Comment>> \o style \o style
    ELSE <<<<"event", event>>>> \o style \o <<<<"data", event>>>> \o style \o style

(* The first n of a transcript, for every n. *)
Encodings(t) ==
    LET wire[n \in 0 .. Len(t.script)] ==
          IF n = 0 THEN <<>> ELSE wire[n - 1] \o EncodeEvent(t.script[n], t.style)
    IN  wire

Encode(t) == Encodings(t)[Len(t.script)]

Wire == [t \in Transcripts |-> Encode(t)]

FreshParser == [buffer |-> <<>>, name |-> "", data |-> <<>>, sawField |-> FALSE, frames |-> <<>>]

(* Mutant: a CR at the end of the buffer ends a line. *)
BreaksAtOnce(buffer) == {i \in DOMAIN buffer : buffer[i] \in {CR, LF}}

(* Where a line may end: a CR at the end of the buffer is held back, since  *)
(* its LF may be in the next chunk.                                         *)
Breaks(buffer) == {i \in DOMAIN buffer : buffer[i] = LF \/ (buffer[i] = CR /\ i < Len(buffer))}

(* #dispatch: nothing for a blank line that closes no field. *)
Dispatched(p) ==
    IF ~p.sawField THEN p
    ELSE [FreshParser EXCEPT !.buffer = p.buffer, !.frames = Append(p.frames, <<p.name, p.data>>)]

(* #consumeLine: blank, a comment, or a field. *)
Consumed(p, line) ==
    IF line = <<>> THEN Dispatched(p)
    ELSE LET text == Head(line) IN
         CASE text = Comment -> p
           [] text[1] = "event" -> [p EXCEPT !.name = text[2], !.sawField = TRUE]
           [] text[1] = "data" -> [p EXCEPT !.data = Append(@, text[2]), !.sawField = TRUE]

(* One turn of the loop of push: the first line, if there is a whole one. *)
NextLine(p) ==
    IF Breaks(p.buffer) = {} THEN p
    ELSE LET cut == Min(Breaks(p.buffer))
             pair == p.buffer[cut] = CR /\ cut < Len(p.buffer) /\ p.buffer[cut + 1] = LF
             resume == IF pair THEN cut + 2 ELSE cut + 1
         IN  Consumed([p EXCEPT !.buffer = SubSeq(@, resume, Len(@))], SubSeq(p.buffer, 1, cut - 1))

(* The loop of push, turn by turn.  Every turn is evaluated once: the       *)
(* binding of q fixes its value.                                            *)
Turns(p) ==
    LET after[n \in 0 .. Len(p.buffer)] ==
          IF n = 0 THEN p ELSE CHOOSE r \in {NextLine(q) : q \in {after[n - 1]}} : TRUE
    IN  after

Push(p, chunk) ==
    LET start == [p EXCEPT !.buffer = @ \o chunk, !.frames = <<>>]
    IN  Turns(start)[Len(start.buffer)]

(* A line longer than MAX_LINE_CHARS and not ended by this chunk. *)
Oversize(p) == \E i \in DOMAIN p.buffer : p.buffer[i] = <<"data", "big_rows">>

PendingTail(p) == p.buffer # <<>> \/ p.sawField

(* parseEvent: a frame is an event if JSON.parse takes its payload, and the *)
(* payload is its event's.  Any other is ignored.                           *)
IsEvent(frame) == frame[1] \notin NotJson /\ frame[2] = <<frame[1]>>

Events(frames) ==
    LET sound == {k \in DOMAIN frames : IsEvent(frames[k])} IN
    [n \in 1 .. Cardinality(sound) |->
       frames[CHOOSE k \in sound : Cardinality({j \in sound : j <= k}) = n][1]]

-------------------------------------------------------------------------------
(* The reducer (web/src/state/reducer.ts).  What is shown carries the       *)
(* number of the stream that brought it.                                    *)

Blank == [phase |-> "idle", question |-> 0, stages |-> 0, sql |-> 0, rows |-> 0, failure |-> "none"]

(* Mutant: events are applied in any phase. *)
AppliedLate(v, i, event) ==
    CASE event = "stage" -> [v EXCEPT !.stages = @ + 1]
      [] event = "sql" -> [v EXCEPT !.sql = i]
      [] event \in {"rows", "big_rows"} -> [v EXCEPT !.rows = i]
      [] event = "done" -> [v EXCEPT !.phase = "answered"]
      [] event \in {"error", "client_error"} -> [v EXCEPT !.phase = "failed", !.failure = event]
      [] OTHER -> v

(* applyEvent: a settled view takes no more events. *)
Applied(v, i, event) ==
    IF v.phase # "asking" THEN v
    ELSE CASE event = "stage" -> [v EXCEPT !.stages = @ + 1]
           [] event = "sql" -> [v EXCEPT !.sql = i]
           [] event \in {"rows", "big_rows"} -> [v EXCEPT !.rows = i]
           [] event = "done" -> [v EXCEPT !.phase = "answered"]
           [] event \in {"error", "client_error"} -> [v EXCEPT !.phase = "failed", !.failure = event]
           [] OTHER -> v

-------------------------------------------------------------------------------
NoTranscript == [script |-> <<>>, style |-> <<>>]

(* A call of ask(): where it is, what it is sent, how much of that it has   *)
(* read, the parser, the events in hand, and whether the stream was closed  *)
(* before its end without a trace.                                          *)
NoStream == [at |-> "none", sent |-> NoTranscript, read |-> 0, parser |-> FreshParser,
             events |-> <<>>, cut |-> FALSE]

Over(s) == [NoStream EXCEPT !.at = "over", !.sent = s.sent]

Init ==
    /\ view = Blank /\ inFlight = 0 /\ aborted = {}
    /\ stream = [i \in Asks |-> NoStream]

Asked == {i \in Asks : stream[i].at # "none"}
Open == {i \in Asks : stream[i].at \notin {"none", "over"}}

(* onAsk.  The form offers it when the last question has settled, which may *)
(* be before its stream has ended.                                          *)
Ask ==
    /\ view.phase \notin {"asking", "left"} /\ Asked # Asks
    /\ aborted' = aborted \cup ({inFlight} \ {0})
    /\ LET i == Cardinality(Asked) + 1 IN
       /\ inFlight' = i
       /\ stream' = [stream EXCEPT ![i].at = "fetching"]
       /\ view' = [Blank EXCEPT !.phase = "asking", !.question = i]

(* The Stop button. *)
Stop ==
    /\ view.phase = "asking"
    /\ aborted' = aborted \cup ({inFlight} \ {0})
    /\ inFlight' = 0
    /\ view' = [view EXCEPT !.phase = "stopped"]
    /\ UNCHANGED stream

(* The component is unmounted. *)
Leave ==
    /\ view.phase # "left"
    /\ aborted' = aborted \cup ({inFlight} \ {0})
    /\ view' = [view EXCEPT !.phase = "left"]
    /\ UNCHANGED <<inFlight, stream>>

-------------------------------------------------------------------------------
(* ask(): the fetch, the loop over chunks and what it yields; onAsk: what   *)
(* it does with it.                                                         *)

Advance(i, s) == stream' = [stream EXCEPT ![i] = s]

(* No network, or a response with no body: an error of the client's own. *)
Unreachable(i) ==
    /\ stream[i].at = "fetching"
    /\ Advance(i, [stream[i] EXCEPT !.at = "last", !.events = <<"client_error">>])
    /\ UNCHANGED <<view, inFlight, aborted>>

(* What a refusal is shown as: its envelope, or its status if the body is   *)
(* not one, or could not be read any more.                                  *)
EnvelopeOf == {"error", "client_error"}

Refused(i) ==
    /\ stream[i].at = "fetching"
    /\ \E event \in EnvelopeOf :
         Advance(i, [stream[i] EXCEPT !.at = "last", !.events = <<event>>])
    /\ UNCHANGED <<view, inFlight, aborted>>

Accepted(i) ==
    /\ stream[i].at = "fetching"
    /\ \E t \in Transcripts : Advance(i, [stream[i] EXCEPT !.at = "reading", !.sent = t])
    /\ UNCHANGED <<view, inFlight, aborted>>

(* A chunk that ends anywhere; a line too long is an error, and what was framed    *)
(* before it in the same chunk is lost.                                     *)
Read(i) ==
    /\ stream[i].at = "reading"
    /\ \E upTo \in stream[i].read + 1 .. Min({stream[i].read + MaxChunk, Len(Wire[stream[i].sent])}) :
       \E p \in {Push(stream[i].parser, SubSeq(Wire[stream[i].sent], stream[i].read + 1, upTo))} :
         LET events == IF Oversize(p) THEN <<"client_error">> ELSE Events(p.frames) IN
         Advance(i, [stream[i] EXCEPT
             !.read = upTo,
             !.parser = [p EXCEPT !.frames = <<>>],
             !.events = events,
             !.at = CASE Oversize(p) -> "last"
                      [] ~Oversize(p) /\ events # <<>> -> "yielding"
                      [] OTHER -> "reading"])
    /\ UNCHANGED <<view, inFlight, aborted>>

(* Mutant: the signal is not looked at again. *)
YieldAnyway(i) ==
    /\ stream[i].at = "yielding"
    /\ view' = Applied(view, i, Head(stream[i].events))
    /\ Advance(i, [stream[i] EXCEPT !.events = Tail(@),
                                    !.at = IF Len(stream[i].events) = 1 THEN "reading" ELSE @])
    /\ UNCHANGED <<inFlight, aborted>>

(* An event reaches onAsk, which ends the iteration if its signal is        *)
(* aborted and dispatches the event otherwise.                              *)
Yield(i) ==
    /\ stream[i].at = "yielding"
    /\ IF i \in aborted
       THEN /\ Advance(i, Over(stream[i]))
            /\ UNCHANGED view
       ELSE /\ view' = Applied(view, i, Head(stream[i].events))
            /\ Advance(i, [stream[i] EXCEPT !.events = Tail(@),
                                            !.at = IF Len(stream[i].events) = 1 THEN "reading" ELSE @])
    /\ UNCHANGED <<inFlight, aborted>>

(* The one event of a stream that ends in an error of the client's making,  *)
(* or a refusal.                                                            *)
YieldLast(i) ==
    /\ stream[i].at = "last"
    /\ view' = IF i \in aborted THEN view ELSE Applied(view, i, Head(stream[i].events))
    /\ inFlight' = IF inFlight = i /\ i \notin aborted THEN 0 ELSE inFlight
    /\ Advance(i, Over(stream[i]))
    /\ UNCHANGED aborted

(* Mutant: whatever is left in the parser is forgotten. *)
CloseQuietly(i) ==
    /\ stream[i].at = "reading"
    /\ Advance(i, Over(stream[i]))
    /\ inFlight' = IF inFlight = i THEN 0 ELSE inFlight
    /\ UNCHANGED <<view, aborted>>

(* The connection closes, at its end or before.  A tail left in the parser  *)
(* is reported; a close between two events is not told from the end.        *)
CloseStream(i) ==
    /\ stream[i].at = "reading"
    /\ IF PendingTail(stream[i].parser)
       THEN /\ Advance(i, [stream[i] EXCEPT !.at = "last", !.events = <<"client_error">>])
            /\ UNCHANGED inFlight
       ELSE /\ Advance(i, [Over(stream[i]) EXCEPT !.cut = stream[i].read < Len(Wire[stream[i].sent])])
            /\ inFlight' = IF inFlight = i THEN 0 ELSE inFlight
    /\ UNCHANGED <<view, aborted>>

(* reader.read() rejects: the connection dropped. *)
Drop(i) ==
    /\ stream[i].at = "reading"
    /\ Advance(i, [stream[i] EXCEPT !.at = "last", !.events = <<"client_error">>])
    /\ UNCHANGED <<view, inFlight, aborted>>

(* fetch or reader.read() rejects with an AbortError: a quiet end. *)
AbortSeen(i) ==
    /\ i \in aborted /\ stream[i].at \in {"fetching", "reading"}
    /\ Advance(i, Over(stream[i]))
    /\ inFlight' = IF inFlight = i THEN 0 ELSE inFlight
    /\ UNCHANGED <<view, aborted>>

-------------------------------------------------------------------------------
Person == Ask \/ Stop \/ Leave

Turn(i) == Unreachable(i) \/ Refused(i) \/ Accepted(i) \/ Read(i) \/ Yield(i) \/ YieldLast(i)
           \/ CloseStream(i) \/ Drop(i) \/ AbortSeen(i)

Next == Person \/ \E i \in Asks : Turn(i)

Spec == Init /\ [][Next]_vars

(* The browser runs, and a connection delivers, drops or closes in the end: *)
(* the server's keepalive and its own end see to that.                      *)
FairSpec == Spec /\ \A i \in Asks : WF_vars(Turn(i))

-------------------------------------------------------------------------------
(* Every variable keeps its type. *)
TypeOK ==
    /\ view.phase \in {"idle", "asking", "answered", "failed", "stopped", "left"}
    /\ {view.question, view.sql, view.rows} \subseteq Asks \cup {0}
    /\ view.stages \in Nat /\ view.failure \in {"none", "error", "client_error"}
    /\ inFlight \in Asks \cup {0} /\ aborted \subseteq Asks
    /\ \A i \in Asks :
         /\ stream[i].at \in {"none", "fetching", "reading", "yielding", "last", "over"}
         /\ stream[i].sent \in Transcripts \cup {NoTranscript} /\ stream[i].cut \in BOOLEAN
         /\ stream[i].at = "reading" => stream[i].read \in 0 .. Len(Wire[stream[i].sent])
         /\ stream[i].at \in {"yielding", "last"} <=> stream[i].events # <<>>

(* No "page ends up showing one question's SQL above another question's     *)
(* rows" (web/src/App.tsx): all that is shown came for the question shown,  *)
(* whatever was in hand when the previous one was stopped or overtaken.     *)
OneQuestionShown == {view.sql, view.rows} \subseteq {0, view.question}

(* What the stream of the question shown was sent. *)
SentScript == IF view.question = 0 THEN <<>> ELSE stream[view.question].sent.script

(* However the network cut the stream, an answer shows exactly what was     *)
(* sent, every stage, the SQL and the rows, rows that are no JSON being the *)
(* only ones missing; and the failure shown is the server's only if the     *)
(* server sent one.                                                         *)
ShownIsSent ==
    LET script == SentScript
        sent(S) == \E k \in DOMAIN script : script[k] \in S
    IN  /\ view.phase = "answered" =>
             /\ sent({"done"})
             /\ view.sql # 0 <=> sent({"sql"})
             /\ view.rows # 0 <=> sent({"rows", "big_rows"})
             /\ view.stages = Cardinality({k \in DOMAIN script : script[k] = "stage"})
        /\ view.failure = "error" => script = <<>> \/ sent({"error"})

(* What has settled is not touched again by late events, a dropped          *)
(* connection after the answer included; only the person changes it.        *)
SettledStays ==
    [][view.phase \in {"answered", "failed", "stopped"}
         => view' = view \/ view'.phase \in {"asking", "left"}]_vars

(* "silence would look identical to a finished answer" (web/src/api/        *)
(* client.ts): a question that is not stopped settles, unless its stream    *)
(* was closed early and cleanly between two events.                         *)
QuestionSettles ==
    \A i \in Asks :
      (view.phase = "asking" /\ view.question = i)
        ~> (~(view.phase = "asking" /\ view.question = i) \/ stream[i].cut)
===============================================================================
