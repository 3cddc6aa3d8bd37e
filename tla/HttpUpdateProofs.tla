-------------------------- MODULE HttpUpdateProofs --------------------------
(***************************************************************************)
(* BuffersOwned and ResultHonest for all lengths, limits and delays.       *)
(*                                                                         *)
(* The thread and main hand the request to and fro with done: main writes  *)
(* it only while done is set, the thread while it is not.  A host is kept  *)
(* exactly while somebody still waits for the result, so a result that is  *)
(* published belongs to the request that is being waited for; what is      *)
(* taken without a lock just before a failure is published is the result   *)
(* of the request before, and there is none before the check.  The check   *)
(* is made once and the download only after it, so the fields the thread   *)
(* never resets are still zero in the check.                               *)
(***************************************************************************)
EXTENDS HttpUpdate, TLAPS

InFlight == http.cmd = "FETCH" \/ hPc \in {"connect", "request", "head", "receive"}

\* The thread's steps, its command and its flags.
ThreadOrder ==
    /\ http.cmd = "FETCH" => hPc = "woken"
    /\ http.cmd = "EXIT" => hPc \in {"started", "woken", "done"} /\ umpc \in {"join", "exit"}
    /\ hPc = "woken" => http.cmd # "IDLE"
    /\ hPc \in {"start", "started"} \/ InFlight => ~http.done
    /\ hPc \in {"wait", "unconnected", "unsent", "close"} => http.done
    /\ http.state = "RECEIVING" => hPc = "receive"
    /\ http.running => hPc \notin {"start", "done"}
    /\ hPc \in {"start", "started"} => request = Null

\* The host is kept from the request to the taking of its result, and both
\* main and the thread mean the same request by it.
HostKept ==
    /\ http.host # Null => us = "FETCH_META" \/ umpc \in {"request", "poll", "fade"}
    /\ us = "FETCH_META" => request = 1 /\ http.host = 1 /\ inProgress
    /\ umpc \in {"request", "poll", "fade"} => request # Null /\ http.host = request
    /\ InFlight => http.host # Null
    /\ InFlight => http.max = (IF request = 1 THEN MetaMax ELSE DownloadMax)

\* Where main is in its update.
MainOrder ==
    /\ umpc = "request" => http.done /\ hPc \in {"wait", "unconnected", "unsent", "close"}
    /\ umpc \in {"poll", "fade"} => request = 2
    /\ umpc = "fade" => hPc \in {"receive", "close", "wait"}
    /\ umpc \in {"request", "confirm", "poll", "fade", "reloc"} =>
          us = "IDLE" /\ ~inProgress /\ ~available /\ check = -1
    /\ inProgress => us \in {"FETCH_META", "VALIDATE"}
    /\ available => us = "CAN_UPDATE"
    /\ check # -1 => request = Null /\ us = "IDLE"
    /\ data # Null <=> umpc = "reloc"

\* Nothing has been received before the answer to the check.
FirstRequest ==
    /\ request = Null => http.data = Null /\ http.status = 0 /\ http.len = 0
    /\ request = 1 =>
          /\ hPc \in {"connect", "request", "unconnected", "unsent"} \/ http.cmd = "FETCH"
               \/ umpc = "request" =>
                   http.data = Null /\ http.status = 0 /\ http.len = 0
          /\ hPc = "head" =>
                /\ http.data = Null
                /\ http.status = (IF served.status = Missing THEN 0 ELSE served.status)
                /\ http.len = (IF served.len = Missing THEN 0 ELSE served.len)

\* The body that is being received.
Receiving ==
    hPc = "receive" =>
        /\ http.data = request
        /\ http.len \in 1..http.max
        /\ request = 1 => served = [status |-> 200, len |-> http.len]

\* The second half of BuffersOwned.
LiveOwned ==
    live = ((IF hPc = "receive" \/ Published THEN {http.data} ELSE {})
            \union (IF us = "VALIDATE" THEN {update_data} ELSE {})
            \union {data}) \ {Null}

\* The part of HttpTypeOK about main's flags, which the provers take by itself.
Flags == {info, inProgress, available, downloading} \subseteq BOOLEAN

IInv ==
    /\ HttpTypeOK /\ LiveOwned /\ ResultHonest
    /\ ThreadOrder /\ HostKept /\ MainOrder /\ FirstRequest /\ Receiving

\* A step changes some fields of ta_http; g is h but for the fields of F.
Fields == {"running", "done", "cmd", "host", "max", "state", "res", "status", "len", "data"}
Same(g, h, F) == \A x \in Fields \ F : g[x] = h[x]

\* Main has taken the result of the download.
Taken ==
    \/ /\ http.res = "OK" /\ data' = http.data /\ umpc' = "reloc" /\ live' = live
    \/ /\ http.res = "OK" /\ data' = Null /\ umpc' = "frame" /\ live' = live \ {http.data}
    \/ /\ http.res # "OK" /\ data' = Null /\ umpc' = "frame" /\ live' = live

\* A status: none, or what the response's line says.
Codes == {0, 200, 404}

---------------------------------------------------------------------------
(* The writes to ta_http, field by field.                                  *)

Running(h, b) == [h EXCEPT !.running = b]
Command(h, c) == [h EXCEPT !.cmd = c]
Host(h, r) == [h EXCEPT !.host = r]
State(h, c) == [h EXCEPT !.state = c]
Res(h, r) == [h EXCEPT !.res = r]
Status(h, st) == [h EXCEPT !.status = st]
Length(h, n) == [h EXCEPT !.len = n]
Done(h) == [h EXCEPT !.state = "IDLE", !.done = TRUE]
Result(h, r) == [h EXCEPT !.res = r, !.state = "IDLE", !.done = TRUE]
NoBody(h) == [h EXCEPT !.res = "ERR_RECEIVE", !.state = "IDLE", !.done = TRUE, !.data = Null]
BadStatus(h, st) == [h EXCEPT !.status = st, !.res = "ERR_STATUS", !.state = "IDLE", !.done = TRUE]
Body(h, r) == [h EXCEPT !.state = "RECEIVING", !.data = r]
Fetch(h, m) == [h EXCEPT !.done = FALSE, !.cmd = "FETCH", !.max = m]

\* A field of a record is written, whatever the sets its fields are in ...
LEMMA RecordWrites ==
    ASSUME NEW C, NEW P, NEW M, NEW S, NEW R, NEW T, NEW L, NEW X,
           X = [running : BOOLEAN, done : BOOLEAN, cmd : C, host : P, max : M, state : S,
                res : R, status : T, len : L, data : P],
           NEW h \in X
    PROVE  /\ \A x \in BOOLEAN : [h EXCEPT !.running = x] \in X
           /\ \A x \in BOOLEAN : [h EXCEPT !.done = x] \in X
           /\ \A x \in C : [h EXCEPT !.cmd = x] \in X
           /\ \A x \in P : [h EXCEPT !.host = x] \in X
           /\ \A x \in M : [h EXCEPT !.max = x] \in X
           /\ \A x \in S : [h EXCEPT !.state = x] \in X
           /\ \A x \in R : [h EXCEPT !.res = x] \in X
           /\ \A x \in T : [h EXCEPT !.status = x] \in X
           /\ \A x \in L : [h EXCEPT !.len = x] \in X
           /\ \A x \in P : [h EXCEPT !.data = x] \in X
<1>1. ASSUME NEW x \in BOOLEAN PROVE [h EXCEPT !.running = x] \in X
  OBVIOUS
<1>2. ASSUME NEW x \in BOOLEAN PROVE [h EXCEPT !.done = x] \in X
  OBVIOUS
<1>3. ASSUME NEW x \in C PROVE [h EXCEPT !.cmd = x] \in X
  OBVIOUS
<1>4. ASSUME NEW x \in P PROVE [h EXCEPT !.host = x] \in X
  OBVIOUS
<1>5. ASSUME NEW x \in M PROVE [h EXCEPT !.max = x] \in X
  OBVIOUS
<1>6. ASSUME NEW x \in S PROVE [h EXCEPT !.state = x] \in X
  OBVIOUS
<1>7. ASSUME NEW x \in R PROVE [h EXCEPT !.res = x] \in X
  OBVIOUS
<1>8. ASSUME NEW x \in T PROVE [h EXCEPT !.status = x] \in X
  OBVIOUS
<1>9. ASSUME NEW x \in L PROVE [h EXCEPT !.len = x] \in X
  OBVIOUS
<1>10. ASSUME NEW x \in P PROVE [h EXCEPT !.data = x] \in X
  OBVIOUS
<1> QED
  BY <1>1, <1>2, <1>3, <1>4, <1>5, <1>6, <1>7, <1>8, <1>9, <1>10

Commands == {"IDLE", "EXIT", "FETCH"}
States == {"IDLE", "REQUESTING", "RECEIVING"}
Results == {"OK", "ERR_CONNECT", "ERR_REQUEST", "ERR_STATUS", "ERR_TOOBIG", "ERR_RECEIVE"}

\* ... and so of ta_http.
LEMMA FieldWrites ==
    ASSUME NEW h \in TaHttp
    PROVE  /\ \A x \in BOOLEAN : [h EXCEPT !.running = x] \in TaHttp
           /\ \A x \in BOOLEAN : [h EXCEPT !.done = x] \in TaHttp
           /\ \A x \in Commands : [h EXCEPT !.cmd = x] \in TaHttp
           /\ \A x \in Pointer : [h EXCEPT !.host = x] \in TaHttp
           /\ \A x \in {0, MetaMax, DownloadMax} : [h EXCEPT !.max = x] \in TaHttp
           /\ \A x \in States : [h EXCEPT !.state = x] \in TaHttp
           /\ \A x \in Results : [h EXCEPT !.res = x] \in TaHttp
           /\ \A x \in Codes : [h EXCEPT !.status = x] \in TaHttp
           /\ \A x \in Lens : [h EXCEPT !.len = x] \in TaHttp
           /\ \A x \in Pointer : [h EXCEPT !.data = x] \in TaHttp
<1> DEFINE M == {0, MetaMax, DownloadMax}
           L == Lens \union {0}
<1>1. TaHttp = [running : BOOLEAN, done : BOOLEAN, cmd : Commands, host : Pointer, max : M,
                state : States, res : Results, status : Codes, len : L, data : Pointer]
  BY DEF TaHttp, Commands, States, Results, Codes
<1>2. Lens \subseteq L /\ M = {0, MetaMax, DownloadMax}
  OBVIOUS
<1> HIDE DEF M, L
<1>3. /\ \A x \in BOOLEAN : [h EXCEPT !.running = x] \in TaHttp
      /\ \A x \in BOOLEAN : [h EXCEPT !.done = x] \in TaHttp
      /\ \A x \in Commands : [h EXCEPT !.cmd = x] \in TaHttp
      /\ \A x \in Pointer : [h EXCEPT !.host = x] \in TaHttp
      /\ \A x \in M : [h EXCEPT !.max = x] \in TaHttp
      /\ \A x \in States : [h EXCEPT !.state = x] \in TaHttp
      /\ \A x \in Results : [h EXCEPT !.res = x] \in TaHttp
      /\ \A x \in Codes : [h EXCEPT !.status = x] \in TaHttp
      /\ \A x \in L : [h EXCEPT !.len = x] \in TaHttp
      /\ \A x \in Pointer : [h EXCEPT !.data = x] \in TaHttp
  BY <1>1, RecordWrites, Zenon
<1> QED
  BY <1>2, <1>3, Zenon

\* The thread starts or ends.
LEMMA RunningWrites ==
    ASSUME NEW h \in TaHttp, NEW b \in BOOLEAN
    PROVE  /\ Running(h, b) \in TaHttp /\ Running(h, b).running = b
           /\ Same(Running(h, b), h, {"running"})
<1>1. Running(h, b) \in TaHttp
  BY FieldWrites DEF Running
<1>2. Running(h, b).running = b
  BY DEF TaHttp, Running
<1>3. Same(Running(h, b), h, {"running"})
  BY DEF TaHttp, Same, Fields, Running
<1> QED
  BY <1>1, <1>2, <1>3

\* A command is taken, or posted.
LEMMA CommandWrites ==
    ASSUME NEW h \in TaHttp, NEW c \in {"IDLE", "EXIT", "FETCH"}
    PROVE  /\ Command(h, c) \in TaHttp /\ Command(h, c).cmd = c
           /\ Same(Command(h, c), h, {"cmd"})
<1>1. Command(h, c) \in TaHttp
  BY FieldWrites DEF Command, Commands
<1>2. Command(h, c).cmd = c
  BY DEF TaHttp, Command
<1>3. Same(Command(h, c), h, {"cmd"})
  BY DEF TaHttp, Same, Fields, Command
<1> QED
  BY <1>1, <1>2, <1>3

\* The host is set, or forgotten.
LEMMA HostWrites ==
    ASSUME NEW h \in TaHttp, NEW r \in Pointer
    PROVE  /\ Host(h, r) \in TaHttp /\ Host(h, r).host = r
           /\ Same(Host(h, r), h, {"host"})
<1>1. Host(h, r) \in TaHttp
  BY FieldWrites DEF Host
<1>2. Host(h, r).host = r
  BY DEF TaHttp, Host
<1>3. Same(Host(h, r), h, {"host"})
  BY DEF TaHttp, Same, Fields, Host
<1> QED
  BY <1>1, <1>2, <1>3

\* Progress of a request.
LEMMA StateWrites ==
    ASSUME NEW h \in TaHttp, NEW c \in {"IDLE", "REQUESTING", "RECEIVING"}
    PROVE  /\ State(h, c) \in TaHttp /\ State(h, c).state = c
           /\ Same(State(h, c), h, {"state"})
<1>1. State(h, c) \in TaHttp
  BY FieldWrites DEF State, States
<1>2. State(h, c).state = c
  BY DEF TaHttp, State
<1>3. Same(State(h, c), h, {"state"})
  BY DEF TaHttp, Same, Fields, State
<1> QED
  BY <1>1, <1>2, <1>3

\* The second half of publishing a failure.
LEMMA ResWrites ==
    ASSUME NEW h \in TaHttp, NEW r \in {"OK", "ERR_CONNECT", "ERR_REQUEST"}
    PROVE  /\ Res(h, r) \in TaHttp /\ Res(h, r).res = r
           /\ Same(Res(h, r), h, {"res"})
<1>1. Res(h, r) \in TaHttp
  BY FieldWrites DEF Res, Results
<1>2. Res(h, r).res = r
  BY DEF TaHttp, Res
<1>3. Same(Res(h, r), h, {"res"})
  BY DEF TaHttp, Same, Fields, Res
<1> QED
  BY <1>1, <1>2, <1>3

\* A status line.
LEMMA StatusWrites ==
    ASSUME NEW h \in TaHttp, NEW st \in {200, 404}
    PROVE  /\ Status(h, st) \in TaHttp /\ Status(h, st).status = st
           /\ Same(Status(h, st), h, {"status"})
<1>1. Status(h, st) \in TaHttp
  <2>1. st \in Codes
    BY DEF Codes
  <2> QED
    <3>1. \A x \in Codes : [h EXCEPT !.status = x] \in TaHttp
      BY FieldWrites, Zenon
    <3> QED
      BY <2>1, <3>1 DEF Status
<1>2. Status(h, st).status = st
  BY DEF TaHttp, Status
<1>3. Same(Status(h, st), h, {"status"})
  BY DEF TaHttp, Same, Fields, Status
<1> QED
  BY <1>1, <1>2, <1>3

\* A length line.
LEMMA LengthWrites ==
    ASSUME NEW h \in TaHttp, NEW n \in Lens
    PROVE  /\ Length(h, n) \in TaHttp /\ Length(h, n).len = n
           /\ Same(Length(h, n), h, {"len"})
<1>1. Length(h, n) \in TaHttp
  BY FieldWrites DEF Length
<1>2. Length(h, n).len = n
  BY DEF TaHttp, Length
<1>3. Same(Length(h, n), h, {"len"})
  BY DEF TaHttp, Same, Fields, Length
<1> QED
  BY <1>1, <1>2, <1>3

\* The thread is done, its result still to be written.
LEMMA DoneWrites ==
    ASSUME NEW h \in TaHttp
    PROVE  /\ Done(h) \in TaHttp /\ Done(h).state = "IDLE" /\ Done(h).done = TRUE
           /\ Same(Done(h), h, {"state", "done"})
<1>1. Done(h) \in TaHttp
  <2> DEFINE k1 == [h EXCEPT !.state = "IDLE"]
             k2 == [k1 EXCEPT !.done = TRUE]
  <2>1. k1 \in TaHttp
    BY FieldWrites DEF States
  <2>2. k2 \in TaHttp
    <3> HIDE DEF k1
    <3> QED
      BY <2>1, FieldWrites
  <2>3. k2 = Done(h)
    BY DEF TaHttp, Done
  <2> QED
    BY <2>2, <2>3
<1>2. Done(h).state = "IDLE" /\ Done(h).done = TRUE
  BY DEF TaHttp, Done
<1>3. Same(Done(h), h, {"state", "done"})
  BY DEF TaHttp, Same, Fields, Done
<1> QED
  BY <1>1, <1>2, <1>3

\* The thread is done, with a result.
LEMMA ResultWrites ==
    ASSUME NEW h \in TaHttp, NEW r \in {"OK", "ERR_TOOBIG", "ERR_RECEIVE"}
    PROVE  /\ Result(h, r) \in TaHttp /\ Result(h, r).res = r
           /\ Result(h, r).state = "IDLE" /\ Result(h, r).done = TRUE
           /\ Same(Result(h, r), h, {"res", "state", "done"})
<1>1. Result(h, r) \in TaHttp
  <2> DEFINE k1 == [h EXCEPT !.res = r]
             k2 == [k1 EXCEPT !.state = "IDLE"]
             k3 == [k2 EXCEPT !.done = TRUE]
  <2>1. k1 \in TaHttp
    BY FieldWrites DEF Results
  <2>2. k2 \in TaHttp
    <3> HIDE DEF k1
    <3> QED
      BY <2>1, FieldWrites DEF States
  <2>3. k3 \in TaHttp
    <3> HIDE DEF k2
    <3> QED
      BY <2>2, FieldWrites
  <2>4. k3 = Result(h, r)
    BY DEF TaHttp, Result
  <2> QED
    BY <2>3, <2>4
<1>2. Result(h, r).res = r /\ Result(h, r).state = "IDLE" /\ Result(h, r).done = TRUE
  BY DEF TaHttp, Result
<1>3. Same(Result(h, r), h, {"res", "state", "done"})
  BY DEF TaHttp, Same, Fields, Result
<1> QED
  BY <1>1, <1>2, <1>3

\* ... and without the body.
LEMMA NoBodyWrites ==
    ASSUME NEW h \in TaHttp
    PROVE  /\ NoBody(h) \in TaHttp /\ NoBody(h).res = "ERR_RECEIVE" /\ NoBody(h).state = "IDLE"
           /\ NoBody(h).done = TRUE /\ NoBody(h).data = Null
           /\ Same(NoBody(h), h, {"res", "state", "done", "data"})
<1>1. NoBody(h) \in TaHttp
  <2> DEFINE k == Result(h, "ERR_RECEIVE")
  <2>1. k \in TaHttp
    BY ResultWrites
  <2>2. [k EXCEPT !.data = Null] \in TaHttp
    <3> HIDE DEF k
    <3> QED
      BY <2>1, FieldWrites DEF Pointer, Null
  <2>3. [k EXCEPT !.data = Null] = NoBody(h)
    BY DEF TaHttp, NoBody, Result
  <2> QED
    BY <2>2, <2>3
<1>2. /\ NoBody(h).res = "ERR_RECEIVE" /\ NoBody(h).state = "IDLE"
      /\ NoBody(h).done = TRUE /\ NoBody(h).data = Null
  BY DEF TaHttp, NoBody
<1>3. Same(NoBody(h), h, {"res", "state", "done", "data"})
  BY DEF TaHttp, Same, Fields, NoBody
<1> QED
  BY <1>1, <1>2, <1>3

\* ... or with another status.
LEMMA BadStatusWrites ==
    ASSUME NEW h \in TaHttp, NEW st \in Codes
    PROVE  /\ BadStatus(h, st) \in TaHttp /\ BadStatus(h, st).res = "ERR_STATUS"
           /\ BadStatus(h, st).state = "IDLE" /\ BadStatus(h, st).done = TRUE
           /\ Same(BadStatus(h, st), h, {"status", "res", "state", "done"})
<1>1. BadStatus(h, st) \in TaHttp
  <2> DEFINE k == [h EXCEPT !.status = st]
             n == [k EXCEPT !.res = "ERR_STATUS"]
  <2>1. k \in TaHttp
    BY FieldWrites
  <2>2. n \in TaHttp
    <3> HIDE DEF k
    <3> QED
      BY <2>1, FieldWrites DEF Results
  <2>3. Done(n) \in TaHttp
    <3> HIDE DEF n
    <3> QED
      BY <2>2, DoneWrites
  <2>4. Done(n) = BadStatus(h, st)
    BY DEF TaHttp, BadStatus, Done
  <2> QED
    BY <2>3, <2>4
<1>2. /\ BadStatus(h, st).res = "ERR_STATUS" /\ BadStatus(h, st).state = "IDLE"
      /\ BadStatus(h, st).done = TRUE
  BY DEF TaHttp, BadStatus
<1>3. Same(BadStatus(h, st), h, {"status", "res", "state", "done"})
  BY DEF TaHttp, Same, Fields, BadStatus
<1> QED
  BY <1>1, <1>2, <1>3

\* A body is received.
LEMMA BodyWrites ==
    ASSUME NEW h \in TaHttp, NEW r \in Requests
    PROVE  /\ Body(h, r) \in TaHttp /\ Body(h, r).state = "RECEIVING" /\ Body(h, r).data = r
           /\ Same(Body(h, r), h, {"state", "data"})
<1>1. Body(h, r) \in TaHttp
  <2> DEFINE k1 == [h EXCEPT !.state = "RECEIVING"]
             k2 == [k1 EXCEPT !.data = r]
  <2>1. k1 \in TaHttp
    BY FieldWrites DEF States
  <2>2. k2 \in TaHttp
    <3> HIDE DEF k1
    <3> QED
      BY <2>1, FieldWrites DEF Pointer, Null
  <2>3. k2 = Body(h, r)
    BY DEF TaHttp, Body
  <2> QED
    BY <2>2, <2>3
<1>2. Body(h, r).state = "RECEIVING" /\ Body(h, r).data = r
  BY DEF TaHttp, Body
<1>3. Same(Body(h, r), h, {"state", "data"})
  BY DEF TaHttp, Same, Fields, Body
<1> QED
  BY <1>1, <1>2, <1>3

\* A request is posted.
LEMMA FetchWrites ==
    ASSUME NEW h \in TaHttp, NEW m \in {MetaMax, DownloadMax}
    PROVE  /\ Fetch(h, m) \in TaHttp /\ Fetch(h, m).done = FALSE
           /\ Fetch(h, m).cmd = "FETCH" /\ Fetch(h, m).max = m
           /\ Same(Fetch(h, m), h, {"done", "cmd", "max"})
<1>1. Fetch(h, m) \in TaHttp
  <2> DEFINE k1 == [h EXCEPT !.done = FALSE]
             k2 == [k1 EXCEPT !.cmd = "FETCH"]
             k3 == [k2 EXCEPT !.max = m]
  <2>1. k1 \in TaHttp
    BY FieldWrites
  <2>2. k2 \in TaHttp
    <3> HIDE DEF k1
    <3> QED
      BY <2>1, FieldWrites DEF Commands
  <2>3. k3 \in TaHttp
    <3> HIDE DEF k2
    <3> QED
      BY <2>2, FieldWrites
  <2>4. k3 = Fetch(h, m)
    BY DEF TaHttp, Fetch
  <2> QED
    BY <2>3, <2>4
<1>2. Fetch(h, m).done = FALSE /\ Fetch(h, m).cmd = "FETCH" /\ Fetch(h, m).max = m
  BY DEF TaHttp, Fetch
<1>3. Same(Fetch(h, m), h, {"done", "cmd", "max"})
  BY DEF TaHttp, Same, Fields, Fetch
<1> QED
  BY <1>1, <1>2, <1>3

\* The top of the thread's loop.
LEMMA LoopWrites ==
    ASSUME NEW h \in TaHttp, Loop(h)
    PROVE  /\ http' \in TaHttp
           /\ \/ h.cmd = "IDLE" /\ hPc' = "wait" /\ http' = h
              \/ /\ h.cmd = "EXIT" /\ hPc' = "done"
                 /\ http'.running = FALSE /\ Same(http', h, {"running"})
              \/ /\ h.cmd = "FETCH" /\ hPc' = "connect"
                 /\ http'.cmd = "IDLE" /\ Same(http', h, {"cmd"})
<1>1. \/ h.cmd = "IDLE" /\ hPc' = "wait" /\ http' = h
      \/ h.cmd = "EXIT" /\ hPc' = "done" /\ http' = Running(h, FALSE)
      \/ h.cmd = "FETCH" /\ hPc' = "connect" /\ http' = Command(h, "IDLE")
  BY DEF Loop, Running, Command
<1>2. /\ Running(h, FALSE) \in TaHttp /\ Running(h, FALSE).running = FALSE
      /\ Same(Running(h, FALSE), h, {"running"})
  BY RunningWrites
<1>3. /\ Command(h, "IDLE") \in TaHttp /\ Command(h, "IDLE").cmd = "IDLE"
      /\ Same(Command(h, "IDLE"), h, {"cmd"})
  BY CommandWrites
<1> QED
  BY <1>1, <1>2, <1>3

\* What the header decides.
LEMMA HeadWrites ==
    ASSUME NEW h \in TaHttp, request \in Requests, ResponseHead(h)
    PROVE  /\ http' \in TaHttp
           /\ \/ /\ hPc' = "close" /\ live' = live /\ http'.res # "OK"
                 /\ http'.state = "IDLE" /\ http'.done = TRUE
                 /\ Same(http', h, {"status", "res", "state", "done"})
              \/ /\ hPc' = "receive" /\ live' = live \union {request}
                 /\ h.status = 200 /\ h.len \in 1..h.max
                 /\ http'.data = request /\ http'.state = "RECEIVING"
                 /\ Same(http', h, {"state", "data"})
<1>1. h.status \in {0, 200, 404} /\ h.len \in Nat /\ h.max \in Nat
  <2>1. /\ h.status \in {0, 200, 404} /\ h.len \in Lens \union {0}
        /\ h.max \in {0, MetaMax, DownloadMax}
    BY DEF TaHttp
  <2>2. h.len \in Lens \/ h.len = 0
    BY <2>1
  <2>3. h.len \in Nat
    <3>1. CASE h.len \in Lens
      BY <3>1, HttpAssumption
    <3>2. CASE h.len = 0
      BY <3>2
    <3> QED
      BY <2>2, <3>1, <3>2
  <2>4. h.max \in Nat
    BY <2>1, HttpAssumption
  <2> QED
    BY <2>1, <2>3, <2>4
<1>2. CASE h.status # 200 \/ h.len < 1
  <2>1. http' = BadStatus(h, 404) \/ http' = BadStatus(h, h.status)
    BY <1>2 DEF ResponseHead, BadStatus
  <2>2. ASSUME NEW st \in Codes, http' = BadStatus(h, st)
        PROVE  /\ http' \in TaHttp /\ http'.res = "ERR_STATUS" /\ http'.state = "IDLE"
               /\ http'.done = TRUE /\ Same(http', h, {"status", "res", "state", "done"})
    <3>1. /\ BadStatus(h, st) \in TaHttp /\ BadStatus(h, st).res = "ERR_STATUS"
          /\ BadStatus(h, st).state = "IDLE" /\ BadStatus(h, st).done = TRUE
          /\ Same(BadStatus(h, st), h, {"status", "res", "state", "done"})
      BY BadStatusWrites
    <3> QED
      BY <2>2, <3>1
  <2>3. hPc' = "close" /\ live' = live
    BY <1>2 DEF ResponseHead
  <2> QED
    <3>1. 404 \in Codes /\ h.status \in Codes
      BY <1>1 DEF Codes
    <3>2. PICK st \in Codes : http' = BadStatus(h, st)
      BY <2>1, <3>1
    <3> QED
      BY <2>2, <2>3, <3>2
<1>3. CASE ~(h.status # 200 \/ h.len < 1) /\ h.len > h.max
  <2>1. http' = Result(h, "ERR_TOOBIG") /\ hPc' = "close" /\ live' = live
    BY <1>3 DEF ResponseHead, Result
  <2>2. /\ http' \in TaHttp /\ http'.res = "ERR_TOOBIG" /\ http'.state = "IDLE"
        /\ http'.done = TRUE /\ Same(http', h, {"res", "state", "done"})
    BY <2>1, ResultWrites
  <2> QED
    BY <2>1, <2>2 DEF Same
<1>4. CASE ~(h.status # 200 \/ h.len < 1) /\ ~(h.len > h.max)
  <2>1. http' = Body(h, request) /\ hPc' = "receive" /\ live' = live \union {request}
    BY <1>4 DEF ResponseHead, Body
  <2>2. h.status = 200 /\ h.len \in 1..h.max
    BY <1>1, <1>4
  <2>3. /\ http' \in TaHttp /\ http'.data = request /\ http'.state = "RECEIVING"
        /\ Same(http', h, {"state", "data"})
    BY <2>1, BodyWrites
  <2> QED
    BY <2>1, <2>2, <2>3
<1> QED
  BY <1>2, <1>3, <1>4

---------------------------------------------------------------------------
\* Before the thread has started.
LEMMA InitIInv == HttpInit => IInv
<1> SUFFICES ASSUME HttpInit PROVE IInv
  OBVIOUS
<1> USE HttpAssumption DEF HttpInit, IInv, HttpTypeOK, LiveOwned, Published, ResultHonest,
   ThreadOrder, HostKept, MainOrder, FirstRequest, Receiving, InFlight, Requests, Pointer,
   Null, Missing, MutexFree, Fields, Same
<1>1. http \in TaHttp /\ served \in [status : {Missing, 200, 404}, len : Lens \union {Missing}]
  BY DEF TaHttp
<1>2. HttpTypeOK
  <2>1. Flags
    BY DEF Flags
  <2> QED
    BY <1>1, <2>1 DEF Flags
<1>3. LiveOwned /\ ResultHonest
  OBVIOUS
<1>4. ThreadOrder /\ HostKept /\ MainOrder /\ FirstRequest /\ Receiving
  OBVIOUS
<1> QED
  BY <1>2, <1>3, <1>4

\* The thread between its calls of the network.
LEMMA LocalKeepsIInv == IInv /\ (HLocal) => IInv'
<1> SUFFICES ASSUME IInv, HLocal PROVE IInv'
  OBVIOUS
<1>a. http \in TaHttp /\ request \in Pointer /\ hTries \in 0..HTries
  BY DEF IInv, HttpTypeOK
<1>1. CASE HStart
  <2>1. http' = Running(http, TRUE)
    BY <1>1 DEF HStart, Running
  <2>2. http' \in TaHttp
    BY <1>a, <2>1, RunningWrites DEF Pointer, Requests, Null
  <2>3. /\ hPc = "start" /\ hPc' = "started"
        /\ http'.running = TRUE /\ Same(http', http, {"running"})
    BY <1>a, <1>1, <2>1, RunningWrites DEF HStart, Pointer, Requests, Null, Missing
  <2>4. UNCHANGED <<served, live, update, hMain>>
    BY <1>1 DEF HStart, thread, update
  <2> QED
    BY <2>2, <2>3, <2>4, HttpAssumption DEF update, hMain, IInv, HttpTypeOK, LiveOwned,
       Published, ResultHonest, ThreadOrder, HostKept, MainOrder, FirstRequest, Receiving,
       InFlight, Requests, Pointer, Null, Missing, MutexFree, Fields, Same
<1>2. CASE HLock
  <2>1. Loop(Done(http))
    BY <1>2 DEF HLock, Done
  <2>2. http' \in TaHttp
    BY <1>a, <2>1, DoneWrites, LoopWrites DEF Pointer, Requests, Null
  <2>3. /\ hPc = "started"
        /\ \E h \in TaHttp :
              /\ h.state = "IDLE" /\ h.done = TRUE /\ Same(h, http, {"state", "done"})
              /\ \/ h.cmd = "IDLE" /\ hPc' = "wait" /\ http' = h
                 \/ /\ h.cmd = "EXIT" /\ hPc' = "done"
                    /\ http'.running = FALSE /\ Same(http', h, {"running"})
                 \/ /\ h.cmd = "FETCH" /\ hPc' = "connect"
                    /\ http'.cmd = "IDLE" /\ Same(http', h, {"cmd"})
    BY <1>a, <1>2, <2>1, DoneWrites, LoopWrites DEF HLock, Pointer, Requests, Null, Missing,
       thread
  <2>4. UNCHANGED <<served, live, update, hMain>>
    BY <1>2 DEF HLock, thread, update
  <2> QED
    BY <2>2, <2>3, <2>4, HttpAssumption DEF update, hMain, IInv, HttpTypeOK, LiveOwned,
       Published, ResultHonest, ThreadOrder, HostKept, MainOrder, FirstRequest, Receiving,
       InFlight, Requests, Pointer, Null, Missing, MutexFree, Fields, Same
<1>3. CASE HWake
  <2>1. Loop(http)
    BY <1>3 DEF HWake
  <2>2. http' \in TaHttp
    BY <1>a, <2>1, LoopWrites DEF Pointer, Requests, Null
  <2>3. /\ hPc = "woken"
        /\ \/ http.cmd = "IDLE" /\ hPc' = "wait" /\ http' = http
           \/ /\ http.cmd = "EXIT" /\ hPc' = "done"
              /\ http'.running = FALSE /\ Same(http', http, {"running"})
           \/ /\ http.cmd = "FETCH" /\ hPc' = "connect"
              /\ http'.cmd = "IDLE" /\ Same(http', http, {"cmd"})
    BY <1>a, <1>3, <2>1, LoopWrites DEF HWake, Pointer, Requests, Null, Missing
  <2>4. UNCHANGED <<served, live, update, hMain>>
    BY <1>3 DEF HWake, thread, update
  <2> QED
    BY <2>2, <2>3, <2>4, HttpAssumption DEF update, hMain, IInv, HttpTypeOK, LiveOwned,
       Published, ResultHonest, ThreadOrder, HostKept, MainOrder, FirstRequest, Receiving,
       InFlight, Requests, Pointer, Null, Missing, MutexFree, Fields, Same
<1>4. CASE HFailed
  <2>1. \E r \in {"ERR_CONNECT", "ERR_REQUEST"} : http' = Res(http, r)
    BY <1>4 DEF HFailed, Res
  <2>2. http' \in TaHttp
    BY <1>a, <2>1, ResWrites DEF Pointer, Requests, Null
  <2>3. /\ \/ hPc = "unconnected" /\ hPc' = "wait"
           \/ hPc = "unsent" /\ hPc' = "close"
        /\ http'.res # "OK" /\ Same(http', http, {"res"})
    BY <1>a, <1>4, <2>1, ResWrites DEF HFailed, Pointer, Requests, Null, Missing
  <2>4. UNCHANGED <<served, live, update, hMain>>
    BY <1>4 DEF HFailed, thread, update
  <2> QED
    BY <2>2, <2>3, <2>4, HttpAssumption DEF update, hMain, IInv, HttpTypeOK, LiveOwned,
       Published, ResultHonest, ThreadOrder, HostKept, MainOrder, FirstRequest, Receiving,
       InFlight, Requests, Pointer, Null, Missing, MutexFree, Fields, Same
<1> QED
  BY <1>1, <1>2, <1>3, <1>4 DEF HLocal

\* The thread's calls of the network.
LEMMA NetKeepsIInv == IInv /\ (HNet) => IInv'
<1> SUFFICES ASSUME IInv, HNet PROVE IInv'
  OBVIOUS
<1>a. http \in TaHttp /\ request \in Pointer /\ hTries \in 0..HTries
  BY DEF IInv, HttpTypeOK
<1>b. hPc = "head" => request \in Requests
  BY <1>a DEF IInv, HostKept, InFlight, Pointer, Null
<1>1. CASE HConnect
  <2>1. \/ hPc' = "request" /\ http' = State(http, "REQUESTING")
        \/ hPc' = "unconnected" /\ http' = Done(http)
    BY <1>1 DEF HConnect, State, Done
  <2>2. http' \in TaHttp
    BY <1>a, <2>1, StateWrites, DoneWrites DEF Pointer, Requests, Null
  <2>3. /\ hPc = "connect"
        /\ \/ /\ hPc' = "request" /\ http'.state = "REQUESTING"
              /\ Same(http', http, {"state"})
           \/ /\ hPc' = "unconnected" /\ http'.state = "IDLE" /\ http'.done = TRUE
              /\ Same(http', http, {"state", "done"})
    BY <1>a, <1>1, <2>1, StateWrites, DoneWrites DEF HConnect, Pointer, Requests, Null,
       Missing
  <2>4. UNCHANGED <<served, live, update, hMain>>
    BY <1>1 DEF HConnect, thread, update
  <2> QED
    BY <2>2, <2>3, <2>4, HttpAssumption DEF update, hMain, IInv, HttpTypeOK, LiveOwned,
       Published, ResultHonest, ThreadOrder, HostKept, MainOrder, FirstRequest, Receiving,
       InFlight, Requests, Pointer, Null, Missing, MutexFree, Fields, Same
<1>2. CASE HRequest
  <2>1. \/ hPc' = "head" /\ http' = http /\ served' = [status |-> Missing, len |-> Missing]
        \/ hPc' = "unsent" /\ http' = Done(http) /\ served' = served
    BY <1>2 DEF HRequest, Done
  <2>2. http' \in TaHttp
    BY <1>a, <2>1, DoneWrites DEF Pointer, Requests, Null
  <2>3. /\ hPc = "request"
        /\ \/ /\ hPc' = "head" /\ http' = http
              /\ served' = [status |-> Missing, len |-> Missing]
           \/ /\ hPc' = "unsent" /\ served' = served
              /\ http'.state = "IDLE" /\ http'.done = TRUE /\ Same(http', http, {"state", "done"})
    BY <1>a, <1>2, <2>1, DoneWrites DEF HRequest, Pointer, Requests, Null, Missing
  <2>4. UNCHANGED <<live, update, hMain>>
    BY <1>2 DEF HRequest, thread, update
  <2> QED
    BY <2>2, <2>3, <2>4, HttpAssumption DEF update, hMain, IInv, HttpTypeOK, LiveOwned,
       Published, ResultHonest, ThreadOrder, HostKept, MainOrder, FirstRequest, Receiving,
       InFlight, Requests, Pointer, Null, Missing, MutexFree, Fields, Same
<1>3. CASE HLine
  <2>1. \/ \E st \in {200, 404} :
              /\ served.status = Missing /\ served' = [served EXCEPT !.status = st]
              /\ http' = Status(http, st)
        \/ \E n \in Lens :
              /\ served.len = Missing /\ served' = [served EXCEPT !.len = n]
              /\ http' = Length(http, n)
    BY <1>3 DEF HLine, Status, Length
  <2>2. http' \in TaHttp
    BY <1>a, <2>1, StatusWrites, LengthWrites DEF Pointer, Requests, Null
  <2>3. /\ hPc = "head" /\ hPc' = "head"
        /\ \/ \E st \in {200, 404} :
                 /\ served.status = Missing /\ served' = [served EXCEPT !.status = st]
                 /\ http'.status = st /\ Same(http', http, {"status"})
           \/ \E n \in Lens :
                 /\ served.len = Missing /\ served' = [served EXCEPT !.len = n]
                 /\ http'.len = n /\ Same(http', http, {"len"})
    BY <1>a, <1>3, <2>1, StatusWrites, LengthWrites DEF HLine, Pointer, Requests, Null,
       Missing
  <2>4. UNCHANGED <<live, update, hMain>>
    BY <1>3 DEF HLine, thread, update
  <2> QED
    BY <2>2, <2>3, <2>4, HttpAssumption DEF update, hMain, IInv, HttpTypeOK, LiveOwned,
       Published, ResultHonest, ThreadOrder, HostKept, MainOrder, FirstRequest, Receiving,
       InFlight, Requests, Pointer, Null, Missing, MutexFree, Fields, Same
<1>4. CASE HHead
  <2>1. PICK h \in {http, Status(http, 404)} : ResponseHead(h)
    BY <1>4 DEF HHead, Status
  <2>2. /\ Status(http, 404) \in TaHttp /\ Status(http, 404).status = 404
        /\ Same(Status(http, 404), http, {"status"})
    BY <1>a, StatusWrites
  <2>3. h \in TaHttp /\ Same(h, http, {"status"}) /\ (h.status = 404 \/ h = http)
    BY <1>a, <2>1, <2>2 DEF Same
  <2>4. request \in Requests /\ hPc = "head"
    BY <1>4, <1>b DEF HHead
  <2>5. /\ http' \in TaHttp
        /\ \/ /\ hPc' = "close" /\ live' = live /\ http'.res # "OK"
              /\ http'.state = "IDLE" /\ http'.done = TRUE
              /\ Same(http', h, {"status", "res", "state", "done"})
           \/ /\ hPc' = "receive" /\ live' = live \union {request}
              /\ h.status = 200 /\ h.len \in 1..h.max
              /\ http'.data = request /\ http'.state = "RECEIVING"
              /\ Same(http', h, {"state", "data"})
    BY <2>1, <2>3, <2>4, HeadWrites
  <2>6. UNCHANGED <<served, update, hMain>>
    BY <1>4 DEF HHead
  <2>7. CASE hPc' = "close" /\ live' = live
    <3>1. /\ http'.res # "OK" /\ http'.state = "IDLE" /\ http'.done = TRUE
          /\ Same(http', http, {"status", "res", "state", "done"})
      BY <2>3, <2>5, <2>7 DEF Same
    <3> QED
      BY <2>4, <2>5, <2>6, <2>7, <3>1, HttpAssumption DEF update, hMain, IInv, HttpTypeOK,
         LiveOwned, Published, ResultHonest, ThreadOrder, HostKept, MainOrder, FirstRequest,
         Receiving, InFlight, Requests, Pointer, Null, Missing, MutexFree, Fields, Same
  <2>8. CASE hPc' = "receive"
    <3>1. /\ live' = live \union {request} /\ http.status = 200 /\ http.len \in 1..http.max
          /\ http'.data = request /\ http'.state = "RECEIVING"
          /\ Same(http', http, {"state", "data"})
      BY <2>3, <2>5, <2>8 DEF Same, Fields
    <3> QED
      BY <2>4, <2>5, <2>6, <2>8, <3>1, HttpAssumption DEF update, hMain, IInv, HttpTypeOK,
         LiveOwned, Published, ResultHonest, ThreadOrder, HostKept, MainOrder, FirstRequest,
         Receiving, InFlight, Requests, Pointer, Null, Missing, MutexFree, Fields, Same
  <2> QED
    BY <2>5, <2>7, <2>8
<1>5. CASE HReceive
  <2>1. \/ http' = Result(http, "OK") /\ live' = live
        \/ http' = NoBody(http) /\ live' = live \ {http.data}
    BY <1>5 DEF HReceive, Result, NoBody
  <2>2. /\ hPc = "receive" /\ hPc' = "close"
        /\ UNCHANGED <<served, update, hMain>>
    BY <1>5 DEF HReceive
  <2>3. CASE http' = Result(http, "OK") /\ live' = live
    <3>1. /\ http' \in TaHttp /\ http'.res = "OK" /\ http'.state = "IDLE"
          /\ http'.done = TRUE /\ Same(http', http, {"res", "state", "done"})
      BY <1>a, <2>3, ResultWrites
    <3> QED
      BY <2>2, <2>3, <3>1, HttpAssumption DEF update, hMain, IInv, HttpTypeOK, LiveOwned,
         Published, ResultHonest, ThreadOrder, HostKept, MainOrder, FirstRequest, Receiving,
         InFlight, Requests, Pointer, Null, Missing, MutexFree, Fields, Same
  <2>4. CASE http' = NoBody(http) /\ live' = live \ {http.data}
    <3>1. /\ http' \in TaHttp /\ http'.res = "ERR_RECEIVE" /\ http'.state = "IDLE"
          /\ http'.done = TRUE /\ http'.data = Null
          /\ Same(http', http, {"res", "state", "done", "data"})
      BY <1>a, <2>4, NoBodyWrites
    <3> QED
      BY <2>2, <2>4, <3>1, HttpAssumption DEF update, hMain, IInv, HttpTypeOK, LiveOwned,
         Published, ResultHonest, ThreadOrder, HostKept, MainOrder, FirstRequest, Receiving,
         InFlight, Requests, Pointer, Null, Missing, MutexFree, Fields, Same
  <2> QED
    BY <2>1, <2>3, <2>4
<1>6. CASE HClose
  <2>1. Loop(http)
    BY <1>6 DEF HClose
  <2>2. http' \in TaHttp
    BY <1>a, <2>1, LoopWrites DEF Pointer, Requests, Null
  <2>3. /\ hPc = "close"
        /\ \/ http.cmd = "IDLE" /\ hPc' = "wait" /\ http' = http
           \/ /\ http.cmd = "EXIT" /\ hPc' = "done"
              /\ http'.running = FALSE /\ Same(http', http, {"running"})
           \/ /\ http.cmd = "FETCH" /\ hPc' = "connect"
              /\ http'.cmd = "IDLE" /\ Same(http', http, {"cmd"})
    BY <1>a, <1>6, <2>1, LoopWrites DEF HClose, Pointer, Requests, Null, Missing
  <2>4. UNCHANGED <<served, live, update, hMain>>
    BY <1>6 DEF HClose, thread, update
  <2> QED
    BY <2>2, <2>3, <2>4, HttpAssumption DEF update, hMain, IInv, HttpTypeOK, LiveOwned,
       Published, ResultHonest, ThreadOrder, HostKept, MainOrder, FirstRequest, Receiving,
       InFlight, Requests, Pointer, Null, Missing, MutexFree, Fields, Same
<1> QED
  BY <1>1, <1>2, <1>3, <1>4, <1>5, <1>6 DEF HNet

\* The check for an update.
LEMMA CheckKeepsIInv ==
    IInv /\ (Post \/ MCount \/ MSignal \/ MFetched \/ MValidate \/ MParseNull)
      => IInv'
<1> SUFFICES ASSUME IInv, Post \/ MCount \/ MSignal \/ MFetched \/ MValidate \/ MParseNull
             PROVE IInv'
  OBVIOUS
<1>a. http \in TaHttp /\ request \in Pointer /\ hTries \in 0..HTries
  BY DEF IInv, HttpTypeOK
<1>f. Flags
  BY DEF IInv, HttpTypeOK, Flags
<1>b. umpc = "request" => hPc # "woken" /\ hPc \notin {"start", "started", "done"}
  BY DEF IInv, MainOrder
<1>r. umpc = "frame" /\ http.running /\ http.done =>
      hPc \in {"wait", "unconnected", "unsent", "close"}
  BY <1>a DEF IInv, HttpTypeOK, ThreadOrder, InFlight, TaHttp
<1>1. CASE Post
  <2>1. PICK m \in {MetaMax, DownloadMax} :
          http' = Fetch(http, m) /\ m = (IF request = 1 THEN MetaMax ELSE DownloadMax)
    BY <1>1 DEF Post, Fetch
  <2>a. /\ http' \in TaHttp /\ http'.done = FALSE /\ http'.cmd = "FETCH" /\ http'.max = m
        /\ Same(http', http, {"done", "cmd", "max"})
    BY <1>a, <2>1, FetchWrites
  <2>2. http' \in TaHttp
    BY <2>a
  <2>b. /\ umpc = "request" /\ hPc = "wait" /\ hPc' = "woken"
        /\ IF request = 1
           THEN us' = "FETCH_META" /\ inProgress' = TRUE /\ umpc' = "frame"
           ELSE us' = us /\ inProgress' = inProgress /\ umpc' = "poll"
    BY <1>b, <1>1 DEF Post, CmutexFree, HWoken
  <2>3. /\ umpc = "request" /\ hPc = "wait" /\ hPc' = "woken"
        /\ http'.done = FALSE /\ http'.cmd = "FETCH" /\ Same(http', http, {"done", "cmd", "max"})
        /\ http'.max = (IF request = 1 THEN MetaMax ELSE DownloadMax)
        /\ IF request = 1
           THEN us' = "FETCH_META" /\ inProgress' = TRUE /\ umpc' = "frame"
           ELSE us' = us /\ inProgress' = inProgress /\ umpc' = "poll"
    BY <2>1, <2>a, <2>b
  <2>4. UNCHANGED <<served, live, info, update_data, data, downloading, check,
                    available, hTries, request>>
    BY <1>1 DEF Post, thread, update
  <2>5. Flags'
    BY <1>f, <2>3, <2>4 DEF Flags, update
  <2> USE <2>2, <2>3, <2>4, HttpAssumption DEF update, hMain, IInv, HttpTypeOK, LiveOwned,
     Published, ResultHonest, ThreadOrder, HostKept, MainOrder, FirstRequest, Receiving,
     InFlight, Requests, Pointer, Null, Missing, MutexFree, Fields, Same
  <2>6. HttpTypeOK'
    BY <2>5 DEF Flags
  <2>7. LiveOwned'
    OBVIOUS
  <2>8. ResultHonest'
    OBVIOUS
  <2>9. ThreadOrder'
    OBVIOUS
  <2>10. HostKept'
    OBVIOUS
  <2>11. MainOrder'
    OBVIOUS
  <2>12. FirstRequest'
    OBVIOUS
  <2>13. Receiving'
    OBVIOUS
  <2> QED
    BY <2>6, <2>7, <2>8, <2>9, <2>10, <2>11, <2>12, <2>13
<1>2. CASE MCount
  BY <1>2, HttpAssumption DEF MCount, thread, update, hMain, IInv, HttpTypeOK, LiveOwned,
     Published, ResultHonest, ThreadOrder, HostKept, MainOrder, FirstRequest, Receiving,
     InFlight, Requests, Pointer, Null, Missing, MutexFree, Fields, Same
<1>3. CASE MSignal
  <2>1. \/ http.running /\ http.done /\ http' = Host(http, 1) /\ request' = 1 /\ umpc' = "request"
        \/ UNCHANGED <<http, umpc, request>>
    BY <1>3 DEF MSignal, Ask, http_ready, Host
  <2>2. http' \in TaHttp
    BY <1>a, <2>1, HostWrites DEF Pointer, Requests, Null
  <2>3. /\ umpc = "frame" /\ check = 0 /\ check' = -1
        /\ \/ /\ http.running /\ http.done /\ request' = 1 /\ umpc' = "request"
              /\ http'.host = 1 /\ Same(http', http, {"host"})
           \/ UNCHANGED <<http, umpc, request>>
    BY <1>a, <1>3, <2>1, HostWrites DEF MSignal, Ask, http_ready, Pointer, Requests, Null,
       Missing
  <2>4. UNCHANGED <<hPc, served, live, update, inProgress, available, hTries>>
    BY <1>3 DEF MSignal, thread, update
  <2>5. Flags'
    BY <1>f, <2>3, <2>4 DEF Flags, update
  <2> USE <2>2, <2>3, <2>4, HttpAssumption DEF update, hMain, IInv, HttpTypeOK, LiveOwned,
     Published, ResultHonest, ThreadOrder, HostKept, MainOrder, FirstRequest, Receiving,
     InFlight, Requests, Pointer, Null, Missing, MutexFree, Fields, Same
  <2>6. HttpTypeOK'
    BY <2>5 DEF Flags
  <2>7. LiveOwned'
    OBVIOUS
  <2>8. ResultHonest'
    OBVIOUS
  <2>9. ThreadOrder'
    OBVIOUS
  <2>10. HostKept'
    OBVIOUS
  <2>11. MainOrder'
    BY <1>r
  <2>12. FirstRequest'
    OBVIOUS
  <2>13. Receiving'
    OBVIOUS
  <2> QED
    BY <2>6, <2>7, <2>8, <2>9, <2>10, <2>11, <2>12, <2>13
<1>4. CASE MFetched
  <2>1. http' = Host(http, Null)
    BY <1>4 DEF MFetched, Forget, Host, Null
  <2>2. http' \in TaHttp
    BY <1>a, <2>1, HostWrites DEF Pointer, Requests, Null
  <2>3. /\ umpc = "frame" /\ inProgress /\ us = "FETCH_META" /\ http.done
        /\ http'.host = Null /\ Same(http', http, {"host"})
        /\ available' = FALSE /\ update_data' = (IF http.res = "OK" THEN http.data ELSE Null)
        /\ \/ http.res # "OK" /\ us' = "NO_UPDATE" /\ inProgress' = FALSE /\ live' = live
           \/ http.res = "OK" /\ us' = "VALIDATE" /\ inProgress' = TRUE /\ live' = live
           \/ /\ http.res = "OK" /\ us' = "NO_UPDATE" /\ inProgress' = FALSE
              /\ live' = live \ {update_data'}
    <3>1. http'.host = Null /\ Same(http', http, {"host"})
      BY <1>a, <2>1, HostWrites DEF Pointer
    <3> QED
      BY <1>4, <3>1 DEF MFetched, http_ready, Content
  <2>4. UNCHANGED <<hPc, served, info, data, downloading, umpc, check, hTries, request>>
    BY <1>4 DEF MFetched, thread, update
  <2>5. Flags'
    BY <1>f, <2>3, <2>4 DEF Flags, update
  <2> USE <2>2, <2>3, <2>4, HttpAssumption DEF update, hMain, IInv, HttpTypeOK, LiveOwned,
     Published, ResultHonest, ThreadOrder, HostKept, MainOrder, FirstRequest, Receiving,
     InFlight, Requests, Pointer, Null, Missing, MutexFree, Fields, Same
  <2>6. HttpTypeOK'
    BY <2>5 DEF Flags
  <2>7. LiveOwned'
    OBVIOUS
  <2>8. ResultHonest'
    OBVIOUS
  <2>9. ThreadOrder'
    OBVIOUS
  <2>10. HostKept'
    OBVIOUS
  <2>11. MainOrder'
    OBVIOUS
  <2>12. FirstRequest'
    OBVIOUS
  <2>13. Receiving'
    OBVIOUS
  <2> QED
    BY <2>6, <2>7, <2>8, <2>9, <2>10, <2>11, <2>12, <2>13
<1>5. CASE MValidate
  <2>1. Flags'
    BY <1>f, <1>5 DEF MValidate, Flags, update
  <2> USE <1>5, HttpAssumption DEF MValidate, thread, update, hMain, IInv, HttpTypeOK,
     LiveOwned, Published, ResultHonest, ThreadOrder, HostKept, MainOrder, FirstRequest,
     Receiving, InFlight, Requests, Pointer, Null, Missing, MutexFree, Fields, Same
  <2>2. HttpTypeOK'
    BY <2>1 DEF Flags
  <2>3. LiveOwned'
    OBVIOUS
  <2>4. ResultHonest'
    OBVIOUS
  <2>5. ThreadOrder'
    OBVIOUS
  <2>6. HostKept'
    OBVIOUS
  <2>7. MainOrder'
    OBVIOUS
  <2>8. FirstRequest'
    OBVIOUS
  <2>9. Receiving'
    OBVIOUS
  <2> QED
    BY <2>2, <2>3, <2>4, <2>5, <2>6, <2>7, <2>8, <2>9
<1>6. CASE MParseNull
  BY <1>6, HttpAssumption DEF MParseNull, thread, update, hMain, IInv, HttpTypeOK,
     LiveOwned, Published, ResultHonest, ThreadOrder, HostKept, MainOrder, FirstRequest,
     Receiving, InFlight, Requests, Pointer, Null, Missing, MutexFree, Fields, Same
<1> QED
  BY <1>1, <1>2, <1>3, <1>4, <1>5, <1>6

\* The installation of an update.
LEMMA ExecuteKeepsIInv == IInv /\ (MExecute \/ MConfirm \/ MPoll \/ MFaded \/ MReloc) => IInv'
<1> SUFFICES ASSUME IInv, MExecute \/ MConfirm \/ MPoll \/ MFaded \/ MReloc PROVE IInv'
  OBVIOUS
<1>a. http \in TaHttp /\ request \in Pointer /\ hTries \in 0..HTries
  BY DEF IInv, HttpTypeOK
<1>f. Flags
  BY DEF IInv, HttpTypeOK, Flags
<1>r. umpc = "confirm" /\ http.running /\ http.done =>
      hPc \in {"wait", "unconnected", "unsent", "close"}
  BY <1>a DEF IInv, HttpTypeOK, ThreadOrder, InFlight, TaHttp
<1>1. CASE MExecute
  <2>1. Flags'
    BY <1>f, <1>1 DEF MExecute, Flags, update
  <2> USE <1>1, HttpAssumption DEF MExecute, thread, update, hMain, IInv, HttpTypeOK,
     LiveOwned, Published, ResultHonest, ThreadOrder, HostKept, MainOrder, FirstRequest,
     Receiving, InFlight, Requests, Pointer, Null, Missing, MutexFree, Fields, Same
  <2>2. HttpTypeOK'
    BY <2>1 DEF Flags
  <2>3. LiveOwned'
    OBVIOUS
  <2>4. ResultHonest'
    OBVIOUS
  <2>5. ThreadOrder'
    OBVIOUS
  <2>6. HostKept'
    OBVIOUS
  <2>7. MainOrder'
    OBVIOUS
  <2>8. FirstRequest'
    OBVIOUS
  <2>9. Receiving'
    OBVIOUS
  <2> QED
    BY <2>2, <2>3, <2>4, <2>5, <2>6, <2>7, <2>8, <2>9
<1>2. CASE MConfirm
  <2>1. \/ umpc' = "frame" /\ UNCHANGED <<http, request>>
        \/ http.running /\ http.done /\ http' = Host(http, 2) /\ request' = 2 /\ umpc' = "request"
    BY <1>2 DEF MConfirm, Ask, http_ready, Host
  <2>2. http' \in TaHttp
    BY <1>a, <2>1, HostWrites DEF Pointer, Requests, Null
  <2>3. /\ umpc = "confirm" /\ (info' = FALSE \/ info' = info)
        /\ \/ umpc' = "frame" /\ UNCHANGED <<http, request>>
           \/ /\ http.running /\ http.done /\ request' = 2 /\ umpc' = "request"
              /\ http'.host = 2 /\ Same(http', http, {"host"})
    <3>1. http' = Host(http, 2) => http'.host = 2 /\ Same(http', http, {"host"})
      BY <1>a, HostWrites DEF Pointer, Requests
    <3>2. umpc = "confirm" /\ (info' = FALSE \/ info' = info)
      BY <1>2 DEF MConfirm
    <3> QED
      BY <2>1, <3>1, <3>2
  <2>4. UNCHANGED <<hPc, served, live, us, update_data, data, downloading, check,
                    inProgress, available, hTries>>
    BY <1>2 DEF MConfirm, thread, update
  <2>5. Flags'
    BY <1>f, <2>3, <2>4 DEF Flags, update
  <2> USE <2>2, <2>3, <2>4, HttpAssumption DEF update, hMain, IInv, HttpTypeOK, LiveOwned,
     Published, ResultHonest, ThreadOrder, HostKept, MainOrder, FirstRequest, Receiving,
     InFlight, Requests, Pointer, Null, Missing, MutexFree, Fields, Same
  <2>6. HttpTypeOK'
    BY <2>5 DEF Flags
  <2>7. LiveOwned'
    OBVIOUS
  <2>8. ResultHonest'
    OBVIOUS
  <2>9. ThreadOrder'
    OBVIOUS
  <2>10. HostKept'
    OBVIOUS
  <2>11. MainOrder'
    BY <1>r
  <2>12. FirstRequest'
    OBVIOUS
  <2>13. Receiving'
    OBVIOUS
  <2> QED
    BY <2>6, <2>7, <2>8, <2>9, <2>10, <2>11, <2>12, <2>13
<1>3. CASE MPoll
  <2>1. \/ UNCHANGED http
        \/ http' = Host(http, Null)
    BY <1>3 DEF MPoll, Downloaded, Forget, Content, http_ready, Host, Taken, Null
  <2>2. http' \in TaHttp
    BY <1>a, <2>1, HostWrites DEF Pointer, Requests, Null
  <2>3. /\ umpc = "poll" /\ MutexFree
        /\ info' = FALSE \/ info' = info
        /\ downloading' = FALSE \/ downloading' = TRUE
        /\ \/ /\ http.state = "RECEIVING" /\ umpc' = "fade" /\ UNCHANGED <<http, live, data>>
           \/ http.done /\ http'.host = Null /\ Same(http', http, {"host"}) /\ Taken
    <3>1. http' = Host(http, Null) => http'.host = Null /\ Same(http', http, {"host"})
      BY <1>a, HostWrites DEF Pointer
    <3>2. /\ umpc = "poll" /\ MutexFree
          /\ info' = FALSE \/ info' = info
          /\ downloading' = FALSE \/ downloading' = TRUE
      BY <1>3 DEF MPoll, Downloaded
    <3>3. \/ http.state = "RECEIVING" /\ umpc' = "fade" /\ UNCHANGED <<http, live, data>>
          \/ http.done /\ http' = Host(http, Null) /\ Taken
      BY <1>3 DEF MPoll, Downloaded, Forget, Content, http_ready, Taken, Host
    <3> QED
      BY <3>1, <3>2, <3>3
  <2>4. UNCHANGED <<hPc, served, us, update_data, check, inProgress,
                    available, hTries, request>>
    BY <1>3 DEF MPoll, thread, update
  <2>5. Flags'
    BY <1>f, <2>3, <2>4 DEF Flags, update, Taken
  <2> USE <2>2, <2>3, <2>4, HttpAssumption DEF update, hMain, IInv, HttpTypeOK, LiveOwned,
     Published, ResultHonest, ThreadOrder, HostKept, MainOrder, FirstRequest, Receiving,
     InFlight, Requests, Pointer, Null, Missing, MutexFree, Fields, Same, Taken
  <2>6. HttpTypeOK'
    BY <2>5 DEF Flags
  <2>7. LiveOwned'
    OBVIOUS
  <2>8. ResultHonest'
    OBVIOUS
  <2>9. ThreadOrder'
    OBVIOUS
  <2>10. HostKept'
    OBVIOUS
  <2>11. MainOrder'
    OBVIOUS
  <2>12. FirstRequest'
    OBVIOUS
  <2>13. Receiving'
    OBVIOUS
  <2> QED
    BY <2>6, <2>7, <2>8, <2>9, <2>10, <2>11, <2>12, <2>13
<1>4. CASE MFaded
  <2>1. \/ UNCHANGED http
        \/ http' = Host(http, Null)
    BY <1>4 DEF MFaded, Downloaded, Forget, Content, http_ready, Host, Taken, Null
  <2>2. http' \in TaHttp
    BY <1>a, <2>1, HostWrites DEF Pointer, Requests, Null
  <2>3. /\ umpc = "fade"
        /\ info' = FALSE \/ info' = info
        /\ downloading' = FALSE \/ downloading' = downloading
        /\ \/ umpc' = "poll" /\ UNCHANGED <<http, live, data>>
           \/ http.done /\ http'.host = Null /\ Same(http', http, {"host"}) /\ Taken
    <3>1. http' = Host(http, Null) => http'.host = Null /\ Same(http', http, {"host"})
      BY <1>a, HostWrites DEF Pointer
    <3>2. /\ umpc = "fade"
          /\ info' = FALSE \/ info' = info
          /\ downloading' = FALSE \/ downloading' = downloading
      BY <1>4 DEF MFaded, Downloaded
    <3>3. \/ umpc' = "poll" /\ UNCHANGED <<http, live, data>>
          \/ http.done /\ http' = Host(http, Null) /\ Taken
      BY <1>4 DEF MFaded, Downloaded, Forget, Content, http_ready, Taken, Host
    <3> QED
      BY <3>1, <3>2, <3>3
  <2>4. UNCHANGED <<hPc, served, us, update_data, check, inProgress,
                    available, hTries, request>>
    BY <1>4 DEF MFaded, thread, update
  <2>5. Flags'
    BY <1>f, <2>3, <2>4 DEF Flags, update, Taken
  <2> USE <2>2, <2>3, <2>4, HttpAssumption DEF update, hMain, IInv, HttpTypeOK, LiveOwned,
     Published, ResultHonest, ThreadOrder, HostKept, MainOrder, FirstRequest, Receiving,
     InFlight, Requests, Pointer, Null, Missing, MutexFree, Fields, Same, Taken
  <2>6. HttpTypeOK'
    BY <2>5 DEF Flags
  <2>7. LiveOwned'
    OBVIOUS
  <2>8. ResultHonest'
    OBVIOUS
  <2>9. ThreadOrder'
    OBVIOUS
  <2>10. HostKept'
    OBVIOUS
  <2>11. MainOrder'
    OBVIOUS
  <2>12. FirstRequest'
    OBVIOUS
  <2>13. Receiving'
    OBVIOUS
  <2> QED
    BY <2>6, <2>7, <2>8, <2>9, <2>10, <2>11, <2>12, <2>13
<1>5. CASE MReloc
  BY <1>5, HttpAssumption DEF MReloc, thread, update, hMain, IInv, HttpTypeOK, LiveOwned,
     Published, ResultHonest, ThreadOrder, HostKept, MainOrder, FirstRequest, Receiving,
     InFlight, Requests, Pointer, Null, Missing, MutexFree, Fields, Same
<1> QED
  BY <1>1, <1>2, <1>3, <1>4, <1>5

\* http_deinit.
LEMMA LeaveKeepsIInv == IInv /\ (MLeave \/ MDeinit \/ MJoin) => IInv'
<1> SUFFICES ASSUME IInv, MLeave \/ MDeinit \/ MJoin PROVE IInv'
  OBVIOUS
<1>a. http \in TaHttp /\ request \in Pointer /\ hTries \in 0..HTries
  BY DEF IInv, HttpTypeOK
<1>f. Flags
  BY DEF IInv, HttpTypeOK, Flags
<1>b. http.running => hPc \notin {"start", "done"}
  BY DEF IInv, ThreadOrder
<1>1. CASE MLeave
  BY <1>1, HttpAssumption DEF MLeave, thread, update, hMain, IInv, HttpTypeOK, LiveOwned,
     Published, ResultHonest, ThreadOrder, HostKept, MainOrder, FirstRequest, Receiving,
     InFlight, Requests, Pointer, Null, Missing, MutexFree, Fields, Same
<1>2. CASE MDeinit
  <2>1. \/ UNCHANGED http
        \/ http' = Command(http, "EXIT")
    BY <1>2 DEF MDeinit, CmutexFree, HWoken, Command
  <2>2. http' \in TaHttp
    BY <1>a, <1>b, <2>1, CommandWrites DEF Pointer, Requests, Null
  <2>3. /\ umpc = "deinit" /\ hTries' \in 0..HTries
        /\ \/ umpc' \in {"deinit", "exit"} /\ UNCHANGED <<http, hPc>>
           \/ /\ umpc' = "join" /\ hPc \in {"started", "wait", "woken"}
              /\ hPc' = IF hPc = "wait" THEN "woken" ELSE hPc
              /\ http'.cmd = "EXIT" /\ Same(http', http, {"cmd"})
    <3>1. http' = Command(http, "EXIT") => http'.cmd = "EXIT" /\ Same(http', http, {"cmd"})
      BY <1>a, CommandWrites
    <3>2. umpc = "deinit" /\ hTries' \in 0..HTries
      BY <1>a, <1>2, HttpAssumption DEF MDeinit
    <3>3. \/ umpc' \in {"deinit", "exit"} /\ UNCHANGED <<http, hPc>>
          \/ /\ umpc' = "join" /\ hPc \in {"started", "wait", "woken"}
             /\ hPc' = IF hPc = "wait" THEN "woken" ELSE hPc
             /\ http' = Command(http, "EXIT")
      BY <1>b, <1>2 DEF MDeinit, CmutexFree, HWoken, Command
    <3> QED
      BY <3>1, <3>2, <3>3
  <2>4. UNCHANGED <<served, live, update, check, inProgress, available, request>>
    BY <1>2 DEF MDeinit, thread, update
  <2>5. Flags'
    BY <1>f, <2>3, <2>4 DEF Flags, update
  <2> USE <2>2, <2>3, <2>4, HttpAssumption DEF update, hMain, IInv, HttpTypeOK, LiveOwned,
     Published, ResultHonest, ThreadOrder, HostKept, MainOrder, FirstRequest, Receiving,
     InFlight, Requests, Pointer, Null, Missing, MutexFree, Fields, Same
  <2>6. HttpTypeOK'
    BY <2>5 DEF Flags
  <2>7. LiveOwned'
    OBVIOUS
  <2>8. ResultHonest'
    OBVIOUS
  <2>9. ThreadOrder'
    OBVIOUS
  <2>10. HostKept'
    OBVIOUS
  <2>11. MainOrder'
    OBVIOUS
  <2>12. FirstRequest'
    OBVIOUS
  <2>13. Receiving'
    OBVIOUS
  <2> QED
    BY <2>6, <2>7, <2>8, <2>9, <2>10, <2>11, <2>12, <2>13
<1>3. CASE MJoin
  BY <1>3, HttpAssumption DEF MJoin, thread, update, hMain, IInv, HttpTypeOK, LiveOwned,
     Published, ResultHonest, ThreadOrder, HostKept, MainOrder, FirstRequest, Receiving,
     InFlight, Requests, Pointer, Null, Missing, MutexFree, Fields, Same
<1> QED
  BY <1>1, <1>2, <1>3

\* Every step of the thread and of main.
LEMMA NextIInv == IInv /\ [HttpNext]_httpVars => IInv'
<1> SUFFICES ASSUME IInv, [HttpNext]_httpVars PROVE IInv'
  OBVIOUS
<1>1. CASE UNCHANGED httpVars
  BY <1>1 DEF IInv, HttpTypeOK, LiveOwned, Published, ResultHonest, ThreadOrder, HostKept,
     MainOrder, FirstRequest, Receiving, InFlight, Requests, Pointer, Null, Missing,
     MutexFree, Fields, Same, thread, update, hMain, httpVars
<1> QED
  BY <1>1, LocalKeepsIInv, NetKeepsIInv, CheckKeepsIInv, ExecuteKeepsIInv, LeaveKeepsIInv
     DEF HttpNext, Main, Exited

\* The http thread and main keep IInv in every order of their steps.
THEOREM Invariance == HttpSpec => []IInv
  BY InitIInv, NextIInv, PTL DEF HttpSpec

\* Types, with the counters' bounds.
THEOREM TypeCorrect == HttpSpec => []HttpTypeOK
<1>1. IInv => HttpTypeOK
  BY DEF IInv
<1> QED
  BY <1>1, Invariance, PTL

\* Each buffer has one owner: none is lost, freed twice or used when freed.
THEOREM BuffersHaveOneOwner == HttpSpec => []BuffersOwned
<1>1. IInv => BuffersOwned
  BY DEF IInv, LiveOwned, BuffersOwned
<1> QED
  BY <1>1, Invariance, PTL

\* What is taken as the answer to a request is the answer to that request,
\* and what is installed is the download.
THEOREM ResultsHonest == HttpSpec => []ResultHonest
<1>1. IInv => ResultHonest
  BY DEF IInv
<1> QED
  BY <1>1, Invariance, PTL
=============================================================================
