-------------------------- MODULE MiddlewareProofs --------------------------
(***************************************************************************)
(* Theorems about Middleware, for any requests, pools and outcomes of the  *)
(* handlers: every answer arrives as it was decided, every handler reads   *)
(* the body of its own request, and the three pools keep what internal/pool *)
(* promises.                                                               *)
(*                                                                         *)
(* The invariant has a part for each pool and two for each request: what   *)
(* it holds at each stage of its way, and what has been written for it.  A  *)
(* step changes the parts of one request only, since what it writes to     *)
(* belongs to nobody else.                                                 *)
(***************************************************************************)
EXTENDS Middleware, SequenceTheorems, TLAPS

-----------------------------------------------------------------------------
(* What the assumptions on the constants say, part by part. *)

LEMMA KindsApart ==
    /\ Readers \subseteq Objects /\ Writers \subseteq Objects /\ Buffers \subseteq Objects
    /\ \A z \in Readers : z \notin Writers /\ z \notin Buffers
    /\ \A z \in Writers : z \notin Readers /\ z \notin Buffers
    /\ \A b \in Buffers : b \notin Readers /\ b \notin Writers
    /\ \A o \in Objects : o \notin Requests /\ o # None
    /\ \A r \in Requests : r # None
<1>1. /\ Requests \cap Objects = {} /\ Readers \cap Writers = {}
      /\ Buffers \cap (Readers \cup Writers) = {} /\ None \notin Objects /\ None \notin Requests
  BY ChainAssumption, NoneAssumption
<1> QED
  BY <1>1 DEF Objects

LEMMA CallsTyped == \A c \in Calls : c.encoding \in {"identity", "gzip", "broken"}
BY ChainAssumption, ZenonT(30)

LEMMA OutcomesTyped == \A o \in Outcomes : o.status \in {200, 400, 404, 500, 504}
BY ChainAssumption, ZenonT(30)

LEMMA PanicApart == PanicOutcome \notin Outcomes
BY ChainAssumption, ZenonT(30)

-----------------------------------------------------------------------------
(* The pools: nothing is pooled twice, held twice, or held and pooled.        *)

Sole(owner, S, count) ==
    \A o \in S :
        /\ count[o] \in {0, 1}
        /\ \A p, q \in Requests : owner[p] = o /\ owner[q] = o => p = q
        /\ (\E q \in Requests : owner[q] = o) => count[o] = 0

LEMMA AvailableIsFree ==
    ASSUME NEW S, NEW owner, NEW o \in S, Sole(owner, S, idle), Available(o, owner)
    PROVE  \A q \in Requests : owner[q] # o
BY DEF Sole, Available

-----------------------------------------------------------------------------
(* Responses. *)

Response(status, wroteHeader, encoding, body) ==
    [status |-> status, wroteHeader |-> wroteHeader, encoding |-> encoding, body |-> body]

\* Names for the two values of wroteHeader, which the provers take as they are.
Sent == TRUE
Unsent == FALSE

LEMMA Fields ==
    \A status, wrote, encoding, body :
        /\ Response(status, wrote, encoding, body).status = status
        /\ Response(status, wrote, encoding, body).encoding = encoding
        /\ Response(status, wrote, encoding, body).body = body
BY DEF Response

LEMMA FieldsSet ==
    \A status, wrote, encoding, body, x :
        /\ WithEncoding(Response(status, wrote, encoding, body), x) = Response(status, wrote, x, body)
        /\ WithBody(Response(status, wrote, encoding, body), x) = Response(status, wrote, encoding, x)
        /\ WithDefault(Response(status, wrote, encoding, body)) = Response(200, wrote, encoding, body)
BY DEF Response, WithEncoding, WithBody, WithDefault

LEMMA StatusSet ==
    \A status, encoding, body, x :
        WithStatus(Response(status, Unsent, encoding, body), x) = Response(x, Sent, encoding, body)
BY DEF Response, WithStatus, Sent, Unsent

LEMMA PieceAdded ==
    ASSUME NEW status, NEW encoding, NEW body, NEW piece
    PROVE  WithPiece(Response(status, Sent, encoding, body), piece)
           = Response(status, Sent, encoding, Append(body, piece))
BY Fields, FieldsSet DEF WithPiece

LEMMA FreshStatus ==
    ASSUME NEW x \in {Blank, WithDefault(Blank)}, NEW status
    PROVE  WithStatus(x, status) = Response(status, Sent, "identity", <<>>)
<1>1. Blank = Response(0, Unsent, "identity", <<>>)
  BY DEF Response, Blank, Unsent
<1>2. WithDefault(Blank) = Response(200, Unsent, "identity", <<>>)
  BY <1>1, FieldsSet
<1> QED
  BY <1>1, <1>2, StatusSet

LEMMA OnePiece ==
    ASSUME NEW e, NEW f
    PROVE  Append(<<>>, e) = <<e>> /\ Append(<<e>>, f) = <<e, f>>
<1>1. PICK S : S = {e, f}
  OBVIOUS
<1>2. e \in S /\ f \in S
  BY <1>1
<1>3. <<e>> \in Seq(S) /\ <<e, f>> \in Seq(S) /\ Append(<<e>>, f) \in Seq(S)
  BY <1>2
<1>4. Len(Append(<<e>>, f)) = 2 /\ Len(<<e, f>>) = 2
  BY <1>2
<1>5. \A i \in 1..2 : Append(<<e>>, f)[i] = <<e, f>>[i]
  BY <1>2
<1>6. Append(<<e>>, f) = <<e, f>>
  BY <1>3, <1>4, <1>5, SeqEqual
<1> QED
  BY <1>6

LEMMA FirstPiece ==
    ASSUME NEW status, NEW encoding, NEW piece
    PROVE  WithPiece(Response(status, Sent, encoding, <<>>), piece)
           = Response(status, Sent, encoding, <<piece>>)
<1>1. PICK body : body = <<>>
  OBVIOUS
<1>2. Append(body, piece) = <<piece>>
  BY <1>1, OnePiece
<1>3. WithPiece(Response(status, Sent, encoding, body), piece)
      = Response(status, Sent, encoding, Append(body, piece))
  BY PieceAdded
<1> QED
  BY <1>1, <1>2, <1>3

LEMMA SecondPiece ==
    ASSUME NEW status, NEW encoding, NEW first, NEW piece
    PROVE  WithPiece(Response(status, Sent, encoding, <<first>>), piece)
           = Response(status, Sent, encoding, <<first, piece>>)
<1>1. PICK body : body = <<first>>
  OBVIOUS
<1>2. Append(body, piece) = <<first, piece>>
  BY <1>1, OnePiece
<1>3. WithPiece(Response(status, Sent, encoding, body), piece)
      = Response(status, Sent, encoding, Append(body, piece))
  BY PieceAdded
<1> QED
  BY <1>1, <1>2, <1>3

-----------------------------------------------------------------------------
(* The invariant. *)

Decided == Outcomes \cup {NoOutcome, PanicOutcome, Rejection(400), Rejection(413)}

Typed ==
    /\ call \in [Requests -> Calls] /\ signing \in BOOLEAN
    /\ at \in [Requests -> Stages]
    /\ input \in [Requests -> Requests \cup {None}]
    /\ outcome \in [Requests -> Decided]
    /\ readerOf \in [Requests -> Readers \cup {None}]
    /\ writerOf \in [Requests -> Writers \cup {None}]
    /\ bufferOf \in [Requests -> Buffers \cup {None}]
    /\ idle \in [Objects -> {0, 1}]
    /\ source \in [Readers -> Requests \cup {None}]
    /\ target \in [Writers -> Requests \cup Buffers \cup {None}]
    /\ pending \in [Writers -> Requests \cup {None}]
    /\ DOMAIN out = Requests \cup Buffers
    /\ DOMAIN digest = Requests /\ DOMAIN logged = Requests

ReadersKept ==
    /\ Sole(readerOf, Readers, idle)
    /\ \A z \in Readers : (\A q \in Requests : readerOf[q] # z) => source[z] = None
    /\ \A q \in Requests : readerOf[q] # None => source[readerOf[q]] = q

WritersKept ==
    /\ Sole(writerOf, Writers, idle)
    /\ \A z \in Writers : (\A q \in Requests : writerOf[q] # z) =>
          target[z] = None /\ pending[z] = None
    /\ \A q \in Requests : writerOf[q] # None => target[writerOf[q]] = Sink(q)

BuffersKept ==
    /\ Sole(bufferOf, Buffers, idle)
    /\ \A b \in Buffers : (\A q \in Requests : bufferOf[q] # b) => out[b] = Blank

\* What a request holds on its way.
Holding(r) ==
    /\ input[r] \in {r, None}
    /\ readerOf[r] # None => at[r] \in {"handle", "write", "flush", "putWriter", "close"}
    /\ writerOf[r] # None <=> at[r] \in {"flush", "putWriter"}
    /\ bufferOf[r] # None <=> signing /\ at[r] \notin {"new", "recover", "log", "done"}
    /\ at[r] \in {"verify", "sign", "send", "putBuffer"} => signing
    /\ at[r] = "flush" => pending[writerOf[r]] = r

Encoding(r) == IF Compressed(r) THEN "gzip" ELSE "identity"

Answered(r, body) == Response(outcome[r].status, Sent, Encoding(r), body)

Fresh == {Blank, WithDefault(Blank)}

\* What has been written for it.
Written(r) ==
    /\ at[r] = "new" => outcome[r] = NoOutcome /\ out[r] = Blank
    /\ at[r] \in {"verify", "inflate", "handle"} => outcome[r] = NoOutcome /\ out[Sink(r)] \in Fresh
    /\ at[r] \in {"new", "verify", "inflate", "handle", "write", "flush", "putWriter", "close", "sign"} =>
          digest[r] = None /\ (signing => out[r] = Blank)
    /\ at[r] = "write" => out[Sink(r)] = Answered(r, <<>>) /\ outcome[r].body
    /\ at[r] = "flush" =>
          out[Sink(r)] = Answered(r, <<HeaderOf(r)>>) /\ outcome[r].body /\ Compressed(r)
    /\ at[r] \in {"putWriter", "close", "sign"} /\ ~Unwinding(r) =>
          out[Sink(r)] = Answered(r, Whole(r))
    /\ at[r] = "send" => /\ out[bufferOf[r]] = Answered(r, Whole(r))
                         /\ out[r] = Answered(r, <<>>) /\ digest[r] = Whole(r)
    /\ at[r] \in {"putBuffer", "log", "done"} /\ ~Unwinding(r) =>
          /\ out[r] = Answered(r, Whole(r))
          /\ digest[r] = IF signing THEN Whole(r) ELSE None
    /\ at[r] = "done" /\ ~Unwinding(r) => logged[r] = outcome[r].status
    /\ at[r] \in {"write", "flush", "putWriter", "sign", "send", "log"} => ~Unwinding(r)
    /\ at[r] = "recover" => Unwinding(r)

IInv ==
    /\ Typed /\ ReadersKept /\ WritersKept /\ BuffersKept
    /\ \A r \in Requests : Holding(r) /\ Written(r)

-----------------------------------------------------------------------------
(* A step changes the parts of one request. *)

Local(r) ==
    /\ UNCHANGED given
    /\ \A q \in Requests : q # r =>
          /\ at'[q] = at[q] /\ input'[q] = input[q] /\ outcome'[q] = outcome[q]
          /\ readerOf'[q] = readerOf[q] /\ writerOf'[q] = writerOf[q] /\ bufferOf'[q] = bufferOf[q]
          /\ writerOf[q] # None => pending'[writerOf[q]] = pending[writerOf[q]]
          /\ out'[q] = out[q] /\ (bufferOf[q] # None => out'[bufferOf[q]] = out[bufferOf[q]])
          /\ digest'[q] = digest[q] /\ logged'[q] = logged[q]

LEMMA OthersKept ==
    ASSUME IInv, NEW r \in Requests, Local(r), NEW q \in Requests, q # r
    PROVE  Holding(q)' /\ Written(q)'
<1>1. Holding(q) /\ Written(q) /\ UNCHANGED <<call, signing>> /\ Typed
  BY DEF IInv, Local, given
<1>2. /\ at'[q] = at[q] /\ input'[q] = input[q] /\ outcome'[q] = outcome[q]
      /\ readerOf'[q] = readerOf[q] /\ writerOf'[q] = writerOf[q] /\ bufferOf'[q] = bufferOf[q]
      /\ writerOf[q] # None => pending'[writerOf[q]] = pending[writerOf[q]]
      /\ out'[q] = out[q] /\ (bufferOf[q] # None => out'[bufferOf[q]] = out[bufferOf[q]])
      /\ digest'[q] = digest[q] /\ logged'[q] = logged[q]
  BY DEF Local
<1>3. Holding(q)'
  BY <1>1, <1>2 DEF Holding
<1>4. /\ Compressed(q)' <=> Compressed(q)
      /\ Unwinding(q)' <=> Unwinding(q)
      /\ Whole(q)' = Whole(q)
      /\ \A body : Answered(q, body)' = Answered(q, body)
  BY <1>1, <1>2 DEF Compressed, Unwinding, Whole, Answered, Encoding
<1>5. Sink(q)' = Sink(q) /\ (at[q] \notin {"new", "recover", "log", "done"} => out'[Sink(q)] = out[Sink(q)])
  BY <1>1, <1>2 DEF Sink, Holding
<1>6. at[q] = "send" => out'[bufferOf[q]] = out[bufferOf[q]]
  BY <1>1, <1>2 DEF Holding
<1>7. Written(q)'
  <2> USE <1>1, <1>2, <1>4, <1>5, <1>6 DEF Written
  <2>1. /\ (at[q] = "new" => outcome[q] = NoOutcome /\ out[q] = Blank)'
        /\ (at[q] \in {"verify", "inflate", "handle"} => outcome[q] = NoOutcome /\ out[Sink(q)] \in Fresh)'
    BY DEF Fresh, WithDefault, Blank
  <2> QED
    BY <2>1
<1> QED
  BY <1>3, <1>7

LEMMA Together ==
    ASSUME IInv, NEW r \in Requests, Local(r), Typed', ReadersKept', WritersKept', BuffersKept',
           Holding(r)', Written(r)'
    PROVE  IInv'
BY OthersKept DEF IInv

\* What a request writes to is nobody else's.
LEMMA SinkIsMine ==
    ASSUME IInv, NEW r \in Requests, at[r] \notin {"new", "recover", "log", "done"}
    PROVE  /\ Sink(r) \in Requests \cup Buffers /\ Sink(r) # None
           /\ signing => Sink(r) = bufferOf[r] /\ bufferOf[r] \in Buffers /\ bufferOf[r] # r
           /\ ~signing => Sink(r) = r
           /\ \A b \in Buffers : b = Sink(r) => b = bufferOf[r]
           /\ \A q \in Requests : q # r =>
                 /\ q # Sink(r) /\ q # bufferOf[r]
                 /\ bufferOf[q] # None =>
                       bufferOf[q] \notin {r, Sink(r), bufferOf[r]}
<1>1. /\ Requests \cap Buffers = {} /\ None \notin Requests /\ None \notin Buffers
  BY KindsApart
<1>2. Holding(r) /\ \A q \in Requests : bufferOf[q] \in Buffers \cup {None}
  BY DEF IInv, Typed
<1>3. \A q \in Requests : q # r /\ bufferOf[q] # None => bufferOf[q] # bufferOf[r]
  BY <1>2 DEF IInv, BuffersKept, Sole
<1>4. CASE signing
  <2>1. Sink(r) = bufferOf[r] /\ bufferOf[r] \in Buffers
    BY <1>2, <1>4 DEF Sink, Holding
  <2> QED
    BY <1>1, <1>2, <1>3, <1>4, <2>1
<1>5. CASE ~signing
  <2>1. Sink(r) = r
    BY <1>5 DEF Sink
  <2> QED
    BY <1>1, <1>2, <1>3, <1>5, <2>1
<1> QED
  BY <1>4, <1>5

\* A step that leaves the pools and what is in their objects alone.
LEMMA PoolsLeftAlone ==
    ASSUME IInv, NEW r \in Requests, UNCHANGED <<signing, held, contents>>,
           \A b \in Buffers : b # bufferOf[r] => out'[b] = out[b]
    PROVE  ReadersKept' /\ WritersKept' /\ BuffersKept'
<1>1. /\ ReadersKept /\ WritersKept /\ BuffersKept /\ Typed
      /\ UNCHANGED <<signing, readerOf, writerOf, bufferOf, idle, source, target, pending>>
  BY DEF IInv, held, contents
<1>2. \A q \in Requests : Sink(q)' = Sink(q)
  BY <1>1 DEF Sink
<1>3. ReadersKept'
  BY <1>1 DEF ReadersKept, Sole
<1>4. WritersKept'
  BY <1>1, <1>2 DEF WritersKept, Sole
<1>5. BuffersKept'
  BY <1>1 DEF BuffersKept, Sole
<1> QED
  BY <1>3, <1>4, <1>5

\* A step that leaves one of the pools alone.
LEMMA ReadersLeft ==
    ASSUME ReadersKept, UNCHANGED <<readerOf, source>>, \A z \in Readers : idle'[z] = idle[z]
    PROVE  ReadersKept'
BY DEF ReadersKept, Sole

LEMMA WritersLeft ==
    ASSUME WritersKept, UNCHANGED <<writerOf, target, pending>>,
           \A z \in Writers : idle'[z] = idle[z],
           \A q \in Requests : writerOf[q] # None => Sink(q)' = Sink(q)
    PROVE  WritersKept'
BY DEF WritersKept, Sole

LEMMA BuffersLeft ==
    ASSUME BuffersKept, UNCHANGED bufferOf, \A b \in Buffers : idle'[b] = idle[b],
           NEW r \in Requests, \A b \in Buffers : b # bufferOf[r] => out'[b] = out[b]
    PROVE  BuffersKept'
BY DEF BuffersKept, Sole

LEMMA TakenTyped ==
    ASSUME idle \in [Objects -> {0, 1}], NEW o \in Objects, Taken(o)
    PROVE  /\ idle' \in [Objects -> {0, 1}] /\ idle'[o] = 0
           /\ \A p \in Objects : p # o => idle'[p] = idle[p]
BY DEF Taken

LEMMA PooledTyped ==
    ASSUME idle \in [Objects -> {0, 1}], NEW o \in Objects, idle[o] = 0, Pooled(o)
    PROVE  /\ idle' \in [Objects -> {0, 1}] /\ idle'[o] = 1
           /\ \A p \in Objects : p # o => idle'[p] = idle[p]
BY DEF Pooled

-----------------------------------------------------------------------------
(* One lemma for each action. *)

\* A rejection is a whole answer, in one Write.
LEMMA RejectAnswers ==
    ASSUME IInv, NEW r \in Requests, at[r] \in {"verify", "inflate"},
           NEW status \in {400, 413}, Reject(r, status), UNCHANGED <<given, bufferOf>>
    PROVE  /\ outcome'[r] = Rejection(status) /\ outcome' \in [Requests -> Decided]
           /\ ~Unwinding(r)' /\ out'[Sink(r)] = Answered(r, Whole(r))'
           /\ \A s \in Requests \cup Buffers : s # Sink(r) => out'[s] = out[s]
           /\ DOMAIN out' = Requests \cup Buffers
<1>1. /\ Typed /\ Sink(r) \in Requests \cup Buffers /\ out[Sink(r)] \in Fresh
      /\ UNCHANGED <<call, signing, bufferOf>>
  BY SinkIsMine DEF IInv, Written, given
<1>2. outcome' = [outcome EXCEPT ![r] = Rejection(status)] /\ Rejection(status) \in Decided
  BY DEF Reject, Decided
<1>3. outcome'[r] = Rejection(status) /\ outcome' \in [Requests -> Decided]
  BY <1>1, <1>2 DEF Typed
<1>4. out' = [out EXCEPT ![Sink(r)] = WithPiece(WithStatus(out[Sink(r)], status), TextOf(r))]
  BY DEF Reject
<1>5. WithPiece(WithStatus(out[Sink(r)], status), TextOf(r))
      = Response(status, Sent, "identity", <<TextOf(r)>>)
  <2>1. WithStatus(out[Sink(r)], status) = Response(status, Sent, "identity", <<>>)
    BY <1>1, FreshStatus DEF Fresh
  <2> QED
    BY <2>1, FirstPiece
<1>6. /\ outcome'[r].status = status /\ outcome'[r].compressible = FALSE /\ outcome'[r].body = TRUE
      /\ ~Unwinding(r)'
  BY <1>3 DEF Rejection, Unwinding, PanicOutcome
<1>7. Whole(r)' = <<TextOf(r)>> /\ Encoding(r)' = "identity"
  BY <1>6 DEF Whole, Encoding, Compressed
<1>8. Answered(r, Whole(r))' = Response(status, Sent, "identity", <<TextOf(r)>>)
  BY <1>6, <1>7 DEF Answered
<1>9. /\ out'[Sink(r)] = Answered(r, Whole(r))'
      /\ \A s \in Requests \cup Buffers : s # Sink(r) => out'[s] = out[s]
      /\ DOMAIN out' = Requests \cup Buffers
  BY <1>1, <1>4, <1>5, <1>8 DEF Typed
<1> QED
  BY <1>3, <1>6, <1>9

LEMMA VerdictTyped ==
    ASSUME NEW c \in Calls
    PROVE  Verdict(c) \in {0, 400, 413}
BY DEF Verdict

LEMMA VerifyKeeps ==
    ASSUME IInv, NEW r \in Requests, Verify(r)
    PROVE  IInv'
<1>1. /\ Typed /\ Holding(r) /\ Written(r) /\ at[r] = "verify" /\ signing
      /\ UNCHANGED <<call, signing, input, held, contents, digest, logged>>
      /\ UNCHANGED <<readerOf, writerOf, bufferOf, idle, source, target, pending>>
  BY DEF IInv, Verify, Holding, given, held, contents
<1>2. /\ Sink(r) = bufferOf[r] /\ bufferOf[r] \in Buffers /\ bufferOf[r] # r
      /\ Sink(r)' = Sink(r)
      /\ \A q \in Requests : q # r =>
            q # bufferOf[r] /\ (bufferOf[q] # None => bufferOf[q] # bufferOf[r])
  BY <1>1, SinkIsMine DEF Sink
<1>3. CASE Verdict(call[r]) = 0
  <2>1. at' = [at EXCEPT ![r] = "inflate"] /\ UNCHANGED <<outcome, out>>
    BY <1>3 DEF Verify
  <2>2. /\ at'[r] = "inflate" /\ at' \in [Requests -> Stages]
        /\ \A q \in Requests : q # r => at'[q] = at[q]
    BY <1>1, <2>1 DEF Typed, Stages
  <2>3. Local(r)
    BY <1>1, <2>1, <2>2 DEF Local, given
  <2>4. Typed'
    BY <1>1, <2>1, <2>2 DEF Typed
  <2>5. ReadersKept' /\ WritersKept' /\ BuffersKept'
    BY <1>1, <2>1, PoolsLeftAlone
  <2>6. Holding(r)'
    BY <1>1, <2>2 DEF Holding
  <2>7. Written(r)'
    BY <1>1, <1>2, <2>1, <2>2 DEF Written
  <2> QED
    BY <2>3, <2>4, <2>5, <2>6, <2>7, Together
<1>4. CASE Verdict(call[r]) # 0
  <2>1. /\ at' = [at EXCEPT ![r] = "sign"] /\ Reject(r, Verdict(call[r]))
        /\ Verdict(call[r]) \in {400, 413}
    <3>1. call[r] \in Calls
      BY <1>1 DEF Typed
    <3>2. Verdict(call[r]) \in {400, 413}
      BY <1>4, <3>1, VerdictTyped
    <3> QED
      BY <1>1, <1>4, <3>2 DEF Verify, Outside
  <2>2. /\ at'[r] = "sign" /\ at' \in [Requests -> Stages]
        /\ \A q \in Requests : q # r => at'[q] = at[q]
    BY <1>1, <2>1 DEF Typed, Stages
  <2>3. /\ outcome'[r] = Rejection(Verdict(call[r])) /\ outcome' \in [Requests -> Decided]
        /\ ~Unwinding(r)' /\ out'[Sink(r)] = Answered(r, Whole(r))'
        /\ \A s \in Requests \cup Buffers : s # Sink(r) => out'[s] = out[s]
        /\ DOMAIN out' = Requests \cup Buffers
    BY <1>1, <2>1, RejectAnswers DEF given
  <2>4. \A q \in Requests : q # r => outcome'[q] = outcome[q]
    BY <1>1, <2>1 DEF Reject, Typed
  <2>5. Local(r)
    BY <1>1, <1>2, <2>2, <2>3, <2>4 DEF Local, given, Typed
  <2>6. Typed'
    BY <1>1, <2>2, <2>3 DEF Typed
  <2>7. ReadersKept' /\ WritersKept' /\ BuffersKept'
    BY <1>1, <1>2, <2>3, PoolsLeftAlone
  <2>8. Holding(r)'
    BY <1>1, <2>2 DEF Holding
  <2>9. Written(r)'
    BY <1>1, <1>2, <2>2, <2>3 DEF Written
  <2> QED
    BY <2>5, <2>6, <2>7, <2>8, <2>9, Together
<1> QED
  BY <1>3, <1>4

LEMMA DecodeKeeps ==
    ASSUME IInv, NEW r \in Requests, Decode(r)
    PROVE  IInv'
<1>1. /\ Typed /\ Holding(r) /\ Written(r) /\ at[r] = "handle"
      /\ UNCHANGED <<call, signing, at, outcome, held, contents, out, digest, logged>>
      /\ UNCHANGED <<readerOf, writerOf, bufferOf, idle, source, target, pending>>
      /\ input' = [input EXCEPT ![r] = IF readerOf[r] = None THEN r ELSE source[readerOf[r]]]
  BY DEF IInv, Decode, given, held, contents, responses
<1>2. input' = [input EXCEPT ![r] = r]
  BY <1>1 DEF IInv, ReadersKept
<1>3. /\ input'[r] = r /\ input' \in [Requests -> Requests \cup {None}]
      /\ \A q \in Requests : q # r => input'[q] = input[q]
  BY <1>1, <1>2 DEF Typed
<1>4. Local(r)
  BY <1>1, <1>3 DEF Local, given
<1>5. Typed'
  BY <1>1, <1>3 DEF Typed
<1>6. ReadersKept' /\ WritersKept' /\ BuffersKept'
  BY <1>1, PoolsLeftAlone
<1>7. Holding(r)'
  BY <1>1, <1>3 DEF Holding
<1>8. Written(r)'
  BY <1>1 DEF Written, Sink, Answered, Whole, Compressed, Encoding, Unwinding
<1> QED
  BY <1>4, <1>5, <1>6, <1>7, <1>8, Together

LEMMA RespondKeeps ==
    ASSUME IInv, NEW r \in Requests, NEW o \in Outcomes, Respond(r, o)
    PROVE  IInv'
<1>1. /\ Typed /\ Holding(r) /\ Written(r) /\ at[r] = "handle" /\ out[Sink(r)] \in Fresh
      /\ UNCHANGED <<call, signing, input, held, contents, digest, logged>>
      /\ UNCHANGED <<readerOf, writerOf, bufferOf, idle, source, target, pending>>
  BY DEF IInv, Respond, Written, given, held, contents
<1>2. /\ Sink(r) \in Requests \cup Buffers /\ Sink(r)' = Sink(r)
      /\ signing => Sink(r) = bufferOf[r] /\ Sink(r) # r
      /\ ~signing => Sink(r) = r
      /\ \A b \in Buffers : b = Sink(r) => b = bufferOf[r]
      /\ \A q \in Requests : q # r =>
            q # Sink(r) /\ (bufferOf[q] # None => bufferOf[q] # Sink(r))
  BY <1>1, SinkIsMine DEF Sink
<1>3. /\ at' = [at EXCEPT ![r] = IF o.body THEN "write" ELSE "close"]
      /\ outcome' = [outcome EXCEPT ![r] = o] /\ o \in Decided
      /\ out' = [out EXCEPT ![Sink(r)] =
             WithEncoding(WithStatus(out[Sink(r)], o.status),
                IF call[r].accepts /\ o.compressible THEN "gzip" ELSE out[Sink(r)].encoding)]
  BY DEF Respond, Decided
<1>4. /\ at'[r] = IF o.body THEN "write" ELSE "close"
      /\ at' \in [Requests -> Stages]
      /\ outcome'[r] = o /\ outcome' \in [Requests -> Decided]
      /\ \A q \in Requests : q # r => at'[q] = at[q] /\ outcome'[q] = outcome[q]
  BY <1>1, <1>3 DEF Typed, Stages
<1>5. ~Unwinding(r)'
  BY <1>4, PanicApart DEF Unwinding
<1>6. out'[Sink(r)] = Answered(r, <<>>)'
  <2>1. WithStatus(out[Sink(r)], o.status) = Response(o.status, Sent, "identity", <<>>)
    BY <1>1, FreshStatus DEF Fresh
  <2>2. out[Sink(r)].encoding = "identity"
    BY <1>1 DEF Fresh, Blank, WithDefault
  <2>3. Encoding(r)' = IF call[r].accepts /\ o.compressible THEN "gzip" ELSE out[Sink(r)].encoding
    BY <1>1, <1>4, <2>2 DEF Encoding, Compressed
  <2>4. out'[Sink(r)] = WithEncoding(Response(o.status, Sent, "identity", <<>>), Encoding(r)')
    BY <1>1, <1>2, <1>3, <2>1, <2>3 DEF Typed
  <2>5. out'[Sink(r)] = Response(o.status, Sent, Encoding(r)', <<>>)
    BY <2>4, FieldsSet
  <2> QED
    BY <1>4, <2>5 DEF Answered
<1>7. /\ DOMAIN out' = Requests \cup Buffers
      /\ \A s \in Requests \cup Buffers : s # Sink(r) => out'[s] = out[s]
  BY <1>1, <1>3 DEF Typed
<1>8. Local(r)
  BY <1>1, <1>2, <1>4, <1>7 DEF Local, given, Typed
<1>9. Typed'
  BY <1>1, <1>4, <1>7 DEF Typed
<1>10. ReadersKept' /\ WritersKept' /\ BuffersKept'
  BY <1>1, <1>2, <1>7, PoolsLeftAlone
<1>11. Holding(r)'
  BY <1>1, <1>4 DEF Holding
<1>12. Written(r)'
  <2>1. ~o.body => Whole(r)' = <<>>
    BY <1>4 DEF Whole
  <2>2. signing => out'[r] = Blank
    BY <1>1, <1>2, <1>7 DEF Written
  <2>3. digest'[r] = None
    BY <1>1 DEF Written
  <2> QED
    BY <1>1, <1>2, <1>4, <1>5, <1>6, <2>1, <2>2, <2>3 DEF Written
<1> QED
  BY <1>8, <1>9, <1>10, <1>11, <1>12, Together

LEMMA PanicKeeps ==
    ASSUME IInv, NEW r \in Requests, Panic(r)
    PROVE  IInv'
<1>1. /\ Typed /\ Holding(r) /\ Written(r) /\ at[r] = "handle"
      /\ UNCHANGED <<call, signing, input, held, contents, out, digest, logged>>
      /\ UNCHANGED <<readerOf, writerOf, bufferOf, idle, source, target, pending>>
      /\ outcome' = [outcome EXCEPT ![r] = PanicOutcome] /\ PanicOutcome \in Decided
      /\ at' = [at EXCEPT ![r] = "close"]
  BY DEF IInv, Panic, Decided, given, held, contents, responses
<1>2. /\ at'[r] = "close" /\ at' \in [Requests -> Stages]
      /\ outcome'[r] = PanicOutcome /\ outcome' \in [Requests -> Decided]
      /\ \A q \in Requests : q # r => at'[q] = at[q] /\ outcome'[q] = outcome[q]
  BY <1>1 DEF Typed, Stages
<1>3. Local(r)
  BY <1>1, <1>2 DEF Local, given
<1>4. Typed'
  BY <1>1, <1>2 DEF Typed
<1>5. ReadersKept' /\ WritersKept' /\ BuffersKept'
  BY <1>1, PoolsLeftAlone
<1>6. Holding(r)'
  BY <1>1, <1>2 DEF Holding
<1>7. Written(r)'
  BY <1>1, <1>2 DEF Written, Unwinding
<1> QED
  BY <1>3, <1>4, <1>5, <1>6, <1>7, Together

LEMMA SignKeeps ==
    ASSUME IInv, NEW r \in Requests, Sign(r)
    PROVE  IInv'
<1>1. /\ Typed /\ Holding(r) /\ Written(r) /\ at[r] = "sign" /\ signing
      /\ UNCHANGED <<call, signing, input, outcome, held, contents, logged>>
      /\ UNCHANGED <<readerOf, writerOf, bufferOf, idle, source, target, pending>>
      /\ at' = [at EXCEPT ![r] = "send"]
      /\ out' = [out EXCEPT ![r] =
             WithEncoding(WithStatus(out[r], out[bufferOf[r]].status), out[bufferOf[r]].encoding)]
      /\ digest' = [digest EXCEPT ![r] = out[bufferOf[r]].body]
  BY DEF IInv, Sign, Holding, given, held, contents
<1>2. /\ Sink(r) = bufferOf[r] /\ bufferOf[r] \in Buffers /\ bufferOf[r] # r
      /\ \A q \in Requests : q # r => (bufferOf[q] # None => bufferOf[q] # r)
      /\ r \notin Buffers
  <2>1. at[r] \notin {"new", "recover", "log", "done"}
    BY <1>1
  <2>2. r \notin Buffers
    BY KindsApart
  <2> QED
    BY <1>1, <2>1, <2>2, SinkIsMine
<1>3. /\ at'[r] = "send" /\ at' \in [Requests -> Stages]
      /\ \A q \in Requests : q # r => at'[q] = at[q]
      /\ digest'[r] = out[bufferOf[r]].body /\ DOMAIN digest' = Requests
      /\ \A q \in Requests : q # r => digest'[q] = digest[q]
      /\ DOMAIN out' = Requests \cup Buffers
      /\ \A s \in Requests \cup Buffers : s # r => out'[s] = out[s]
  BY <1>1 DEF Typed, Stages
<1>4. /\ ~Unwinding(r) /\ out[r] = Blank
      /\ out[bufferOf[r]] = Response(outcome[r].status, Sent, Encoding(r), Whole(r))
  BY <1>1, <1>2 DEF Written, Answered
<1>5. /\ out[bufferOf[r]].status = outcome[r].status /\ out[bufferOf[r]].encoding = Encoding(r)
      /\ out[bufferOf[r]].body = Whole(r)
  BY <1>4, Fields
<1>6. out'[r] = Answered(r, <<>>)
  <2>1. WithStatus(out[r], outcome[r].status) = Response(outcome[r].status, Sent, "identity", <<>>)
    BY <1>4, FreshStatus
  <2>2. out'[r] = WithEncoding(Response(outcome[r].status, Sent, "identity", <<>>), Encoding(r))
    BY <1>1, <1>5, <2>1 DEF Typed
  <2> QED
    BY <2>2, FieldsSet DEF Answered
<1>7. Local(r)
  BY <1>1, <1>2, <1>3 DEF Local, given, Typed
<1>8. Typed'
  BY <1>1, <1>3 DEF Typed
<1>9. ReadersKept' /\ WritersKept' /\ BuffersKept'
  BY <1>1, <1>2, <1>3, PoolsLeftAlone
<1>10. Holding(r)'
  BY <1>1, <1>3 DEF Holding
<1>11. Written(r)'
  <2>1. /\ \A body : Answered(r, body)' = Answered(r, body)
        /\ Whole(r)' = Whole(r) /\ (Unwinding(r)' <=> Unwinding(r))
    BY <1>1 DEF Answered, Encoding, Compressed, Whole, Unwinding
  <2>2. out'[bufferOf'[r]] = Answered(r, Whole(r))
    BY <1>1, <1>2, <1>3, <1>4 DEF Answered
  <2> QED
    BY <1>3, <1>4, <1>5, <1>6, <2>1, <2>2 DEF Written
<1> QED
  BY <1>7, <1>8, <1>9, <1>10, <1>11, Together

LEMMA SendKeeps ==
    ASSUME IInv, NEW r \in Requests, Send(r)
    PROVE  IInv'
<1>1. /\ Typed /\ Holding(r) /\ Written(r) /\ at[r] = "send" /\ signing
      /\ UNCHANGED <<call, signing, input, outcome, held, contents, digest, logged>>
      /\ UNCHANGED <<readerOf, writerOf, bufferOf, idle, source, target, pending>>
      /\ at' = [at EXCEPT ![r] = "putBuffer"]
      /\ out' = [out EXCEPT ![r] = WithBody(out[r], out[bufferOf[r]].body)]
  BY DEF IInv, Send, Holding, given, held, contents
<1>2. /\ bufferOf[r] \in Buffers /\ bufferOf[r] # r /\ r \notin Buffers
      /\ \A q \in Requests : q # r => (bufferOf[q] # None => bufferOf[q] # r)
  <2>1. at[r] \notin {"new", "recover", "log", "done"}
    BY <1>1
  <2>2. r \notin Buffers
    BY KindsApart
  <2> QED
    BY <1>1, <2>1, <2>2, SinkIsMine
<1>3. /\ at'[r] = "putBuffer" /\ at' \in [Requests -> Stages]
      /\ \A q \in Requests : q # r => at'[q] = at[q]
      /\ DOMAIN out' = Requests \cup Buffers
      /\ \A s \in Requests \cup Buffers : s # r => out'[s] = out[s]
  BY <1>1 DEF Typed, Stages
<1>4. /\ ~Unwinding(r) /\ digest[r] = Whole(r)
      /\ out[r] = Response(outcome[r].status, Sent, Encoding(r), <<>>)
      /\ out[bufferOf[r]] = Response(outcome[r].status, Sent, Encoding(r), Whole(r))
  BY <1>1 DEF Written, Answered
<1>5. out'[r] = Answered(r, Whole(r))
  <2>1. out[bufferOf[r]].body = Whole(r)
    BY <1>4, Fields
  <2>2. out'[r] = WithBody(Response(outcome[r].status, Sent, Encoding(r), <<>>), Whole(r))
    BY <1>1, <1>4, <2>1 DEF Typed
  <2> QED
    BY <2>2, FieldsSet DEF Answered
<1>6. Local(r)
  BY <1>1, <1>2, <1>3 DEF Local, given, Typed
<1>7. Typed'
  BY <1>1, <1>3 DEF Typed
<1>8. ReadersKept' /\ WritersKept' /\ BuffersKept'
  BY <1>1, <1>2, <1>3, PoolsLeftAlone
<1>9. Holding(r)'
  BY <1>1, <1>3 DEF Holding
<1>10. Written(r)'
  <2>1. /\ \A body : Answered(r, body)' = Answered(r, body)
        /\ Whole(r)' = Whole(r) /\ (Unwinding(r)' <=> Unwinding(r))
    BY <1>1 DEF Answered, Encoding, Compressed, Whole, Unwinding
  <2> QED
    BY <1>1, <1>3, <1>4, <1>5, <2>1 DEF Written
<1> QED
  BY <1>6, <1>7, <1>8, <1>9, <1>10, Together

LEMMA LogKeeps ==
    ASSUME IInv, NEW r \in Requests, Log(r)
    PROVE  IInv'
<1>1. /\ Typed /\ Holding(r) /\ Written(r) /\ at[r] = "log"
      /\ UNCHANGED <<call, signing, input, outcome, held, contents, out, digest>>
      /\ UNCHANGED <<readerOf, writerOf, bufferOf, idle, source, target, pending>>
      /\ at' = [at EXCEPT ![r] = "done"]
      /\ logged' = [logged EXCEPT ![r] = out[r].status]
  BY DEF IInv, Log, given, held, contents
<1>2. /\ at'[r] = "done" /\ at' \in [Requests -> Stages]
      /\ \A q \in Requests : q # r => at'[q] = at[q] /\ logged'[q] = logged[q]
      /\ logged'[r] = out[r].status /\ DOMAIN logged' = Requests
  BY <1>1 DEF Typed, Stages
<1>3. Local(r)
  BY <1>1, <1>2 DEF Local, given
<1>4. Typed'
  BY <1>1, <1>2 DEF Typed
<1>5. ReadersKept' /\ WritersKept' /\ BuffersKept'
  BY <1>1, PoolsLeftAlone
<1>6. Holding(r)'
  BY <1>1, <1>2 DEF Holding
<1>7. Written(r)'
  <2>1. /\ \A body : Answered(r, body)' = Answered(r, body)
        /\ Whole(r)' = Whole(r) /\ (Unwinding(r)' <=> Unwinding(r))
    BY <1>1 DEF Answered, Encoding, Compressed, Whole, Unwinding
  <2>2. ~Unwinding(r) /\ out[r] = Answered(r, Whole(r)) /\ digest[r] = IF signing THEN Whole(r) ELSE None
    BY <1>1 DEF Written
  <2>3. out[r].status = outcome[r].status
    BY <2>2, Fields DEF Answered
  <2> QED
    BY <1>1, <1>2, <2>1, <2>2, <2>3 DEF Written
<1> QED
  BY <1>3, <1>4, <1>5, <1>6, <1>7, Together

LEMMA RecoverKeeps ==
    ASSUME IInv, NEW r \in Requests, NEW status \in {500, 504}, Recover(r, status)
    PROVE  IInv'
<1>1. /\ Typed /\ Holding(r) /\ Written(r) /\ at[r] = "recover" /\ r \notin Buffers
      /\ UNCHANGED <<call, signing, input, outcome, held, contents, digest, logged>>
      /\ UNCHANGED <<readerOf, writerOf, bufferOf, idle, source, target, pending>>
      /\ at' = [at EXCEPT ![r] = "done"]
      /\ out' = [out EXCEPT ![r] = WithStatus(out[r], status)]
  BY KindsApart DEF IInv, Recover, given, held, contents
<1>2. /\ at'[r] = "done" /\ at' \in [Requests -> Stages]
      /\ \A q \in Requests : q # r => at'[q] = at[q]
      /\ DOMAIN out' = Requests \cup Buffers
      /\ \A s \in Requests \cup Buffers : s # r => out'[s] = out[s]
  BY <1>1 DEF Typed, Stages
<1>3. Unwinding(r) /\ Unwinding(r)'
  BY <1>1 DEF Written, Unwinding
<1>4. \A q \in Requests : bufferOf[q] # None => bufferOf[q] # r /\ bufferOf[q] \in Buffers
  BY <1>1 DEF Typed
<1>5. Local(r)
  BY <1>1, <1>2, <1>4 DEF Local, given
<1>6. Typed'
  BY <1>1, <1>2 DEF Typed
<1>7. ReadersKept' /\ WritersKept' /\ BuffersKept'
  BY <1>1, <1>2, PoolsLeftAlone
<1>8. Holding(r)'
  BY <1>1, <1>2 DEF Holding
<1>9. Written(r)'
  BY <1>2, <1>3 DEF Written
<1> QED
  BY <1>5, <1>6, <1>7, <1>8, <1>9, Together

LEMMA ReceiveKeeps ==
    ASSUME IInv, NEW r \in Requests, Receive(r)
    PROVE  IInv'
<1>1. /\ Typed /\ Holding(r) /\ Written(r) /\ at[r] = "new"
      /\ ReadersKept /\ WritersKept /\ BuffersKept
      /\ UNCHANGED <<call, signing, input, outcome, readerOf, writerOf>>
      /\ UNCHANGED <<source, target, pending, digest, logged>>
      /\ bufferOf[r] = None /\ writerOf[r] = None /\ readerOf[r] = None
      /\ outcome[r] = NoOutcome /\ out[r] = Blank /\ digest[r] = None
  BY DEF IInv, Receive, Holding, Written, given, contents
<1>2. CASE signing
  <2>1. PICK b \in Buffers :
           /\ Available(b, bufferOf) /\ Taken(b)
           /\ bufferOf' = [bufferOf EXCEPT ![r] = b]
           /\ out' = [out EXCEPT ![b] = WithDefault(IF idle[b] > 0 THEN @ ELSE Blank)]
    BY <1>1, <1>2 DEF Receive
  <2>2. at' = [at EXCEPT ![r] = "verify"]
    BY <1>1, <1>2 DEF Receive
  <2>3. /\ \A q \in Requests : bufferOf[q] # b
        /\ out[b] = Blank
    BY <1>1, <2>1, AvailableIsFree DEF BuffersKept
  <2>4. b \in Objects /\ b \notin Requests /\ b # None /\ b # r
    BY KindsApart
  <2>5. /\ at'[r] = "verify" /\ at' \in [Requests -> Stages]
        /\ bufferOf'[r] = b /\ bufferOf' \in [Requests -> Buffers \cup {None}]
        /\ \A q \in Requests : q # r => at'[q] = at[q] /\ bufferOf'[q] = bufferOf[q]
    BY <1>1, <2>1, <2>2 DEF Typed, Stages
  <2>6. /\ out'[b] = WithDefault(Blank) /\ DOMAIN out' = Requests \cup Buffers
        /\ \A s \in Requests \cup Buffers : s # b => out'[s] = out[s]
    BY <1>1, <2>1, <2>3 DEF Typed
  <2>7. /\ idle' \in [Objects -> {0, 1}] /\ idle'[b] = 0
        /\ \A p \in Objects : p # b => idle'[p] = idle[p]
    BY <1>1, <2>1, <2>4, TakenTyped DEF Typed
  <2>8. Local(r)
    BY <1>1, <2>3, <2>4, <2>5, <2>6 DEF Local, given, Typed
  <2>9. Typed'
    BY <1>1, <2>5, <2>6, <2>7 DEF Typed
  <2>10. ReadersKept'
    <3>1. \A z \in Readers : idle'[z] = idle[z]
      BY <2>7, KindsApart
    <3> QED
      BY <1>1, <3>1, ReadersLeft
  <2>11. WritersKept'
    <3>1. \A z \in Writers : idle'[z] = idle[z]
      BY <2>7, KindsApart
    <3>2. \A q \in Requests : writerOf[q] # None => Sink(q)' = Sink(q)
      BY <1>1, <2>5 DEF Sink
    <3> QED
      BY <1>1, <3>1, <3>2, WritersLeft
  <2>12. BuffersKept'
    <3>1. Sole(bufferOf', Buffers, idle')
      <4>1. Sole(bufferOf, Buffers, idle) /\ \A p \in Buffers : p # b => idle'[p] = idle[p]
        BY <1>1, <2>7, KindsApart DEF BuffersKept
      <4> QED
        BY <2>3, <2>5, <2>7, <4>1 DEF Sole
    <3>2. \A c \in Buffers : (\A q \in Requests : bufferOf'[q] # c) => out'[c] = Blank
      BY <1>1, <2>5, <2>6, KindsApart DEF BuffersKept
    <3> QED
      BY <3>1, <3>2 DEF BuffersKept
  <2>13. Holding(r)'
    BY <1>1, <1>2, <2>4, <2>5 DEF Holding
  <2>14. Sink(r)' = b
    BY <1>1, <1>2, <2>5 DEF Sink
  <2>15. Written(r)'
    BY <1>1, <2>4, <2>5, <2>6, <2>14 DEF Written, Fresh
  <2> QED
    BY <2>8, <2>9, <2>10, <2>11, <2>12, <2>13, <2>15, Together
<1>3. CASE ~signing
  <2>1. at' = [at EXCEPT ![r] = "inflate"] /\ UNCHANGED <<bufferOf, idle, out>>
    BY <1>1, <1>3 DEF Receive
  <2>2. /\ at'[r] = "inflate" /\ at' \in [Requests -> Stages]
        /\ \A q \in Requests : q # r => at'[q] = at[q]
    BY <1>1, <2>1 DEF Typed, Stages
  <2>3. Local(r)
    BY <1>1, <2>1, <2>2 DEF Local, given
  <2>4. Typed'
    BY <1>1, <2>1, <2>2 DEF Typed
  <2>5. ReadersKept' /\ WritersKept' /\ BuffersKept'
    BY <1>1, <2>1, PoolsLeftAlone DEF held, contents
  <2>6. Holding(r)'
    BY <1>1, <1>3, <2>1, <2>2 DEF Holding
  <2>7. Written(r)'
    <3>1. Sink(r)' = r
      BY <1>1, <1>3 DEF Sink
    <3> QED
      BY <1>1, <1>3, <2>1, <2>2, <3>1 DEF Written, Fresh
  <2> QED
    BY <2>3, <2>4, <2>5, <2>6, <2>7, Together
<1> QED
  BY <1>2, <1>3

\* A body that is not compressed takes no decompressor.
LEMMA PassKeeps ==
    ASSUME IInv, NEW r \in Requests, Inflate(r), call[r].encoding = "identity"
    PROVE  IInv'
<1>1. /\ Typed /\ Holding(r) /\ Written(r) /\ at[r] = "inflate"
      /\ UNCHANGED <<call, signing, input, outcome, held, contents, out, digest, logged>>
      /\ UNCHANGED <<readerOf, writerOf, bufferOf, idle, source, target, pending>>
      /\ at' = [at EXCEPT ![r] = "handle"]
  BY DEF IInv, Inflate, given, held, contents
<1>2. /\ at'[r] = "handle" /\ at' \in [Requests -> Stages]
      /\ \A q \in Requests : q # r => at'[q] = at[q]
  BY <1>1 DEF Typed, Stages
<1>3. Local(r)
  BY <1>1, <1>2 DEF Local, given
<1>4. Typed'
  BY <1>1, <1>2 DEF Typed
<1>5. ReadersKept' /\ WritersKept' /\ BuffersKept'
  BY <1>1, PoolsLeftAlone
<1>6. Holding(r)'
  BY <1>1, <1>2 DEF Holding
<1>7. Written(r)'
  <2>1. Sink(r)' = Sink(r)
    BY <1>1 DEF Sink
  <2> QED
    BY <1>1, <1>2, <2>1 DEF Written
<1> QED
  BY <1>3, <1>4, <1>5, <1>6, <1>7, Together

LEMMA InflateKeeps ==
    ASSUME IInv, NEW r \in Requests, Inflate(r)
    PROVE  IInv'
<1>1. CASE call[r].encoding = "identity"
  BY <1>1, PassKeeps
<1>2. CASE call[r].encoding # "identity"
  <2>1. /\ Typed /\ Holding(r) /\ Written(r) /\ at[r] = "inflate"
        /\ ReadersKept /\ WritersKept /\ BuffersKept
        /\ UNCHANGED <<call, signing, input, writerOf, bufferOf, target, pending, digest, logged>>
        /\ readerOf[r] = None
    BY DEF IInv, Inflate, Holding, given
  <2>2. PICK z \in Readers : GetGzipReader(r, z)
    BY <1>2 DEF Inflate
  <2>3. z \in Objects /\ z \notin Writers /\ z \notin Buffers /\ z # None
    BY KindsApart
  <2>4. \A q \in Requests : readerOf[q] # z
    BY <2>1, <2>2, AvailableIsFree DEF GetGzipReader, ReadersKept
  <2>5. /\ Readers \in SUBSET Objects /\ readerOf \in [Requests -> Readers \cup {None}]
        /\ idle \in [Objects -> {0, 1}] /\ source \in [Readers -> Requests \cup {None}]
        /\ Sole(readerOf, Readers, idle)
    BY <2>1, KindsApart DEF Typed, ReadersKept
  <2>6. ASSUME \A p \in Objects : p # z => idle'[p] = idle[p],
               \A b \in Buffers : b # bufferOf[r] => out'[b] = out[b]
        PROVE  WritersKept' /\ BuffersKept'
    <3>1. /\ \A p \in Writers : idle'[p] = idle[p]
          /\ \A p \in Buffers : idle'[p] = idle[p]
      BY <2>6, <2>3, KindsApart
    <3>2. \A q \in Requests : Sink(q)' = Sink(q)
      BY <2>1 DEF Sink
    <3>3. WritersKept'
      BY <2>1, <3>1, <3>2, WritersLeft
    <3>4. BuffersKept'
      BY <2>1, <2>6, <3>1, BuffersLeft
    <3> QED
      BY <3>3, <3>4
  <2>7. CASE call[r].encoding = "gzip"
    <3>1. /\ Taken(z) /\ Available(z, readerOf)
          /\ readerOf' = [readerOf EXCEPT ![r] = z] /\ source' = [source EXCEPT ![z] = r]
      BY <2>2, <2>7 DEF GetGzipReader
    <3>2. at' = [at EXCEPT ![r] = "handle"] /\ UNCHANGED <<outcome, out>>
      BY <2>7 DEF Inflate
    <3>3. /\ at'[r] = "handle" /\ at' \in [Requests -> Stages]
          /\ readerOf'[r] = z /\ readerOf' \in [Requests -> Readers \cup {None}]
          /\ \A q \in Requests : q # r => at'[q] = at[q] /\ readerOf'[q] = readerOf[q]
      BY <2>1, <3>1, <3>2 DEF Typed, Stages
    <3>4. /\ source'[z] = r /\ source' \in [Readers -> Requests \cup {None}]
          /\ \A y \in Readers : y # z => source'[y] = source[y]
      BY <2>5, <3>1
    <3>5. /\ idle' \in [Objects -> {0, 1}] /\ idle'[z] = 0
          /\ \A p \in Objects : p # z => idle'[p] = idle[p]
      BY <2>3, <2>5, <3>1, TakenTyped
    <3>6. Local(r)
      BY <2>1, <3>2, <3>3 DEF Local, given
    <3>7. Typed'
      BY <2>1, <3>2, <3>3, <3>4, <3>5 DEF Typed
    <3>8. ReadersKept'
      <4>1. Sole(readerOf', Readers, idle')
        <5>1. \A p \in Readers : p # z => idle'[p] = idle[p]
          BY <3>5, KindsApart
        <5> QED
          BY <2>4, <2>5, <3>3, <3>5, <5>1 DEF Sole
      <4>2. \A y \in Readers : (\A q \in Requests : readerOf'[q] # y) => source'[y] = None
        BY <2>1, <3>3, <3>4, KindsApart DEF ReadersKept
      <4>3. \A q \in Requests : readerOf'[q] # None => source'[readerOf'[q]] = q
        BY <2>1, <2>4, <2>5, <3>3, <3>4 DEF ReadersKept
      <4> QED
        BY <4>1, <4>2, <4>3 DEF ReadersKept
    <3>9. WritersKept' /\ BuffersKept'
      BY <2>6, <3>2, <3>5
    <3>10. Holding(r)'
      BY <2>1, <3>3 DEF Holding
    <3>11. Written(r)'
      <4>1. Sink(r)' = Sink(r)
        BY <2>1 DEF Sink
      <4> QED
        BY <2>1, <3>2, <3>3, <4>1 DEF Written
    <3> QED
      BY <3>6, <3>7, <3>8, <3>9, <3>10, <3>11, Together
  <2>8. CASE call[r].encoding # "gzip"
    <3>1. /\ idle' = [idle EXCEPT ![z] = IF @ > 0 THEN @ ELSE 1]
          /\ source' = [source EXCEPT ![z] = None] /\ readerOf' = readerOf
      BY <2>2, <2>8 DEF GetGzipReader
    <3>2. Reject(r, 400) /\ at' = [at EXCEPT ![r] = Outside]
      <4>1. call[r].encoding \in {"identity", "gzip", "broken"}
        BY <2>1, CallsTyped DEF Typed
      <4> QED
        BY <1>2, <2>8, <4>1 DEF Inflate
    <3>3. /\ at'[r] = (IF signing THEN "sign" ELSE "log") /\ at' \in [Requests -> Stages]
          /\ \A q \in Requests : q # r => at'[q] = at[q]
      BY <2>1, <3>2 DEF Typed, Stages, Outside
    <3>4. /\ source' \in [Readers -> Requests \cup {None}] /\ source'[z] = None
          /\ \A y \in Readers : y # z => source'[y] = source[y]
          /\ idle' \in [Objects -> {0, 1}]
          /\ \A p \in Objects : p # z => idle'[p] = idle[p]
      BY <2>3, <2>5, <3>1
    <3>5. /\ outcome'[r] = Rejection(400) /\ outcome' \in [Requests -> Decided]
          /\ ~Unwinding(r)' /\ out'[Sink(r)] = Answered(r, Whole(r))'
          /\ \A s \in Requests \cup Buffers : s # Sink(r) => out'[s] = out[s]
          /\ DOMAIN out' = Requests \cup Buffers
      BY <2>1, <3>2, RejectAnswers DEF given
    <3>6. \A q \in Requests : q # r => outcome'[q] = outcome[q]
      BY <2>1, <3>2 DEF Reject, Typed
    <3>7. /\ Sink(r) \in Requests \cup Buffers /\ Sink(r)' = Sink(r)
          /\ signing => Sink(r) = bufferOf[r] /\ Sink(r) # r
          /\ ~signing => Sink(r) = r
          /\ \A b \in Buffers : b = Sink(r) => b = bufferOf[r]
          /\ \A q \in Requests : q # r =>
                q # Sink(r) /\ (bufferOf[q] # None => bufferOf[q] # Sink(r))
      BY <2>1, SinkIsMine DEF Sink
    <3>8. Local(r)
      BY <2>1, <3>1, <3>3, <3>5, <3>6, <3>7 DEF Local, given, Typed
    <3>9. Typed'
      BY <2>1, <3>1, <3>3, <3>4, <3>5 DEF Typed
    <3>10. ReadersKept'
      <4>1. Sole(readerOf', Readers, idle')
        BY <2>4, <2>5, <3>1, <3>4 DEF Sole
      <4> QED
        BY <2>1, <2>4, <2>5, <3>1, <3>4, <4>1 DEF ReadersKept
    <3>11. WritersKept' /\ BuffersKept'
      BY <2>6, <3>4, <3>5, <3>7
    <3>12. Holding(r)'
      BY <2>1, <3>1, <3>3 DEF Holding
    <3>13. Written(r)'
      <4>1. digest[r] = None /\ (signing => out'[r] = Blank)
        BY <2>1, <3>5, <3>7 DEF Written
      <4> QED
        BY <2>1, <3>3, <3>5, <3>7, <4>1 DEF Written
    <3> QED
      BY <3>8, <3>9, <3>10, <3>11, <3>12, <3>13, Together
  <2> QED
    BY <2>7, <2>8
<1> QED
  BY <1>1, <1>2

\* The body of a response goes to the sink in one piece, or in two when it is
\* compressed; the first is the header of the compressor.
LEMMA CompressKeeps ==
    ASSUME IInv, NEW r \in Requests, Write(r), Compressed(r)
    PROVE  IInv'
<1>1. /\ Typed /\ Holding(r) /\ Written(r) /\ at[r] = "write"
      /\ ReadersKept /\ WritersKept /\ BuffersKept
      /\ UNCHANGED <<call, signing, input, outcome, readerOf, bufferOf, source, digest, logged>>
      /\ writerOf[r] = None
      /\ out' = [out EXCEPT ![Sink(r)] = WithPiece(out[Sink(r)], HeaderOf(r))]
      /\ at' = [at EXCEPT ![r] = "flush"]
  BY DEF IInv, Write, Holding, given
<1>2. PICK z \in Writers :
         /\ Available(z, writerOf) /\ Taken(z)
         /\ writerOf' = [writerOf EXCEPT ![r] = z]
         /\ target' = [target EXCEPT ![z] = Sink(r)]
         /\ pending' = [pending EXCEPT ![z] = r]
  BY DEF Write
<1>3. z \in Objects /\ z \notin Readers /\ z \notin Buffers /\ z # None
  BY KindsApart
<1>4. \A q \in Requests : writerOf[q] # z
  BY <1>1, <1>2, AvailableIsFree DEF WritersKept
<1>5. /\ Sink(r) \in Requests \cup Buffers /\ \A q \in Requests : Sink(q)' = Sink(q)
      /\ signing => Sink(r) = bufferOf[r] /\ Sink(r) # r
      /\ \A b \in Buffers : b = Sink(r) => b = bufferOf[r]
      /\ \A q \in Requests : q # r =>
            q # Sink(r) /\ (bufferOf[q] # None => bufferOf[q] # Sink(r))
  BY <1>1, SinkIsMine DEF Sink
<1>6. /\ at'[r] = "flush" /\ at' \in [Requests -> Stages]
      /\ writerOf'[r] = z /\ writerOf' \in [Requests -> Writers \cup {None}]
      /\ \A q \in Requests : q # r => at'[q] = at[q] /\ writerOf'[q] = writerOf[q]
  BY <1>1, <1>2 DEF Typed, Stages
<1>7. /\ target'[z] = Sink(r) /\ target' \in [Writers -> Requests \cup Buffers \cup {None}]
      /\ \A y \in Writers : y # z => target'[y] = target[y]
  BY <1>1, <1>2, <1>5 DEF Typed
<1>8. /\ pending'[z] = r /\ pending' \in [Writers -> Requests \cup {None}]
      /\ \A y \in Writers : y # z => pending'[y] = pending[y]
  BY <1>1, <1>2 DEF Typed
<1>9. /\ idle' \in [Objects -> {0, 1}] /\ idle'[z] = 0
      /\ \A p \in Objects : p # z => idle'[p] = idle[p]
  BY <1>1, <1>2, <1>3, TakenTyped DEF Typed
<1>10. /\ DOMAIN out' = Requests \cup Buffers
       /\ out'[Sink(r)] = WithPiece(out[Sink(r)], HeaderOf(r))
       /\ \A s \in Requests \cup Buffers : s # Sink(r) => out'[s] = out[s]
  BY <1>1, <1>5 DEF Typed
<1>11. out'[Sink(r)] = Answered(r, <<HeaderOf(r)>>)
  <2>1. out[Sink(r)] = Response(outcome[r].status, Sent, Encoding(r), <<>>)
    BY <1>1 DEF Written, Answered
  <2> QED
    BY <1>10, <2>1, FirstPiece DEF Answered
<1>12. Local(r)
  <2>1. \A q \in Requests : q # r /\ writerOf[q] # None =>
           writerOf[q] \in Writers /\ writerOf[q] # z
    BY <1>1, <1>4 DEF Typed
  <2> QED
    BY <1>1, <1>5, <1>6, <1>8, <1>10, <2>1 DEF Local, given, Typed
<1>13. Typed'
  BY <1>1, <1>6, <1>7, <1>8, <1>9, <1>10 DEF Typed
<1>14. ReadersKept' /\ BuffersKept'
  <2>1. /\ \A p \in Readers : idle'[p] = idle[p]
        /\ \A p \in Buffers : idle'[p] = idle[p]
    BY <1>3, <1>9, KindsApart
  <2>2. \A b \in Buffers : b # bufferOf[r] => out'[b] = out[b]
    BY <1>5, <1>10
  <2> QED
    BY <1>1, <2>1, <2>2, ReadersLeft, BuffersLeft
<1>15. WritersKept'
  <2>1. \A p \in Writers : p # z => idle'[p] = idle[p]
    BY <1>9, KindsApart
  <2>2. Sole(writerOf', Writers, idle')
    BY <1>1, <1>4, <1>6, <1>9, <2>1 DEF WritersKept, Sole
  <2>3. \A y \in Writers : (\A q \in Requests : writerOf'[q] # y) =>
           target'[y] = None /\ pending'[y] = None
    BY <1>1, <1>6, <1>7, <1>8, KindsApart DEF WritersKept
  <2>4. \A q \in Requests : writerOf'[q] # None => target'[writerOf'[q]] = Sink(q)'
    BY <1>1, <1>4, <1>5, <1>6, <1>7 DEF WritersKept, Typed
  <2> QED
    BY <2>2, <2>3, <2>4 DEF WritersKept
<1>16. Holding(r)'
  BY <1>1, <1>3, <1>6, <1>8 DEF Holding
<1>17. Written(r)'
  <2>1. /\ \A body : Answered(r, body)' = Answered(r, body)
        /\ (Compressed(r)' <=> Compressed(r)) /\ (Unwinding(r)' <=> Unwinding(r))
    BY <1>1 DEF Answered, Encoding, Compressed, Unwinding
  <2>2. /\ outcome[r].body /\ ~Unwinding(r) /\ digest[r] = None
        /\ (signing => out'[r] = Blank)
    BY <1>1, <1>5, <1>10 DEF Written
  <2>3. out'[Sink(r)'] = Answered(r, <<HeaderOf(r)>>)'
    BY <1>5, <1>11, <2>1
  <2> QED
    BY <1>1, <1>6, <2>1, <2>2, <2>3 DEF Written
<1> QED
  BY <1>12, <1>13, <1>14, <1>15, <1>16, <1>17, Together

LEMMA WriteKeeps ==
    ASSUME IInv, NEW r \in Requests, Write(r)
    PROVE  IInv'
<1>1. CASE Compressed(r)
  BY <1>1, CompressKeeps
<1>2. CASE ~Compressed(r)
  <2>1. /\ Typed /\ Holding(r) /\ Written(r) /\ at[r] = "write"
        /\ UNCHANGED <<call, signing, input, outcome, held, contents, digest, logged>>
        /\ UNCHANGED <<readerOf, writerOf, bufferOf, idle, source, target, pending>>
        /\ out' = [out EXCEPT ![Sink(r)] = WithPiece(out[Sink(r)], TextOf(r))]
        /\ at' = [at EXCEPT ![r] = "close"]
    BY <1>2 DEF IInv, Write, given, held, contents
  <2>2. /\ Sink(r) \in Requests \cup Buffers /\ Sink(r)' = Sink(r)
        /\ signing => Sink(r) = bufferOf[r] /\ Sink(r) # r
        /\ \A b \in Buffers : b = Sink(r) => b = bufferOf[r]
        /\ \A q \in Requests : q # r =>
              q # Sink(r) /\ (bufferOf[q] # None => bufferOf[q] # Sink(r))
    BY <2>1, SinkIsMine DEF Sink
  <2>3. /\ at'[r] = "close" /\ at' \in [Requests -> Stages]
        /\ \A q \in Requests : q # r => at'[q] = at[q]
    BY <2>1 DEF Typed, Stages
  <2>4. /\ DOMAIN out' = Requests \cup Buffers
        /\ out'[Sink(r)] = WithPiece(out[Sink(r)], TextOf(r))
        /\ \A s \in Requests \cup Buffers : s # Sink(r) => out'[s] = out[s]
    BY <2>1, <2>2 DEF Typed
  <2>5. out'[Sink(r)] = Answered(r, Whole(r))
    <3>1. out[Sink(r)] = Response(outcome[r].status, Sent, Encoding(r), <<>>) /\ outcome[r].body
      BY <2>1 DEF Written, Answered
    <3>2. Whole(r) = <<TextOf(r)>>
      BY <1>2, <3>1 DEF Whole
    <3> QED
      BY <2>4, <3>1, <3>2, FirstPiece DEF Answered
  <2>6. Local(r)
    BY <2>1, <2>2, <2>3, <2>4 DEF Local, given, Typed
  <2>7. Typed'
    BY <2>1, <2>3, <2>4 DEF Typed
  <2>8. ReadersKept' /\ WritersKept' /\ BuffersKept'
    BY <2>1, <2>2, <2>4, PoolsLeftAlone
  <2>9. Holding(r)'
    BY <2>1, <2>3 DEF Holding
  <2>10. Written(r)'
    <3>1. Answered(r, Whole(r))' = Answered(r, Whole(r)) /\ (Unwinding(r)' <=> Unwinding(r))
      BY <2>1 DEF Answered, Encoding, Compressed, Whole, Unwinding
    <3>2. digest[r] = None /\ (signing => out'[r] = Blank)
      BY <2>1, <2>2, <2>4 DEF Written
    <3> QED
      BY <2>1, <2>2, <2>3, <2>5, <3>1, <3>2 DEF Written
  <2> QED
    BY <2>6, <2>7, <2>8, <2>9, <2>10, Together
<1> QED
  BY <1>1, <1>2

LEMMA CloseWriterKeeps ==
    ASSUME IInv, NEW r \in Requests, CloseWriter(r)
    PROVE  IInv'
<1>1. /\ Typed /\ Holding(r) /\ Written(r) /\ at[r] = "flush"
      /\ ReadersKept /\ WritersKept /\ BuffersKept
      /\ UNCHANGED <<call, signing, input, outcome, source, target, digest, logged>>
      /\ UNCHANGED <<readerOf, writerOf, bufferOf, idle>>
      /\ at' = [at EXCEPT ![r] = "putWriter"]
      /\ pending' = [pending EXCEPT ![writerOf[r]] = None]
      /\ writerOf[r] \in Writers /\ pending[writerOf[r]] = r
  BY DEF IInv, CloseWriter, Holding, Typed, given, held
<1>2. /\ Sink(r) \in Requests \cup Buffers /\ Sink(r) # None /\ \A q \in Requests : Sink(q)' = Sink(q)
      /\ signing => Sink(r) = bufferOf[r] /\ Sink(r) # r
      /\ \A b \in Buffers : b = Sink(r) => b = bufferOf[r]
      /\ \A q \in Requests : q # r =>
            q # Sink(r) /\ (bufferOf[q] # None => bufferOf[q] # Sink(r))
  BY <1>1, SinkIsMine DEF Sink
<1>3. target[writerOf[r]] = Sink(r)
  BY <1>1, KindsApart DEF WritersKept
<1>4. out' = [out EXCEPT ![Sink(r)] = WithPiece(out[Sink(r)], TrailerOf(r))]
  BY <1>1, <1>2, <1>3, KindsApart DEF CloseWriter
<1>5. /\ at'[r] = "putWriter" /\ at' \in [Requests -> Stages]
      /\ \A q \in Requests : q # r => at'[q] = at[q]
  BY <1>1 DEF Typed, Stages
<1>6. /\ pending'[writerOf[r]] = None /\ pending' \in [Writers -> Requests \cup {None}]
      /\ \A y \in Writers : y # writerOf[r] => pending'[y] = pending[y]
  BY <1>1 DEF Typed
<1>7. /\ DOMAIN out' = Requests \cup Buffers
      /\ out'[Sink(r)] = WithPiece(out[Sink(r)], TrailerOf(r))
      /\ \A s \in Requests \cup Buffers : s # Sink(r) => out'[s] = out[s]
  BY <1>1, <1>2, <1>4 DEF Typed
<1>8. out'[Sink(r)] = Answered(r, Whole(r))
  <2>1. /\ out[Sink(r)] = Response(outcome[r].status, Sent, Encoding(r), <<HeaderOf(r)>>)
        /\ outcome[r].body /\ Compressed(r)
    BY <1>1 DEF Written, Answered
  <2>2. Whole(r) = <<HeaderOf(r), TrailerOf(r)>>
    BY <2>1 DEF Whole
  <2> QED
    BY <1>7, <2>1, <2>2, SecondPiece DEF Answered
<1>9. Local(r)
  <2>1. \A q \in Requests : q # r /\ writerOf[q] # None =>
           writerOf[q] \in Writers /\ writerOf[q] # writerOf[r]
    BY <1>1 DEF Typed, WritersKept, Sole
  <2> QED
    BY <1>1, <1>2, <1>5, <1>6, <1>7, <2>1 DEF Local, given, Typed
<1>10. Typed'
  BY <1>1, <1>5, <1>6, <1>7 DEF Typed
<1>11. ReadersKept' /\ BuffersKept'
  <2>1. \A b \in Buffers : b # bufferOf[r] => out'[b] = out[b]
    BY <1>2, <1>7
  <2> QED
    BY <1>1, <2>1, ReadersLeft, BuffersLeft
<1>12. WritersKept'
  <2>1. Sole(writerOf', Writers, idle')
    BY <1>1 DEF WritersKept, Sole
  <2>2. \A y \in Writers : (\A q \in Requests : writerOf'[q] # y) =>
           target'[y] = None /\ pending'[y] = None
    BY <1>1, <1>6 DEF WritersKept
  <2>3. \A q \in Requests : writerOf'[q] # None => target'[writerOf'[q]] = Sink(q)'
    BY <1>1, <1>2 DEF WritersKept
  <2> QED
    BY <2>1, <2>2, <2>3 DEF WritersKept
<1>13. Holding(r)'
  BY <1>1, <1>5 DEF Holding
<1>14. Written(r)'
  <2>1. Answered(r, Whole(r))' = Answered(r, Whole(r)) /\ (Unwinding(r)' <=> Unwinding(r))
    BY <1>1 DEF Answered, Encoding, Compressed, Whole, Unwinding
  <2>2. ~Unwinding(r) /\ digest[r] = None /\ (signing => out'[r] = Blank)
    BY <1>1, <1>2, <1>7 DEF Written
  <2> QED
    BY <1>1, <1>2, <1>5, <1>8, <2>1, <2>2 DEF Written
<1> QED
  BY <1>9, <1>10, <1>11, <1>12, <1>13, <1>14, Together

LEMMA PutWriterKeeps ==
    ASSUME IInv, NEW r \in Requests, PutWriter(r)
    PROVE  IInv'
<1>1. /\ Typed /\ Holding(r) /\ Written(r) /\ at[r] = "putWriter"
      /\ ReadersKept /\ WritersKept /\ BuffersKept
      /\ UNCHANGED <<call, signing, input, outcome, readerOf, bufferOf, source, out, digest, logged>>
      /\ at' = [at EXCEPT ![r] = "close"]
      /\ writerOf' = [writerOf EXCEPT ![r] = None]
      /\ Pooled(writerOf[r]) /\ writerOf[r] \in Writers
      /\ target' = [target EXCEPT ![writerOf[r]] = None]
      /\ pending' = [pending EXCEPT ![writerOf[r]] = None]
  BY DEF IInv, PutWriter, Holding, Typed, given, responses
<1>2. PICK z \in Writers : z = writerOf[r]
  BY <1>1
<1>3. z \in Objects /\ z \notin Readers /\ z \notin Buffers /\ z # None
  BY KindsApart
<1>4. idle[z] = 0 /\ \A q \in Requests : q # r => writerOf[q] # z
  BY <1>1, <1>2 DEF WritersKept, Sole
<1>5. /\ idle' \in [Objects -> {0, 1}] /\ idle'[z] = 1
      /\ \A p \in Objects : p # z => idle'[p] = idle[p]
  BY <1>1, <1>2, <1>3, <1>4, PooledTyped DEF Typed
<1>6. /\ at'[r] = "close" /\ at' \in [Requests -> Stages]
      /\ writerOf'[r] = None /\ writerOf' \in [Requests -> Writers \cup {None}]
      /\ \A q \in Requests : q # r => at'[q] = at[q] /\ writerOf'[q] = writerOf[q]
  BY <1>1 DEF Typed, Stages
<1>7. /\ target'[z] = None /\ target' \in [Writers -> Requests \cup Buffers \cup {None}]
      /\ pending'[z] = None /\ pending' \in [Writers -> Requests \cup {None}]
      /\ \A y \in Writers : y # z => target'[y] = target[y] /\ pending'[y] = pending[y]
  BY <1>1, <1>2 DEF Typed
<1>8. Local(r)
  <2>1. \A q \in Requests : q # r /\ writerOf[q] # None => writerOf[q] \in Writers /\ writerOf[q] # z
    BY <1>1, <1>4 DEF Typed
  <2> QED
    BY <1>1, <1>6, <1>7, <2>1 DEF Local, given
<1>9. Typed'
  BY <1>1, <1>5, <1>6, <1>7 DEF Typed
<1>10. \A q \in Requests : Sink(q)' = Sink(q)
  BY <1>1 DEF Sink
<1>11. ReadersKept' /\ BuffersKept'
  <2>1. /\ \A p \in Readers : idle'[p] = idle[p]
        /\ \A p \in Buffers : idle'[p] = idle[p]
    BY <1>3, <1>5, KindsApart
  <2> QED
    BY <1>1, <2>1, ReadersLeft, BuffersLeft
<1>12. WritersKept'
  <2>1. None \notin Writers /\ \A p \in Writers : p # z => idle'[p] = idle[p]
    BY <1>5, KindsApart
  <2>2. Sole(writerOf', Writers, idle')
    BY <1>1, <1>3, <1>4, <1>5, <1>6, <2>1 DEF WritersKept, Sole
  <2>3. \A y \in Writers : (\A q \in Requests : writerOf'[q] # y) =>
           target'[y] = None /\ pending'[y] = None
    BY <1>1, <1>2, <1>6, <1>7 DEF WritersKept
  <2>4. \A q \in Requests : writerOf'[q] # None => target'[writerOf'[q]] = Sink(q)'
    BY <1>1, <1>4, <1>6, <1>7, <1>10 DEF WritersKept, Typed
  <2> QED
    BY <2>2, <2>3, <2>4 DEF WritersKept
<1>13. Holding(r)'
  BY <1>1, <1>6 DEF Holding
<1>14. Written(r)'
  <2>1. Answered(r, Whole(r))' = Answered(r, Whole(r)) /\ (Unwinding(r)' <=> Unwinding(r))
    BY <1>1 DEF Answered, Encoding, Compressed, Whole, Unwinding
  <2> QED
    BY <1>1, <1>6, <1>10, <2>1 DEF Written
<1> QED
  BY <1>8, <1>9, <1>11, <1>12, <1>13, <1>14, Together

LEMMA CloseBodyKeeps ==
    ASSUME IInv, NEW r \in Requests, CloseBody(r)
    PROVE  IInv'
<1>1. /\ Typed /\ Holding(r) /\ Written(r) /\ at[r] = "close"
      /\ ReadersKept /\ WritersKept /\ BuffersKept
      /\ UNCHANGED <<call, signing, input, outcome, writerOf, bufferOf>>
      /\ UNCHANGED <<target, pending, out, digest, logged>>
      /\ at' = [at EXCEPT ![r] = Beyond(r)]
  BY DEF IInv, CloseBody, given, responses
<1>2. /\ at'[r] = Beyond(r) /\ at' \in [Requests -> Stages]
      /\ \A q \in Requests : q # r => at'[q] = at[q]
  BY <1>1 DEF Typed, Stages, Beyond, Outside
<1>3. \A q \in Requests : Sink(q)' = Sink(q)
  BY <1>1 DEF Sink
<1>4. Written(r)'
  <2>1. Answered(r, Whole(r))' = Answered(r, Whole(r)) /\ (Unwinding(r)' <=> Unwinding(r))
    BY <1>1 DEF Answered, Encoding, Compressed, Whole, Unwinding
  <2>2. digest[r] = None /\ (signing => out[r] = Blank)
        /\ (~Unwinding(r) => out[Sink(r)] = Answered(r, Whole(r)))
    BY <1>1 DEF Written
  <2>3. ~signing => Sink(r) = r
    BY DEF Sink
  <2> QED
    BY <1>1, <1>2, <1>3, <2>1, <2>2, <2>3 DEF Written, Beyond, Outside
<1>5. CASE readerOf[r] = None
  <2>1. UNCHANGED <<readerOf, idle, source>>
    BY <1>5 DEF CloseBody
  <2>2. Local(r)
    BY <1>1, <1>2, <2>1 DEF Local, given
  <2>3. Typed'
    BY <1>1, <1>2, <2>1 DEF Typed
  <2>4. ReadersKept' /\ WritersKept' /\ BuffersKept'
    BY <1>1, <2>1, PoolsLeftAlone DEF held, contents
  <2>5. Holding(r)'
    BY <1>1, <1>2, <1>5, <2>1 DEF Holding, Beyond, Outside
  <2> QED
    BY <1>4, <2>2, <2>3, <2>4, <2>5, Together
<1>6. CASE readerOf[r] # None
  <2>1. /\ Pooled(readerOf[r]) /\ readerOf[r] \in Readers
        /\ readerOf' = [readerOf EXCEPT ![r] = None]
        /\ source' = [source EXCEPT ![readerOf[r]] = None]
    BY <1>1, <1>6 DEF CloseBody, Typed
  <2>2. PICK z \in Readers : z = readerOf[r]
    BY <2>1
  <2>3. z \in Objects /\ z \notin Writers /\ z \notin Buffers /\ z # None
    BY KindsApart
  <2>4. idle[z] = 0 /\ \A q \in Requests : q # r => readerOf[q] # z
    BY <1>1, <2>2 DEF ReadersKept, Sole
  <2>5. /\ idle' \in [Objects -> {0, 1}] /\ idle'[z] = 1
        /\ \A p \in Objects : p # z => idle'[p] = idle[p]
    BY <1>1, <2>1, <2>2, <2>3, <2>4, PooledTyped DEF Typed
  <2>6. /\ readerOf'[r] = None /\ readerOf' \in [Requests -> Readers \cup {None}]
        /\ \A q \in Requests : q # r => readerOf'[q] = readerOf[q]
        /\ source'[z] = None /\ source' \in [Readers -> Requests \cup {None}]
        /\ \A y \in Readers : y # z => source'[y] = source[y]
    BY <1>1, <2>1, <2>2 DEF Typed
  <2>7. Local(r)
    BY <1>1, <1>2, <2>6 DEF Local, given
  <2>8. Typed'
    BY <1>1, <1>2, <2>5, <2>6 DEF Typed
  <2>9. WritersKept' /\ BuffersKept'
    <3>1. /\ \A p \in Writers : idle'[p] = idle[p]
          /\ \A p \in Buffers : idle'[p] = idle[p]
      BY <2>3, <2>5, KindsApart
    <3> QED
      BY <1>1, <1>3, <3>1, WritersLeft, BuffersLeft
  <2>10. ReadersKept'
    <3>1. None \notin Readers /\ \A p \in Readers : p # z => idle'[p] = idle[p]
      BY <2>5, KindsApart
    <3>2. Sole(readerOf', Readers, idle')
      BY <1>1, <2>3, <2>4, <2>5, <2>6, <3>1 DEF ReadersKept, Sole
    <3>3. \A y \in Readers : (\A q \in Requests : readerOf'[q] # y) => source'[y] = None
      BY <1>1, <2>2, <2>6 DEF ReadersKept
    <3>4. \A q \in Requests : readerOf'[q] # None => source'[readerOf'[q]] = q
      BY <1>1, <2>4, <2>6 DEF ReadersKept, Typed
    <3> QED
      BY <3>2, <3>3, <3>4 DEF ReadersKept
  <2>11. Holding(r)'
    BY <1>1, <1>2, <2>6 DEF Holding, Beyond, Outside
  <2> QED
    BY <1>4, <2>7, <2>8, <2>9, <2>10, <2>11, Together
<1> QED
  BY <1>5, <1>6

LEMMA PutBufferKeeps ==
    ASSUME IInv, NEW r \in Requests, PutBuffer(r)
    PROVE  IInv'
<1>1. /\ Typed /\ Holding(r) /\ Written(r) /\ at[r] = "putBuffer" /\ signing
      /\ ReadersKept /\ WritersKept /\ BuffersKept
      /\ UNCHANGED <<call, signing, input, outcome, readerOf, writerOf, digest, logged>>
      /\ UNCHANGED <<source, target, pending>>
      /\ at' = [at EXCEPT ![r] = IF Unwinding(r) THEN "recover" ELSE "log"]
      /\ bufferOf' = [bufferOf EXCEPT ![r] = None]
      /\ Pooled(bufferOf[r]) /\ bufferOf[r] \in Buffers
      /\ out' = [out EXCEPT ![bufferOf[r]] = Blank]
      /\ writerOf[r] = None
  BY DEF IInv, PutBuffer, Holding, Typed, given, contents
<1>2. PICK b \in Buffers : b = bufferOf[r]
  BY <1>1
<1>3. b \in Objects /\ b \notin Readers /\ b \notin Writers /\ b # None /\ b \notin Requests
  BY KindsApart
<1>4. idle[b] = 0 /\ \A q \in Requests : q # r => bufferOf[q] # b
  BY <1>1, <1>2 DEF BuffersKept, Sole
<1>5. /\ idle' \in [Objects -> {0, 1}] /\ idle'[b] = 1
      /\ \A p \in Objects : p # b => idle'[p] = idle[p]
  BY <1>1, <1>2, <1>3, <1>4, PooledTyped DEF Typed
<1>6. /\ at'[r] = (IF Unwinding(r) THEN "recover" ELSE "log") /\ at' \in [Requests -> Stages]
      /\ bufferOf'[r] = None /\ bufferOf' \in [Requests -> Buffers \cup {None}]
      /\ \A q \in Requests : q # r => at'[q] = at[q] /\ bufferOf'[q] = bufferOf[q]
  BY <1>1 DEF Typed, Stages
<1>7. /\ out'[b] = Blank /\ DOMAIN out' = Requests \cup Buffers
      /\ \A s \in Requests \cup Buffers : s # b => out'[s] = out[s]
  BY <1>1, <1>2 DEF Typed
<1>8. Local(r)
  <2>1. \A q \in Requests : q # r /\ bufferOf[q] # None => bufferOf[q] \in Buffers /\ bufferOf[q] # b
    BY <1>1, <1>4 DEF Typed
  <2> QED
    BY <1>1, <1>3, <1>6, <1>7, <2>1 DEF Local, given
<1>9. Typed'
  BY <1>1, <1>5, <1>6, <1>7 DEF Typed
<1>10. ReadersKept' /\ WritersKept'
  <2>1. /\ \A p \in Readers : idle'[p] = idle[p]
        /\ \A p \in Writers : idle'[p] = idle[p]
    BY <1>3, <1>5, KindsApart
  <2>2. \A q \in Requests : writerOf[q] # None => Sink(q)' = Sink(q)
    BY <1>1, <1>6 DEF Sink
  <2> QED
    BY <1>1, <2>1, <2>2, ReadersLeft, WritersLeft
<1>11. BuffersKept'
  <2>1. None \notin Buffers /\ \A p \in Buffers : p # b => idle'[p] = idle[p]
    BY <1>5, KindsApart
  <2>2. Sole(bufferOf', Buffers, idle')
    BY <1>1, <1>3, <1>4, <1>5, <1>6, <2>1 DEF BuffersKept, Sole
  <2>3. \A c \in Buffers : (\A q \in Requests : bufferOf'[q] # c) => out'[c] = Blank
    BY <1>1, <1>2, <1>6, <1>7 DEF BuffersKept
  <2> QED
    BY <2>2, <2>3 DEF BuffersKept
<1>12. Holding(r)'
  BY <1>1, <1>6 DEF Holding
<1>13. Written(r)'
  <2>1. Answered(r, Whole(r))' = Answered(r, Whole(r)) /\ Whole(r)' = Whole(r)
        /\ (Unwinding(r)' <=> Unwinding(r))
    BY <1>1 DEF Answered, Encoding, Compressed, Whole, Unwinding
  <2>2. out'[r] = out[r]
    BY <1>3, <1>7
  <2> QED
    BY <1>1, <1>6, <2>1, <2>2 DEF Written
<1> QED
  BY <1>8, <1>9, <1>10, <1>11, <1>12, <1>13, Together

-----------------------------------------------------------------------------
(* The theorems. *)

LEMMA Initially == ChainInit => IInv
<1> SUFFICES ASSUME ChainInit PROVE IInv
  OBVIOUS
<1>1. \A r \in Requests :
         /\ at[r] = "new" /\ input[r] = None /\ outcome[r] = NoOutcome
         /\ readerOf[r] = None /\ writerOf[r] = None /\ bufferOf[r] = None
         /\ out[r] = Blank /\ digest[r] = None
  BY DEF ChainInit
<1>2. Typed
  <2>1. NoOutcome \in Decided /\ "new" \in Stages
    BY DEF Decided, Stages
  <2> QED
    BY <2>1 DEF ChainInit, Typed
<1>3. ReadersKept /\ WritersKept /\ BuffersKept
  BY <1>1, KindsApart DEF ChainInit, ReadersKept, WritersKept, BuffersKept, Sole
<1>4. ASSUME NEW r \in Requests PROVE Holding(r) /\ Written(r)
  BY <1>1, <1>4 DEF Holding, Written
<1> QED
  BY <1>2, <1>3, <1>4 DEF IInv

\* Nothing changes between two steps of the chain.
LEMMA Stutters == IInv /\ UNCHANGED chainVars => IInv'
<1> SUFFICES ASSUME IInv, UNCHANGED chainVars PROVE IInv'
  OBVIOUS
<1>1. /\ UNCHANGED <<call, signing, at, input, outcome, readerOf, writerOf, bufferOf, idle>>
      /\ UNCHANGED <<source, target, pending, out, digest, logged>>
  BY DEF chainVars, given, held, contents, responses
<1>2. Typed' /\ ReadersKept' /\ WritersKept' /\ BuffersKept'
  <2>1. \A q \in Requests : Sink(q)' = Sink(q)
    BY <1>1 DEF Sink
  <2> QED
    BY <1>1, <2>1 DEF IInv, Typed, ReadersKept, WritersKept, BuffersKept, Sole
<1>3. ASSUME NEW r \in Requests PROVE Holding(r)' /\ Written(r)'
  <2>1. Holding(r) /\ Written(r)
    BY <1>3 DEF IInv
  <2>2. Holding(r)'
    BY <1>1, <2>1 DEF Holding
  <2>3. /\ \A body : Answered(r, body)' = Answered(r, body)
        /\ Whole(r)' = Whole(r) /\ Sink(r)' = Sink(r)
        /\ (Unwinding(r)' <=> Unwinding(r)) /\ (Compressed(r)' <=> Compressed(r))
    BY <1>1 DEF Answered, Encoding, Compressed, Whole, Sink, Unwinding
  <2>4. Written(r)'
    BY <1>1, <2>1, <2>3 DEF Written
  <2> QED
    BY <2>2, <2>4
<1> QED
  BY <1>2, <1>3 DEF IInv

LEMMA EveryStepKeeps == IInv /\ [ChainNext]_chainVars => IInv'
<1> SUFFICES ASSUME IInv, [ChainNext]_chainVars PROVE IInv'
  OBVIOUS
<1>1. CASE UNCHANGED chainVars
  BY <1>1, Stutters
<1>2. ASSUME NEW r \in Requests, Receive(r) \/ MiddlewareStep(r) \/ HandlerStep(r) PROVE IInv'
  <2>1. CASE Receive(r)
    BY <1>2, <2>1, ReceiveKeeps
  <2>2. CASE HandlerStep(r)
    BY <1>2, <2>2, DecodeKeeps, PanicKeeps, RespondKeeps DEF HandlerStep
  <2>3. CASE MiddlewareStep(r)
    <3>1. CASE Verify(r) \/ Inflate(r)
      BY <1>2, <3>1, VerifyKeeps, InflateKeeps
    <3>2. CASE Write(r) \/ CloseWriter(r) \/ PutWriter(r) \/ CloseBody(r)
      BY <1>2, <3>2, WriteKeeps, CloseWriterKeeps, PutWriterKeeps, CloseBodyKeeps
    <3>3. CASE Sign(r) \/ Send(r) \/ PutBuffer(r)
      BY <1>2, <3>3, SignKeeps, SendKeeps, PutBufferKeeps
    <3>4. CASE Log(r) \/ \E status \in {500, 504} : Recover(r, status)
      BY <1>2, <3>4, LogKeeps, RecoverKeeps
    <3> QED
      BY <2>3, <3>1, <3>2, <3>3, <3>4 DEF MiddlewareStep
  <2> QED
    BY <1>2, <2>1, <2>2, <2>3
<1> QED
  BY <1>1, <1>2 DEF ChainNext

LEMMA IInvHolds == ChainSpec => []IInv
BY Initially, EveryStepKeeps, PTL DEF ChainSpec

\* Every variable of the chain keeps its type: an object is in its pool at most
\* once, and what a compressor or a decompressor points at is a sink or a body.
THEOREM ChainTyped == ChainSpec => []ChainTypeOK
<1>1. ASSUME NEW o \in Decided PROVE o.status \in {0, 200, 400, 404, 413, 500, 504}
  <2>1. /\ NoOutcome.status = 0 /\ PanicOutcome.status = 500
        /\ Rejection(400).status = 400 /\ Rejection(413).status = 413
    <3>1. NoOutcome.status = 0 /\ PanicOutcome.status = 500
      BY DEF NoOutcome, PanicOutcome
    <3>2. \A status : Rejection(status).status = status
      BY DEF Rejection
    <3> QED
      BY <3>1, <3>2
  <2>2. \A p \in Outcomes : p.status \in {200, 400, 404, 500, 504}
    BY OutcomesTyped
  <2>3. o \in Outcomes \/ o = NoOutcome \/ o = PanicOutcome \/ o = Rejection(400) \/ o = Rejection(413)
    BY <1>1 DEF Decided
  <2>4. CASE o \in Outcomes
    BY <2>2, <2>4
  <2>5. CASE o = NoOutcome \/ o = PanicOutcome
    BY <2>1, <2>5
  <2>6. CASE o = Rejection(400) \/ o = Rejection(413)
    BY <2>1, <2>6
  <2> QED
    BY <2>3, <2>4, <2>5, <2>6
<1>2. IInv => ChainTypeOK
  BY <1>1 DEF IInv, Typed, ChainTypeOK
<1> QED
  BY <1>2, IInvHolds, PTL

\* What the handler of a request reads is the body of that request, however the
\* decompressors are passed on (gzip.go, GzipRequestMiddleware).
THEOREM ReadsItsOwnBody == ChainSpec => []OwnInput
<1>1. IInv => OwnInput
  BY DEF IInv, Holding, OwnInput
<1> QED
  BY <1>1, IInvHolds, PTL

\* A request that is over holds no pooled object, whichever way it took
\* (gzip.go and hash.go, the deferred calls).
THEOREM GivesEverythingBack == ChainSpec => []NothingKept
<1>1. IInv => NothingKept
  BY DEF IInv, Holding, NothingKept
<1> QED
  BY <1>1, IInvHolds, PTL

\* An answer arrives as it was decided: its status, its body whole and its own,
\* its encoding, its signature and its line in the log (hash.go, gzip.go).
THEOREM AnswersArrive == ChainSpec => []AnswersIntact
<1>1. ASSUME IInv, NEW r \in Requests, at[r] = "done", ~Unwinding(r)
      PROVE  /\ out[r].status = outcome[r].status
             /\ out[r].body = Whole(r)
             /\ out[r].encoding = (IF Compressed(r) THEN "gzip" ELSE "identity")
             /\ digest[r] = (IF signing THEN out[r].body ELSE None)
             /\ logged[r] = out[r].status
  <2>1. /\ out[r] = Response(outcome[r].status, Sent, Encoding(r), Whole(r))
        /\ digest[r] = (IF signing THEN Whole(r) ELSE None)
        /\ logged[r] = outcome[r].status
    BY <1>1 DEF IInv, Written, Answered
  <2>2. /\ out[r].status = outcome[r].status
        /\ out[r].encoding = Encoding(r) /\ out[r].body = Whole(r)
    BY <2>1, Fields
  <2> QED
    BY <2>1, <2>2 DEF Encoding
<1>2. IInv => AnswersIntact
  BY <1>1 DEF AnswersIntact
<1> QED
  BY <1>2, IInvHolds, PTL

-----------------------------------------------------------------------------
(* The pools keep what internal/pool promises. *)

\* What a step does to the decompressors.
LEMMA ReaderSteps ==
    ASSUME IInv, NEW r \in Requests, Receive(r) \/ MiddlewareStep(r) \/ HandlerStep(r)
    PROVE  \/ UNCHANGED <<readerOf, source>>
           \/ \E z \in Readers :
                 /\ source[z] = None /\ \A q \in Requests : readerOf[q] # z
                 /\ readerOf[r] = None /\ readerOf' = [readerOf EXCEPT ![r] = z]
                 /\ source' = [source EXCEPT ![z] = r]
           \/ \E z \in Readers :
                 /\ source[z] = None /\ source' = [source EXCEPT ![z] = None]
                 /\ UNCHANGED readerOf
           \/ \E z \in Readers :
                 /\ readerOf[r] = z /\ readerOf' = [readerOf EXCEPT ![r] = None]
                 /\ source' = [source EXCEPT ![z] = None]
<1>1. CASE Inflate(r)
  <2>1. CASE call[r].encoding = "identity"
    BY <1>1, <2>1 DEF Inflate
  <2>2. CASE call[r].encoding # "identity"
    <3>1. PICK z \in Readers : GetGzipReader(r, z)
      BY <1>1, <2>2 DEF Inflate
    <3>2. source[z] = None /\ \A q \in Requests : readerOf[q] # z
      BY <3>1, AvailableIsFree DEF GetGzipReader, IInv, ReadersKept
    <3>3. readerOf[r] = None
      BY <1>1 DEF Inflate, IInv, Holding
    <3> QED
      BY <3>1, <3>2, <3>3 DEF GetGzipReader
  <2> QED
    BY <2>1, <2>2
<1>2. CASE CloseBody(r)
  BY <1>2 DEF CloseBody, IInv, Typed
<1>3. CASE Receive(r) \/ Verify(r) \/ Write(r) \/ CloseWriter(r) \/ PutWriter(r)
  BY <1>3 DEF Receive, Verify, Write, CloseWriter, PutWriter, held, contents
<1>4. CASE Sign(r) \/ Send(r) \/ PutBuffer(r) \/ Log(r) \/ \E status \in {500, 504} : Recover(r, status)
  BY <1>4 DEF Sign, Send, PutBuffer, Log, Recover, held, contents
<1>5. CASE HandlerStep(r)
  BY <1>5 DEF HandlerStep, Decode, Panic, Respond, held, contents
<1> QED
  BY <1>1, <1>2, <1>3, <1>4, <1>5 DEF MiddlewareStep

LEMMA ReadersRefine ==
    ASSUME IInv, [ChainNext]_chainVars
    PROVE  [ReaderPool!Next]_<<[o \in Readers |-> Holders(readerOf, o)],
                               {o \in Readers : source[o] # None}>>
<1>1. CASE UNCHANGED chainVars
  BY <1>1 DEF chainVars, held, contents, Holders
<1>2. CASE ChainNext
  <2>1. PICK r \in Requests : Receive(r) \/ MiddlewareStep(r) \/ HandlerStep(r)
    BY <1>2 DEF ChainNext
  <2>2. readerOf \in [Requests -> Readers \cup {None}] /\ source \in [Readers -> Requests \cup {None}]
    BY DEF IInv, Typed
  <2>3. CASE UNCHANGED <<readerOf, source>>
    BY <2>3 DEF Holders
  <2>4. ASSUME NEW z \in Readers,
               source[z] = None, \A q \in Requests : readerOf[q] # z, readerOf[r] = None,
               readerOf' = [readerOf EXCEPT ![r] = z], source' = [source EXCEPT ![z] = r]
        PROVE  ReaderPool!Get(r, z)
    <3>1. Holders(readerOf, z) = {} /\ Holders(readerOf', z) = {r}
      BY <2>2, <2>4 DEF Holders
    <3>2. \A o \in Readers : o # z => Holders(readerOf', o) = Holders(readerOf, o)
      BY <2>2, <2>4, KindsApart DEF Holders
    <3>3. {o \in Readers : source'[o] # None} = {o \in Readers : source[o] # None} \cup {z}
      BY <2>2, <2>4, KindsApart
    <3> QED
      BY <2>4, <3>1, <3>2, <3>3 DEF ReaderPool!Get
  <2>5. ASSUME NEW z \in Readers, source[z] = None, source' = [source EXCEPT ![z] = None],
               UNCHANGED readerOf
        PROVE  UNCHANGED <<readerOf, source>>
    BY <2>2, <2>5
  <2>6. ASSUME NEW z \in Readers, readerOf[r] = z, readerOf' = [readerOf EXCEPT ![r] = None],
               source' = [source EXCEPT ![z] = None]
        PROVE  ReaderPool!Put(r, z)
    <3>1. Holders(readerOf, z) = {r} /\ Holders(readerOf', z) = {}
      BY <2>2, <2>6, KindsApart DEF Holders, IInv, ReadersKept, Sole
    <3>2. \A o \in Readers : o # z => Holders(readerOf', o) = Holders(readerOf, o)
      BY <2>2, <2>6, KindsApart DEF Holders
    <3>3. {o \in Readers : source'[o] # None} = {o \in Readers : source[o] # None} \ {z}
      BY <2>2, <2>6
    <3> QED
      BY <3>1, <3>2, <3>3 DEF ReaderPool!Put
  <2>7. UNCHANGED <<readerOf, source>> \/ \E z \in Readers : ReaderPool!Get(r, z) \/ ReaderPool!Put(r, z)
    BY <2>1, <2>4, <2>5, <2>6, ReaderSteps
  <2> QED
    BY <2>3, <2>7 DEF ReaderPool!Next
<1> QED
  BY <1>1, <1>2

\* What a step does to the compressors.
LEMMA WriterSteps ==
    ASSUME IInv, NEW r \in Requests, Receive(r) \/ MiddlewareStep(r) \/ HandlerStep(r)
    PROVE  \/ UNCHANGED <<writerOf, target, pending>>
           \/ \E z \in Writers :
                 /\ target[z] = None /\ pending[z] = None /\ \A q \in Requests : writerOf[q] # z
                 /\ writerOf[r] = None /\ writerOf' = [writerOf EXCEPT ![r] = z]
                 /\ target' = [target EXCEPT ![z] = Sink(r)]
                 /\ pending' = [pending EXCEPT ![z] = r] /\ Sink(r) # None
           \/ \E z \in Writers :
                 /\ writerOf[r] = z /\ pending' = [pending EXCEPT ![z] = None]
                 /\ UNCHANGED <<writerOf, target>>
           \/ \E z \in Writers :
                 /\ writerOf[r] = z /\ writerOf' = [writerOf EXCEPT ![r] = None]
                 /\ target' = [target EXCEPT ![z] = None]
                 /\ pending' = [pending EXCEPT ![z] = None]
<1>1. CASE Write(r)
  <2>1. CASE ~Compressed(r)
    BY <1>1, <2>1 DEF Write
  <2>2. CASE Compressed(r)
    <3>1. PICK z \in Writers :
             /\ Available(z, writerOf)
             /\ writerOf' = [writerOf EXCEPT ![r] = z]
             /\ target' = [target EXCEPT ![z] = Sink(r)]
             /\ pending' = [pending EXCEPT ![z] = r]
      BY <1>1, <2>2 DEF Write
    <3>2. target[z] = None /\ pending[z] = None /\ \A q \in Requests : writerOf[q] # z
      BY <3>1, AvailableIsFree DEF IInv, WritersKept
    <3>3. writerOf[r] = None /\ Sink(r) # None
      BY <1>1, SinkIsMine DEF Write, IInv, Holding
    <3> QED
      BY <3>1, <3>2, <3>3
  <2> QED
    BY <2>1, <2>2
<1>2. CASE CloseWriter(r) \/ PutWriter(r)
  <2>1. writerOf[r] \in Writers
    BY <1>2 DEF CloseWriter, PutWriter, IInv, Holding, Typed
  <2> QED
    BY <1>2, <2>1 DEF CloseWriter, PutWriter, held
<1>3. CASE Receive(r) \/ Verify(r) \/ Inflate(r) \/ CloseBody(r)
  BY <1>3 DEF Receive, Verify, Inflate, CloseBody, held, contents
<1>4. CASE Sign(r) \/ Send(r) \/ PutBuffer(r) \/ Log(r) \/ \E status \in {500, 504} : Recover(r, status)
  BY <1>4 DEF Sign, Send, PutBuffer, Log, Recover, held, contents
<1>5. CASE HandlerStep(r)
  BY <1>5 DEF HandlerStep, Decode, Panic, Respond, held, contents
<1> QED
  BY <1>1, <1>2, <1>3, <1>4, <1>5 DEF MiddlewareStep

LEMMA WritersRefine ==
    ASSUME IInv, [ChainNext]_chainVars
    PROVE  [WriterPool!Next]_<<[o \in Writers |-> Holders(writerOf, o)],
                               {o \in Writers : target[o] # None \/ pending[o] # None}>>
<1> DEFINE dirty == {o \in Writers : target[o] # None \/ pending[o] # None}
<1>1. CASE UNCHANGED chainVars
  BY <1>1 DEF chainVars, held, contents, Holders
<1>2. CASE ChainNext
  <2>1. PICK r \in Requests : Receive(r) \/ MiddlewareStep(r) \/ HandlerStep(r)
    BY <1>2 DEF ChainNext
  <2>2. /\ writerOf \in [Requests -> Writers \cup {None}] /\ pending \in [Writers -> Requests \cup {None}]
        /\ target \in [Writers -> Requests \cup Buffers \cup {None}]
    BY DEF IInv, Typed
  <2>3. CASE UNCHANGED <<writerOf, target, pending>>
    BY <2>3 DEF Holders
  <2>4. ASSUME NEW z \in Writers,
               target[z] = None, pending[z] = None, \A q \in Requests : writerOf[q] # z,
               writerOf[r] = None, writerOf' = [writerOf EXCEPT ![r] = z],
               target' = [target EXCEPT ![z] = Sink(r)],
               pending' = [pending EXCEPT ![z] = r], Sink(r) # None
        PROVE  WriterPool!Get(r, z)
    <3>1. Holders(writerOf, z) = {} /\ Holders(writerOf', z) = {r}
      BY <2>2, <2>4 DEF Holders
    <3>2. \A o \in Writers : o # z => Holders(writerOf', o) = Holders(writerOf, o)
      BY <2>2, <2>4, KindsApart DEF Holders
    <3>3. dirty' = dirty \cup {z}
      BY <2>2, <2>4, KindsApart
    <3> QED
      BY <2>4, <3>1, <3>2, <3>3 DEF WriterPool!Get
  <2>5. ASSUME NEW z \in Writers, writerOf[r] = z, pending' = [pending EXCEPT ![z] = None],
               UNCHANGED <<writerOf, target>>
        PROVE  WriterPool!Use(r, z)
    <3>1. Holders(writerOf, z) = {r}
      BY <2>2, <2>5, KindsApart DEF Holders, IInv, WritersKept, Sole
    <3>2. UNCHANGED [o \in Writers |-> Holders(writerOf, o)]
      BY <2>5 DEF Holders
    <3>3. dirty' \in {dirty \cup {z}, dirty \ {z}}
      <4>1. \A o \in Writers : o # z => (o \in dirty' <=> o \in dirty)
        BY <2>2, <2>5
      <4>2. CASE z \in dirty'
        BY <4>1, <4>2
      <4>3. CASE z \notin dirty'
        BY <4>1, <4>3
      <4> QED
        BY <4>2, <4>3
    <3> QED
      BY <3>1, <3>2, <3>3 DEF WriterPool!Use
  <2>6. ASSUME NEW z \in Writers, writerOf[r] = z, writerOf' = [writerOf EXCEPT ![r] = None],
               target' = [target EXCEPT ![z] = None], pending' = [pending EXCEPT ![z] = None]
        PROVE  WriterPool!Put(r, z)
    <3>1. Holders(writerOf, z) = {r} /\ Holders(writerOf', z) = {}
      BY <2>2, <2>6, KindsApart DEF Holders, IInv, WritersKept, Sole
    <3>2. \A o \in Writers : o # z => Holders(writerOf', o) = Holders(writerOf, o)
      BY <2>2, <2>6, KindsApart DEF Holders
    <3>3. dirty' = dirty \ {z}
      BY <2>2, <2>6
    <3> QED
      BY <3>1, <3>2, <3>3 DEF WriterPool!Put
  <2>7. \/ UNCHANGED <<writerOf, target, pending>>
        \/ \E z \in Writers : WriterPool!Get(r, z) \/ WriterPool!Use(r, z) \/ WriterPool!Put(r, z)
    BY <2>1, <2>4, <2>5, <2>6, WriterSteps
  <2> QED
    BY <2>3, <2>7 DEF WriterPool!Next
<1> QED
  BY <1>1, <1>2

\* What a step does to the buffers.
LEMMA BufferSteps ==
    ASSUME IInv, NEW r \in Requests, Receive(r) \/ MiddlewareStep(r) \/ HandlerStep(r)
    PROVE  \/ /\ UNCHANGED bufferOf
              /\ \A b \in Buffers : b # bufferOf[r] => out'[b] = out[b]
           \/ \E b \in Buffers :
                 /\ \A q \in Requests : bufferOf[q] # b
                 /\ bufferOf[r] = None /\ bufferOf' = [bufferOf EXCEPT ![r] = b]
                 /\ out[b] = Blank /\ \A c \in Buffers : c # b => out'[c] = out[c]
           \/ \E b \in Buffers :
                 /\ bufferOf[r] = b /\ bufferOf' = [bufferOf EXCEPT ![r] = None]
                 /\ out' = [out EXCEPT ![b] = Blank]
<1>1. CASE Receive(r)
  <2>1. CASE signing
    <3>1. PICK b \in Buffers :
             /\ Available(b, bufferOf)
             /\ bufferOf' = [bufferOf EXCEPT ![r] = b]
             /\ out' = [out EXCEPT ![b] = WithDefault(IF idle[b] > 0 THEN @ ELSE Blank)]
      BY <1>1, <2>1 DEF Receive
    <3>2. out[b] = Blank /\ \A q \in Requests : bufferOf[q] # b
      BY <3>1, AvailableIsFree DEF IInv, BuffersKept
    <3>3. bufferOf[r] = None
      BY <1>1 DEF Receive, IInv, Holding
    <3>4. \A c \in Buffers : c # b => out'[c] = out[c]
      BY <3>1 DEF IInv, Typed
    <3> QED
      BY <3>1, <3>2, <3>3, <3>4
  <2>2. CASE ~signing
    BY <1>1, <2>2 DEF Receive
  <2> QED
    BY <2>1, <2>2
<1>2. CASE PutBuffer(r)
  <2>1. bufferOf[r] \in Buffers
    BY <1>2 DEF PutBuffer, IInv, Holding, Typed
  <2> QED
    BY <1>2, <2>1 DEF PutBuffer
<1>3. ASSUME at[r] \notin {"new", "recover", "log", "done"}, UNCHANGED bufferOf,
             NEW x, out' = [out EXCEPT ![Sink(r)] = x]
      PROVE  \A b \in Buffers : b # bufferOf[r] => out'[b] = out[b]
  BY <1>3, SinkIsMine DEF IInv, Typed
<1>4. CASE Verify(r) \/ Inflate(r)
  <2>1. UNCHANGED bufferOf /\ at[r] \notin {"new", "recover", "log", "done"}
    BY <1>4 DEF Verify, Inflate, held
  <2>2. UNCHANGED out \/ \E x : out' = [out EXCEPT ![Sink(r)] = x]
    BY <1>4 DEF Verify, Inflate, Reject
  <2> QED
    BY <1>3, <2>1, <2>2
<1>5. CASE Write(r) \/ CloseWriter(r) \/ \E o \in Outcomes : Respond(r, o)
  <2>1. UNCHANGED bufferOf /\ at[r] \notin {"new", "recover", "log", "done"}
    BY <1>5 DEF Write, CloseWriter, Respond, held
  <2>2. CloseWriter(r) => writerOf[r] # None /\ target[writerOf[r]] = Sink(r)
    BY DEF CloseWriter, IInv, Holding, WritersKept
  <2>3. UNCHANGED out \/ \E x : out' = [out EXCEPT ![Sink(r)] = x]
    BY <1>5, <2>2 DEF Write, CloseWriter, Respond
  <2> QED
    BY <1>3, <2>1, <2>3
<1>6. CASE Sign(r) \/ Send(r) \/ \E status \in {500, 504} : Recover(r, status)
  <2>1. UNCHANGED bufferOf /\ \E x : out' = [out EXCEPT ![r] = x]
    BY <1>6 DEF Sign, Send, Recover, held
  <2>2. \A b \in Buffers : b # r
    BY KindsApart
  <2> QED
    BY <2>1, <2>2 DEF IInv, Typed
<1>7. CASE PutWriter(r) \/ CloseBody(r) \/ Log(r) \/ Decode(r) \/ Panic(r)
  BY <1>7 DEF PutWriter, CloseBody, Log, Decode, Panic, held, responses
<1> QED
  BY <1>1, <1>2, <1>4, <1>5, <1>6, <1>7 DEF MiddlewareStep, HandlerStep

LEMMA BuffersRefine ==
    ASSUME IInv, [ChainNext]_chainVars
    PROVE  [BufferPool!Next]_<<[o \in Buffers |-> Holders(bufferOf, o)],
                               {o \in Buffers : out[o] # Blank}>>
<1> DEFINE dirty == {o \in Buffers : out[o] # Blank}
<1>1. CASE UNCHANGED chainVars
  <2>1. UNCHANGED <<bufferOf, out>>
    BY <1>1 DEF chainVars, held, responses
  <2> QED
    BY <2>1 DEF Holders, Blank
<1>2. CASE ChainNext
  <2>1. PICK r \in Requests : Receive(r) \/ MiddlewareStep(r) \/ HandlerStep(r)
    BY <1>2 DEF ChainNext
  <2>2. bufferOf \in [Requests -> Buffers \cup {None}] /\ DOMAIN out = Requests \cup Buffers
    BY DEF IInv, Typed
  <2>3. Blank' = Blank
    BY DEF Blank
  <2>4. ASSUME NEW b \in Buffers, \A c \in Buffers : c # b => out'[c] = out[c]
        PROVE  dirty' \in {dirty \cup {b}, dirty \ {b}}
    <3>1. \A o \in Buffers : o # b => (o \in dirty' <=> o \in dirty)
      BY <2>3, <2>4
    <3>2. CASE b \in dirty'
      BY <3>1, <3>2
    <3>3. CASE b \notin dirty'
      BY <3>1, <3>3
    <3> QED
      BY <3>2, <3>3
  <2>5. ASSUME UNCHANGED bufferOf, \A b \in Buffers : b # bufferOf[r] => out'[b] = out[b]
        PROVE  \/ UNCHANGED <<[o \in Buffers |-> Holders(bufferOf, o)], dirty>>
               \/ \E b \in Buffers : BufferPool!Use(r, b)
    <3>1. UNCHANGED [o \in Buffers |-> Holders(bufferOf, o)]
      BY <2>5 DEF Holders
    <3>2. CASE bufferOf[r] \notin Buffers
      <4>1. dirty' = dirty
        BY <2>3, <2>5, <3>2
      <4> QED
        BY <3>1, <4>1
    <3>3. CASE bufferOf[r] \in Buffers
      <4>1. PICK b \in Buffers : b = bufferOf[r]
        BY <3>3
      <4>2. Holders(bufferOf, b) = {r}
        BY <2>2, <4>1 DEF Holders, IInv, BuffersKept, Sole
      <4>3. dirty' \in {dirty \cup {b}, dirty \ {b}}
        BY <2>4, <2>5, <4>1
      <4>4. BufferPool!Use(r, b)
        BY <3>1, <4>2, <4>3 DEF BufferPool!Use
      <4> QED
        BY <4>4
    <3> QED
      BY <3>2, <3>3
  <2>6. ASSUME NEW b \in Buffers, \A q \in Requests : bufferOf[q] # b,
               bufferOf[r] = None, bufferOf' = [bufferOf EXCEPT ![r] = b],
               out[b] = Blank, \A c \in Buffers : c # b => out'[c] = out[c]
        PROVE  BufferPool!Get(r, b)
    <3>1. Holders(bufferOf, b) = {} /\ Holders(bufferOf', b) = {r}
      BY <2>2, <2>6 DEF Holders
    <3>2. \A o \in Buffers : o # b => Holders(bufferOf', o) = Holders(bufferOf, o)
      BY <2>2, <2>6, KindsApart DEF Holders
    <3>3. b \notin dirty /\ dirty' \in {dirty, dirty \cup {b}}
      BY <2>4, <2>6
    <3> QED
      BY <3>1, <3>2, <3>3 DEF BufferPool!Get
  <2>7. ASSUME NEW b \in Buffers, bufferOf[r] = b, bufferOf' = [bufferOf EXCEPT ![r] = None],
               out' = [out EXCEPT ![b] = Blank]
        PROVE  BufferPool!Put(r, b)
    <3>1. Holders(bufferOf, b) = {r} /\ Holders(bufferOf', b) = {}
      BY <2>2, <2>7, KindsApart DEF Holders, IInv, BuffersKept, Sole
    <3>2. \A o \in Buffers : o # b => Holders(bufferOf', o) = Holders(bufferOf, o)
      BY <2>2, <2>7, KindsApart DEF Holders
    <3>3. dirty' = dirty \ {b}
      BY <2>2, <2>3, <2>7
    <3> QED
      BY <3>1, <3>2, <3>3 DEF BufferPool!Put
  <2>8. \/ UNCHANGED <<[o \in Buffers |-> Holders(bufferOf, o)], dirty>>
        \/ \E b \in Buffers : BufferPool!Get(r, b) \/ BufferPool!Use(r, b) \/ BufferPool!Put(r, b)
    <3>1. CASE UNCHANGED bufferOf /\ \A b \in Buffers : b # bufferOf[r] => out'[b] = out[b]
      BY <2>5, <3>1
    <3>2. CASE \E b \in Buffers :
             /\ \A q \in Requests : bufferOf[q] # b
             /\ bufferOf[r] = None /\ bufferOf' = [bufferOf EXCEPT ![r] = b]
             /\ out[b] = Blank /\ \A c \in Buffers : c # b => out'[c] = out[c]
      BY <2>6, <3>2
    <3>3. CASE \E b \in Buffers :
             /\ bufferOf[r] = b /\ bufferOf' = [bufferOf EXCEPT ![r] = None]
             /\ out' = [out EXCEPT ![b] = Blank]
      BY <2>7, <3>3
    <3> QED
      BY <2>1, <3>1, <3>2, <3>3, BufferSteps
  <2> QED
    BY <2>8 DEF BufferPool!Next
<1> QED
  BY <1>1, <1>2

\* Each of the three pools keeps what internal/pool promises: an object belongs
\* to one request at a time, only that request changes it, and it is in its
\* initial state when it is handed out again.
THEOREM PoolsKeepTheirPromise == ChainSpec => PoolsKept
<1>1. ChainInit => ReaderPool!Init /\ WriterPool!Init /\ BufferPool!Init
  <2> SUFFICES ASSUME ChainInit PROVE ReaderPool!Init /\ WriterPool!Init /\ BufferPool!Init
    OBVIOUS
  <2>1. /\ \A r \in Requests : readerOf[r] = None /\ writerOf[r] = None /\ bufferOf[r] = None
        /\ \A o \in Readers : source[o] = None
        /\ \A o \in Writers : target[o] = None /\ pending[o] = None
        /\ \A o \in Buffers : out[o] = Blank
    BY DEF ChainInit
  <2>2. /\ \A o \in Readers : Holders(readerOf, o) = {}
        /\ \A o \in Writers : Holders(writerOf, o) = {}
        /\ \A o \in Buffers : Holders(bufferOf, o) = {}
    BY <2>1, KindsApart DEF Holders
  <2>3. ReaderPool!Init
    BY <2>1, <2>2 DEF ReaderPool!Init
  <2>4. WriterPool!Init
    BY <2>1, <2>2 DEF WriterPool!Init
  <2>5. BufferPool!Init
    BY <2>1, <2>2 DEF BufferPool!Init
  <2> QED
    BY <2>3, <2>4, <2>5
<1>2. IInv /\ [ChainNext]_chainVars =>
         /\ [ReaderPool!Next]_<<[o \in Readers |-> Holders(readerOf, o)],
                                {o \in Readers : source[o] # None}>>
         /\ [WriterPool!Next]_<<[o \in Writers |-> Holders(writerOf, o)],
                                {o \in Writers : target[o] # None \/ pending[o] # None}>>
         /\ [BufferPool!Next]_<<[o \in Buffers |-> Holders(bufferOf, o)],
                                {o \in Buffers : out[o] # Blank}>>
  BY ReadersRefine, WritersRefine, BuffersRefine
<1> QED
  BY <1>1, <1>2, IInvHolds, PTL
  DEF ChainSpec, PoolsKept, ReaderPool!Spec, WriterPool!Spec, BufferPool!Spec
=============================================================================
