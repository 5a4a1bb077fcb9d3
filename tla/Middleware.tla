----------------------------- MODULE Middleware -----------------------------
(***************************************************************************)
(* The way of a request through the middleware of newRouter: logging,      *)
(* signatures, decompression, compression, the handler, and back, with the *)
(* three pools the middleware takes its objects from.                      *)
(*                                                                         *)
(* A response is written to a sink: the buffer of HashMiddleware, or the   *)
(* connection when there is no key.  A body is a sequence of pieces, each  *)
(* with the request it belongs to.  A write to a connection that is broken *)
(* changes nothing but a line of the log and is not told from one that     *)
(* arrives.                                                                *)
(***************************************************************************)
EXTENDS Naturals, Sequences, RequestIds

CONSTANTS
    Calls,      \* what a request may be like: signature, size, encoding, accepts
    Outcomes,   \* what a handler may answer: status, compressible, body
    Readers,    \* objects of gzipReaderPool,
    Writers,    \* of gzipWriterPool,
    Buffers     \* and of hashResponseWriterPool

Objects == Readers \cup Writers \cup Buffers

\* What Recoverer makes of a panic: a status without a body.
PanicOutcome == [status |-> 500, compressible |-> FALSE, body |-> FALSE]

ASSUME ChainAssumption ==
    /\ \A c \in Calls : /\ c.signature \in {"none", "good", "bad"}
                        /\ c.size \in {"fits", "too large", "cut off"}
                        /\ c.encoding \in {"identity", "gzip", "broken"}
                        /\ c.accepts \in BOOLEAN
    /\ \A o \in Outcomes : /\ o.status \in {200, 400, 404, 500, 504}
                           /\ o.compressible \in BOOLEAN /\ o.body \in BOOLEAN
    /\ Requests \cap Objects = {} /\ Readers \cap Writers = {}
    /\ Buffers \cap (Readers \cup Writers) = {}
    /\ None \notin Objects
    /\ PanicOutcome \notin Outcomes

VARIABLES
    call,       \* what each request is like
    signing,    \* the server has a key
    at,         \* how far each request has come
    input,      \* history: the request whose body the handler of each read
    outcome,    \* history: what was decided for each request
    readerOf,   \* the pooled object each request holds, of each kind
    writerOf,
    bufferOf,
    idle,       \* how often each object is in its pool
    source,     \* the body a decompressor reads
    target,     \* the sink a compressor writes to,
    pending,    \* and the request whose data it still has to write
    out,        \* what was written to each buffer and connection
    digest,     \* history: the body the signature of each response is of
    logged      \* the status of each request in the log

given == <<call, signing>>
held == <<readerOf, writerOf, bufferOf, idle>>
contents == <<source, target, pending>>
responses == <<out, digest, logged>>
chainVars == <<given, at, input, outcome, held, contents, responses>>

\* Nothing written yet; the state of a buffer after its Reset.
Blank == [status |-> 0, wroteHeader |-> FALSE, encoding |-> "identity", body |-> <<>>]

NoOutcome == [status |-> 0, compressible |-> FALSE, body |-> FALSE]
Rejection(status) == [status |-> status, compressible |-> FALSE, body |-> TRUE]

ChainInit ==
    /\ call \in [Requests -> Calls]
    /\ signing \in BOOLEAN
    /\ at = [r \in Requests |-> "new"]
    /\ input = [r \in Requests |-> None]
    /\ outcome = [r \in Requests |-> NoOutcome]
    /\ readerOf = [r \in Requests |-> None]
    /\ writerOf = [r \in Requests |-> None]
    /\ bufferOf = [r \in Requests |-> None]
    /\ idle = [o \in Objects |-> 0]
    /\ source = [o \in Readers |-> None]
    /\ target = [o \in Writers |-> None]
    /\ pending = [o \in Writers |-> None]
    /\ out = [s \in Requests \cup Buffers |-> Blank]
    /\ digest = [r \in Requests |-> None]
    /\ logged = [r \in Requests |-> 0]

-----------------------------------------------------------------------------
(* The pools. *)

\* Get finds a pooled object, or makes one: an object nobody has and that is
\* not pooled stands for it.  owner says who holds the objects of this kind.
Available(o, owner) == idle[o] > 0 \/ \A r \in Requests : owner[r] # o

Taken(o) == idle' = [idle EXCEPT ![o] = IF @ > 0 THEN @ - 1 ELSE 0]

Pooled(o) == idle' = [idle EXCEPT ![o] = @ + 1]

-----------------------------------------------------------------------------
(* Writing responses. *)

Sink(r) == IF signing THEN bufferOf[r] ELSE r

\* Only the first status counts.
WithStatus(response, status) ==
    IF response.wroteHeader THEN response
    ELSE [status |-> status, wroteHeader |-> TRUE,
          encoding |-> response.encoding, body |-> response.body]

WithEncoding(response, encoding) == [response EXCEPT !.encoding = encoding]

WithBody(response, body) == [response EXCEPT !.body = body]

WithPiece(response, piece) == WithBody(response, Append(response.body, piece))

\* The pieces of a body: a plain one, and what a compressor writes at its first
\* Write and at its Close.
TextOf(r) == <<r, "text">>
HeaderOf(r) == <<r, "header">>
TrailerOf(r) == <<r, "trailer">>

\* http.Error of a middleware.
Reject(r, status) ==
    /\ outcome' = [outcome EXCEPT ![r] = Rejection(status)]
    /\ out' = [out EXCEPT ![Sink(r)] = WithPiece(WithStatus(@, status), TextOf(r))]

Outside == IF signing THEN "sign" ELSE "log"

\* The status of a buffered response until one is set.
WithDefault(response) == [response EXCEPT !.status = 200]

-----------------------------------------------------------------------------
(* The way in. *)

\* HashMiddleware takes its buffer; without a key it is not in the chain.
Receive(r) ==
    /\ at[r] = "new"
    /\ \/ /\ signing
          /\ \E b \in Buffers :
                /\ Available(b, bufferOf) /\ Taken(b)
                /\ bufferOf' = [bufferOf EXCEPT ![r] = b]
                /\ out' = [out EXCEPT ![b] = WithDefault(IF idle[b] > 0 THEN @ ELSE Blank)]
          /\ at' = [at EXCEPT ![r] = "verify"]
       \/ /\ ~signing
          /\ at' = [at EXCEPT ![r] = "inflate"]
          /\ UNCHANGED <<bufferOf, idle, out>>
    /\ UNCHANGED <<given, input, outcome, readerOf, writerOf, contents, digest, logged>>

\* The status a signed request is turned away with, or 0.
Verdict(c) ==
    IF c.signature = "none" THEN 0
    ELSE IF c.size = "too large" THEN 413
    ELSE IF c.size = "cut off" \/ c.signature = "bad" THEN 400
    ELSE 0

\* Variant: after a rejection the next handler is called all the same.
VerifyFallsThrough(r) ==
    /\ at[r] = "verify"
    /\ IF Verdict(call[r]) = 0 THEN UNCHANGED <<outcome, out>> ELSE Reject(r, Verdict(call[r]))
    /\ at' = [at EXCEPT ![r] = "inflate"]
    /\ UNCHANGED <<given, input, held, contents, digest, logged>>

\* The whole body is read and compared with its signature, if it has one.
Verify(r) ==
    /\ at[r] = "verify"
    /\ IF Verdict(call[r]) = 0
         THEN /\ at' = [at EXCEPT ![r] = "inflate"]
              /\ UNCHANGED <<outcome, out>>
         ELSE /\ Reject(r, Verdict(call[r]))
              /\ at' = [at EXCEPT ![r] = Outside]
    /\ UNCHANGED <<given, input, held, contents, digest, logged>>

\* Variant: the body is closed before the handler is called, not after it.
InflateUndeferred(r) ==
    /\ at[r] = "inflate" /\ call[r].encoding # "broken"
    /\ at' = [at EXCEPT ![r] = "handle"]
    /\ IF call[r].encoding = "identity" THEN UNCHANGED <<readerOf, idle, source>>
       ELSE \E z \in Readers :
               /\ Available(z, readerOf)
               /\ idle' = [idle EXCEPT ![z] = 1]
               /\ readerOf' = [readerOf EXCEPT ![r] = z]
               /\ source' = [source EXCEPT ![z] = r]
    /\ UNCHANGED <<given, input, outcome, writerOf, bufferOf, target, pending, responses>>

\* A decompressor is pointed at the body; one that finds no gzip header goes
\* back at once.
GetGzipReader(r, z) ==
    /\ Available(z, readerOf)
    /\ IF call[r].encoding = "gzip"
         THEN /\ Taken(z)
              /\ readerOf' = [readerOf EXCEPT ![r] = z]
              /\ source' = [source EXCEPT ![z] = r]
         ELSE /\ idle' = [idle EXCEPT ![z] = IF @ > 0 THEN @ ELSE 1]
              /\ source' = [source EXCEPT ![z] = None]
              /\ UNCHANGED readerOf

\* GzipRequestMiddleware.
Inflate(r) ==
    /\ at[r] = "inflate"
    /\ IF call[r].encoding = "identity"
         THEN UNCHANGED <<readerOf, idle, source>>
         ELSE \E z \in Readers : GetGzipReader(r, z)
    /\ IF call[r].encoding = "broken"
         THEN Reject(r, 400) /\ at' = [at EXCEPT ![r] = Outside]
         ELSE at' = [at EXCEPT ![r] = "handle"] /\ UNCHANGED <<outcome, out>>
    /\ UNCHANGED <<given, input, writerOf, bufferOf, target, pending, digest, logged>>

-----------------------------------------------------------------------------
(* The handler. *)

\* It decodes the body, through the decompressor if there is one.
Decode(r) ==
    /\ at[r] = "handle" /\ input[r] = None
    /\ input' = [input EXCEPT ![r] = IF readerOf[r] = None THEN r ELSE source[readerOf[r]]]
    /\ UNCHANGED <<given, at, outcome, held, contents, responses>>

Compressed(r) == call[r].accepts /\ outcome[r].compressible

\* WriteHeader, of the compressing writer if the client accepts gzip.
Respond(r, o) ==
    /\ at[r] = "handle"
    /\ outcome' = [outcome EXCEPT ![r] = o]
    /\ out' = [out EXCEPT ![Sink(r)] =
           WithEncoding(WithStatus(@, o.status),
                        IF call[r].accepts /\ o.compressible THEN "gzip" ELSE @.encoding)]
    /\ at' = [at EXCEPT ![r] = IF o.body THEN "write" ELSE "close"]
    /\ UNCHANGED <<given, input, held, contents, digest, logged>>

\* Variant: the calls on the way out are not deferred.
PanicUndeferred(r) ==
    /\ at[r] = "handle"
    /\ outcome' = [outcome EXCEPT ![r] = PanicOutcome]
    /\ at' = [at EXCEPT ![r] = "recover"]
    /\ UNCHANGED <<given, input, held, contents, responses>>

\* The handler panics before it has written anything.
Panic(r) ==
    /\ at[r] = "handle"
    /\ outcome' = [outcome EXCEPT ![r] = PanicOutcome]
    /\ at' = [at EXCEPT ![r] = "close"]
    /\ UNCHANGED <<given, input, held, contents, responses>>

\* The body of a response is one Write, which takes the compressor.
Write(r) ==
    /\ at[r] = "write"
    /\ \/ /\ Compressed(r)
          /\ \E z \in Writers :
                /\ Available(z, writerOf) /\ Taken(z)
                /\ writerOf' = [writerOf EXCEPT ![r] = z]
                /\ target' = [target EXCEPT ![z] = Sink(r)]
                /\ pending' = [pending EXCEPT ![z] = r]
          /\ out' = [out EXCEPT ![Sink(r)] = WithPiece(@, HeaderOf(r))]
          /\ at' = [at EXCEPT ![r] = "flush"]
       \/ /\ ~Compressed(r)
          /\ out' = [out EXCEPT ![Sink(r)] = WithPiece(@, TextOf(r))]
          /\ at' = [at EXCEPT ![r] = "close"]
          /\ UNCHANGED <<writerOf, idle, target, pending>>
    /\ UNCHANGED <<given, input, outcome, readerOf, bufferOf, source, digest, logged>>

-----------------------------------------------------------------------------
(* The way out: the deferred calls, which a panic makes as well. *)

\* Variant: the compressor is reset instead of closed.
CloseWriterResetting(r) ==
    /\ at[r] = "flush"
    /\ pending' = [pending EXCEPT ![writerOf[r]] = None]
    /\ at' = [at EXCEPT ![r] = "putWriter"]
    /\ UNCHANGED <<given, input, outcome, held, source, target, responses>>

\* The compressor writes what it has left to wherever it points.
CloseWriter(r) ==
    /\ at[r] = "flush"
    /\ LET z == writerOf[r]
       IN  /\ out' = IF target[z] = None \/ pending[z] = None THEN out
                     ELSE [out EXCEPT ![target[z]] = WithPiece(@, TrailerOf(pending[z]))]
           /\ pending' = [pending EXCEPT ![z] = None]
    /\ at' = [at EXCEPT ![r] = "putWriter"]
    /\ UNCHANGED <<given, input, outcome, held, source, target, digest, logged>>

\* Reset points it at io.Discard.
PutWriter(r) ==
    /\ at[r] = "putWriter"
    /\ LET z == writerOf[r]
       IN  /\ target' = [target EXCEPT ![z] = None]
           /\ pending' = [pending EXCEPT ![z] = None]
           /\ Pooled(z)
    /\ writerOf' = [writerOf EXCEPT ![r] = None]
    /\ at' = [at EXCEPT ![r] = "close"]
    /\ UNCHANGED <<given, input, outcome, readerOf, bufferOf, source, responses>>

Unwinding(r) == outcome[r] = PanicOutcome

\* What runs when HashMiddleware, or the chain without it, gets control back.
Beyond(r) ==
    IF ~Unwinding(r) THEN Outside ELSE IF signing THEN "putBuffer" ELSE "recover"

CloseBody(r) ==
    /\ at[r] = "close"
    /\ at' = [at EXCEPT ![r] = Beyond(r)]
    /\ LET z == readerOf[r]
       IN  IF z = None
             THEN UNCHANGED <<readerOf, idle, source>>
             ELSE /\ source' = [source EXCEPT ![z] = None]
                  /\ Pooled(z)
                  /\ readerOf' = [readerOf EXCEPT ![r] = None]
    /\ UNCHANGED <<given, input, outcome, writerOf, bufferOf, target, pending, responses>>

\* The headers are copied, the digest of the buffered body is one of them, and
\* the status line goes out.
Sign(r) ==
    /\ at[r] = "sign"
    /\ LET b == out[bufferOf[r]]
       IN  /\ out' = [out EXCEPT ![r] = WithEncoding(WithStatus(@, b.status), b.encoding)]
           /\ digest' = [digest EXCEPT ![r] = b.body]
    /\ at' = [at EXCEPT ![r] = "send"]
    /\ UNCHANGED <<given, input, outcome, held, contents, logged>>

\* The body follows.
Send(r) ==
    /\ at[r] = "send"
    /\ out' = [out EXCEPT ![r] = WithBody(@, out[bufferOf[r]].body)]
    /\ at' = [at EXCEPT ![r] = "putBuffer"]
    /\ UNCHANGED <<given, input, outcome, held, contents, digest, logged>>

\* Variant: the generated Reset does not know of the field wroteHeader.
PutBufferStale(r) ==
    /\ at[r] = "putBuffer"
    /\ out' = [out EXCEPT ![bufferOf[r]] = [Blank EXCEPT !.wroteHeader = @ \/ out[bufferOf[r]].wroteHeader]]
    /\ Pooled(bufferOf[r])
    /\ bufferOf' = [bufferOf EXCEPT ![r] = None]
    /\ at' = [at EXCEPT ![r] = IF Unwinding(r) THEN "recover" ELSE "log"]
    /\ UNCHANGED <<given, input, outcome, readerOf, writerOf, contents, digest, logged>>

\* Variant: there is a Put beside the deferred one.
PutBufferTwice(r) ==
    /\ at[r] = "putBuffer"
    /\ out' = [out EXCEPT ![bufferOf[r]] = Blank]
    /\ idle' = [idle EXCEPT ![bufferOf[r]] = @ + 2]
    /\ bufferOf' = [bufferOf EXCEPT ![r] = None]
    /\ at' = [at EXCEPT ![r] = IF Unwinding(r) THEN "recover" ELSE "log"]
    /\ UNCHANGED <<given, input, outcome, readerOf, writerOf, contents, digest, logged>>

\* The buffer is reset and goes back to its pool.
PutBuffer(r) ==
    /\ at[r] = "putBuffer"
    /\ out' = [out EXCEPT ![bufferOf[r]] = Blank]
    /\ Pooled(bufferOf[r])
    /\ bufferOf' = [bufferOf EXCEPT ![r] = None]
    /\ at' = [at EXCEPT ![r] = IF Unwinding(r) THEN "recover" ELSE "log"]
    /\ UNCHANGED <<given, input, outcome, readerOf, writerOf, contents, digest, logged>>

\* loggingMiddleware; a panic passes it by.
Log(r) ==
    /\ at[r] = "log"
    /\ logged' = [logged EXCEPT ![r] = out[r].status]
    /\ at' = [at EXCEPT ![r] = "done"]
    /\ UNCHANGED <<given, input, outcome, held, contents, out, digest>>

\* Timeout answers 504 if the deadline has passed, else Recoverer answers 500.
Recover(r, status) ==
    /\ at[r] = "recover"
    /\ out' = [out EXCEPT ![r] = WithStatus(@, status)]
    /\ at' = [at EXCEPT ![r] = "done"]
    /\ UNCHANGED <<given, input, outcome, held, contents, digest, logged>>

\* What the middleware does by itself once a request has come.
MiddlewareStep(r) ==
    \/ Verify(r) \/ Inflate(r)
    \/ Write(r) \/ CloseWriter(r) \/ PutWriter(r) \/ CloseBody(r)
    \/ Sign(r) \/ Send(r) \/ PutBuffer(r)
    \/ Log(r)
    \/ \E status \in {500, 504} : Recover(r, status)

HandlerStep(r) ==
    \/ Decode(r)
    \/ Panic(r)
    \/ \E o \in Outcomes : Respond(r, o)

ChainNext == \E r \in Requests : Receive(r) \/ MiddlewareStep(r) \/ HandlerStep(r)

ChainSpec == ChainInit /\ [][ChainNext]_chainVars

-----------------------------------------------------------------------------
(* Properties. *)

Stages == {"new", "verify", "inflate", "handle", "write", "flush", "putWriter", "close",
           "sign", "send", "putBuffer", "recover", "log", "done"}

ChainTypeOK ==
    /\ call \in [Requests -> Calls] /\ signing \in BOOLEAN
    /\ at \in [Requests -> Stages]
    /\ input \in [Requests -> Requests \cup {None}]
    /\ \A r \in Requests : outcome[r].status \in {0, 200, 400, 404, 413, 500, 504}
    /\ readerOf \in [Requests -> Readers \cup {None}]
    /\ writerOf \in [Requests -> Writers \cup {None}]
    /\ bufferOf \in [Requests -> Buffers \cup {None}]
    /\ idle \in [Objects -> {0, 1}]
    /\ source \in [Readers -> Requests \cup {None}]
    /\ target \in [Writers -> Requests \cup Buffers \cup {None}]
    /\ pending \in [Writers -> Requests \cup {None}]

Holders(owner, o) == {r \in Requests : owner[r] = o}

ReaderPool == INSTANCE Pool WITH
    Objects <- Readers, Users <- Requests,
    users <- [o \in Readers |-> Holders(readerOf, o)],
    dirty <- {o \in Readers : source[o] # None}

WriterPool == INSTANCE Pool WITH
    Objects <- Writers, Users <- Requests,
    users <- [o \in Writers |-> Holders(writerOf, o)],
    dirty <- {o \in Writers : target[o] # None \/ pending[o] # None}

BufferPool == INSTANCE Pool WITH
    Objects <- Buffers, Users <- Requests,
    users <- [o \in Buffers |-> Holders(bufferOf, o)],
    dirty <- {o \in Buffers : out[o] # Blank}

\* A pooled object belongs to one request at a time, is not written to by any
\* other, and is back in its initial state before another one gets it, whatever
\* way the requests take through the middleware.
PoolsKept == ReaderPool!Spec /\ WriterPool!Spec /\ BufferPool!Spec

\* What the handler of a request reads is the body of that request.
OwnInput == \A r \in Requests : input[r] \in {r, None}

\* A request that is over holds nothing: whichever way it took, a panic or a
\* rejection included, its objects are back in their pools, once.
NothingKept ==
    \A r \in Requests : at[r] = "done" =>
        readerOf[r] = None /\ writerOf[r] = None /\ bufferOf[r] = None

Whole(r) ==
    IF ~outcome[r].body THEN <<>>
    ELSE IF Compressed(r) THEN <<HeaderOf(r), TrailerOf(r)>> ELSE <<TextOf(r)>>

\* The answer a client gets is the one that was decided for its request: the
\* status of the handler or of the rejection, the body complete and without a
\* piece of any other response, the encoding announced exactly when the body is
\* compressed, the signature over the very bytes that are sent, and the log
\* tells the same status.
AnswersIntact ==
    \A r \in Requests : at[r] = "done" /\ ~Unwinding(r) =>
        /\ out[r].status = outcome[r].status
        /\ out[r].body = Whole(r)
        /\ out[r].encoding = IF Compressed(r) THEN "gzip" ELSE "identity"
        /\ digest[r] = IF signing THEN out[r].body ELSE None
        /\ logged[r] = out[r].status
=============================================================================
