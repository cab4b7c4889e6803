------------------------------- MODULE Delivery -------------------------------
(***************************************************************************)
(* The way of an update from a hub to the consumer: what Service::call     *)
(* makes of a request without a query (src/src/subscriber/service.rs), the *)
(* choice of a signature and its verification (src/src/signature.rs) while *)
(* the body is read (src/src/subscriber/update/content.rs), and print_all  *)
(* of the example.  The last segment of its path is that of CallbackId;    *)
(* requests with a query are those of SubscriberService.                   *)
(*                                                                         *)
(* A request is [headers, media, body].                                    *)
(*   A header X-Hub-Signature is [name, digest], name being the text       *)
(*   before its `=` (Absent without one), and a digest [method, secret,    *)
(*   over]: HMAC takes different inputs to different digests.  A digest is *)
(*   Absent if the text is not hexadecimal.                                *)
(*   The media type is Absent, or a record [type, subtype, suffix].        *)
(*   A body is [bufs, truncated, document]: buffers, each a sequence of    *)
(*   chunks; whether the connection breaks at their end; and what a reader *)
(*   of XML makes of all of it (see Feed).                                 *)
(***************************************************************************)
EXTENDS CallbackId, Feed

CONSTANTS
    Requests(_),  \* the requests that are tried for a callback of an id
    Chunk,        \* what a body is made of
    Slash         \* the character

-----------------------------------------------------------------------------
(* Signatures                                                              *)

Methods == {"sha1", "sha256", "sha384", "sha512"}

\* Faulty variant: one secret for all.
gen_secret_Shared(id8) == <<>>

\* hub::gen_secret: every subscription has a secret of its own.
gen_secret(id8) == id8

\* Signature::parse: the method is known and the text has its length.
SignatureParse(header) ==
    IF /\ header.name \in Methods
       /\ header.digest # Absent
       /\ header.digest.method = header.name
    THEN header.digest ELSE Absent

discriminant == [sha1 |-> 0, sha256 |-> 1, sha384 |-> 2, sha512 |-> 3]

\* Faulty variant: the weaker method is preferred.
is_preferable_to_Weaker(sig, other) ==
    discriminant[sig.method] <= discriminant[other.method]

is_preferable_to(sig, other) ==
    discriminant[sig.method] >= discriminant[other.method]

\* The loop over the signature headers in Service::call.
TakeSignature(headers) ==
    LET taken[k \in 0..Len(headers)] ==
            IF k = 0 THEN Absent
            ELSE LET sig == SignatureParse(headers[k])
                 IN  IF /\ sig # Absent
                        /\ taken[k - 1] # Absent => is_preferable_to(sig, taken[k - 1])
                     THEN sig ELSE taken[k - 1]
    IN  taken[Len(headers)]

\* GenericVerifier::new, with Hmac as the digest of the bytes so far.
verify_with(sig, secret) ==
    [signature |-> sig,
     mac       |-> [method |-> sig.method, secret |-> secret, over |-> <<>>]]

\* Faulty variant: the chunk at hand is taken for the whole buffer.
VerifierUpdate_FirstChunk(verifier, buf) ==
    [verifier EXCEPT !.mac.over = @ \o (IF buf = <<>> THEN <<>> ELSE <<Head(buf)>>)]

\* Verifier::update, once for each chunk of a buffer.
VerifierUpdate(verifier, buf) == [verifier EXCEPT !.mac.over = @ \o buf]

\* GenericVerifier::verify_reset: the result, and the verifier after it.
Matches(verifier) == verifier.mac = verifier.signature

Reset(verifier) == [verifier EXCEPT !.mac.over = <<>>]

\* What is tried for a callback: bodies in buffers of chunks, and digests
\* with the secret that its hub was told, or with None, which is that of no
\* subscription: gen_secret draws them at random, so nobody else knows one.
ASSUME RequestsAssumption ==
    \A i \in Ids \cup {decode(t) : t \in SampleTexts} : \A r \in Requests(i) :
        /\ r.body.bufs \in Seq(Seq(Chunk))
        /\ Len(r.headers) \in Nat /\ DOMAIN r.headers = 1..Len(r.headers)
        /\ \A k \in DOMAIN r.headers :
              r.headers[k].digest \in
                  [method : Methods, secret : {gen_secret(i), None}, over : Seq(Chunk)]
                      \cup {Absent}

-----------------------------------------------------------------------------
(* Paths                                                                   *)

\* The path of the callback argument; the builder of the service makes it
\* end with a slash.
prepare_callback_prefix(prefix) ==
    IF prefix[Len(prefix)] = Slash THEN prefix ELSE Append(prefix, Slash)

-----------------------------------------------------------------------------
VARIABLES
    callback,  \* the path of the callback argument
    maker,     \* who has made the URL: "service" or "command"
    request,
    rows,      \* the ids in the table
    at,        \* where the request, and later its update, is
    response,  \* of Service::call
    verifier,  \* of the Content, with the signature and the mac so far
    unread,    \* the buffers of the body to come
    delivered, \* the chunks that the consumer has got
    errors,    \* the errors that the consumer has got
    printed    \* the feed that print_all has written

content == <<verifier, unread, delivered, errors>>
delivery_vars == <<callback, maker, request, rows, at, response, content, printed>>

\* The table holds the subscription of the callback, and may hold the one
\* that the callback leads to.
DeliveryInit ==
    /\ Init
    /\ \/ /\ id # None
          /\ callback \in {<<1>>, <<1, Slash>>} /\ maker \in {"service", "command"}
          /\ request \in Requests(id)
          /\ rows \in {{id}, {id, decode(encode(id))}}
       \/ /\ id = None
          /\ callback = <<1, Slash>> /\ maker = "service"
          /\ request \in Requests(decode(text))
          /\ rows \in {{}, {decode(text)} \ {None}}
    /\ at = "called" /\ response = "none"
    /\ verifier = Absent /\ unread = request.body.bufs
    /\ delivered = <<>> /\ errors = {}
    /\ printed = Absent

-----------------------------------------------------------------------------
(* Service::call                                                           *)

\* hub::make_callback with the prefix of the service, which is prepared, or
\* with that of the commands of the example, which is not.
Path == (IF maker = "service" THEN prepare_callback_prefix(callback) ELSE callback) \o text

Stripped == IsPrefix(prepare_callback_prefix(callback), Path)

Called == stage = "done" /\ at = "called"

Answer(status) ==
    /\ response' = status
    /\ at' = "answered"
    /\ UNCHANGED <<callback, maker, request, rows, content, printed>>

\* Another path than those below the callback.
RefusePrefix ==
    /\ stage = "route" /\ at = "called"
    /\ ~Stripped
    /\ Answer("NOT_FOUND")

\* No id: Other may be a slash.
RefusePath ==
    /\ Called
    /\ routed = None
    /\ \/ Answer("GONE")
       \/ Other \in {text[k] : k \in DOMAIN text} /\ Answer("NOT_FOUND")

\* Pool::get or get_topic fails: an error of the service, without an answer.
DatabaseFails ==
    /\ Called
    /\ routed # None
    /\ Answer("error")

\* A request without a signature is answered, but not delivered.
IgnoreUnsigned ==
    /\ Called
    /\ routed # None
    /\ TakeSignature(request.headers) = Absent
    /\ Answer("OK")

\* The id of a subscription that was removed.
RefuseGone ==
    /\ Called
    /\ routed # None
    /\ TakeSignature(request.headers) # Absent
    /\ routed \notin rows
    /\ Answer("GONE")

\* get_topic and Content::new; start_send fails if the stream is gone.
SendUpdate ==
    /\ Called
    /\ routed \in rows
    /\ LET sig == TakeSignature(request.headers)
       IN  /\ sig # Absent
           /\ verifier' = verify_with(sig, gen_secret(routed))
    /\ response' = "OK"
    /\ at' \in {"queued", "unheard"}
    /\ UNCHANGED <<callback, maker, request, rows, unread, delivered, errors, printed>>

-----------------------------------------------------------------------------
(* The consumer                                                            *)

\* The media type of an update, Xml without a header.
Media == IF request.media = Absent THEN "Xml" ELSE from_str(request.media)

\* print_all drops an update of an unknown media type unread; another
\* consumer of the stream may not look at it.
DropUnsupported ==
    /\ at = "queued"
    /\ Media = Absent
    /\ at' = "dropped"
    /\ UNCHANGED <<callback, maker, request, rows, response, content, printed>>

Read ==
    /\ at = "queued"
    /\ at' = "reading"
    /\ UNCHANGED <<callback, maker, request, rows, response, content, printed>>

\* Content::poll_data: a buffer goes to the verifier and to the consumer;
PollBuf ==
    /\ at = "reading"
    /\ unread # <<>>
    /\ verifier' = VerifierUpdate(verifier, Head(unread))
    /\ delivered' = delivered \o Head(unread)
    /\ unread' = Tail(unread)
    /\ UNCHANGED <<callback, maker, request, rows, at, response, errors,
                   printed>>

\* the connection breaks;
PollBroken ==
    /\ at = "reading"
    /\ unread = <<>>
    /\ request.body.truncated /\ errors = {}
    /\ errors' = {"Body"}
    /\ at' = "error"
    /\ UNCHANGED <<callback, maker, request, rows, response, verifier, unread,
                   delivered, printed>>

\* at the end of the body the signature is verified.
PollEnd ==
    /\ at = "reading"
    /\ unread = <<>>
    /\ request.body.truncated => errors # {}
    /\ verifier' = Reset(verifier)
    /\ \/ Matches(verifier) /\ at' = "complete" /\ UNCHANGED errors
       \/ ~Matches(verifier) /\ at' = "error"
          /\ errors' = errors \cup {"SignatureMismatch"}
    /\ UNCHANGED <<callback, maker, request, rows, response, unread, delivered, printed>>

\* A consumer other than to_bytes goes on after an error: the body is at its
\* end, and the verifier is what the error has left.
PollAgain ==
    /\ at = "error"
    /\ at' = "reading"
    /\ UNCHANGED <<callback, maker, request, rows, response, content, printed>>

\* print_all, which to_bytes has given all of the body and no error.
PrintFeed ==
    /\ at = "complete"
    /\ Media # Absent
    /\ errors = {}
    /\ LET feed == parse(Media, request.body.document)
       IN  printed' = IF feed = Absent THEN Absent ELSE into_feed(feed)
    /\ at' = "printed"
    /\ UNCHANGED <<callback, maker, request, rows, response, content>>

-----------------------------------------------------------------------------
DeliveryNext ==
    \/ MakeCallback /\ UNCHANGED delivery_vars
    \/ Stripped /\ Route /\ UNCHANGED delivery_vars
    \/ /\ \/ RefusePrefix \/ RefusePath \/ DatabaseFails \/ IgnoreUnsigned \/ RefuseGone \/ SendUpdate
          \/ DropUnsupported \/ Read \/ PollBuf \/ PollBroken \/ PollEnd \/ PollAgain
          \/ PrintFeed
       /\ UNCHANGED vars

DeliverySpec == DeliveryInit /\ [][DeliveryNext]_<<vars, delivery_vars>>

-----------------------------------------------------------------------------
(* Properties                                                              *)

AllChunks == FlattenSeq(request.body.bufs)

\* The header is the right signature of these chunks for this subscription.
SignsFor(header, id8, chunks) ==
    /\ header.digest # Absent
    /\ header.name = header.digest.method
    /\ header.digest.secret = gen_secret(id8)
    /\ header.digest.over = chunks

\* hub.rs:202: a callback that the subscriber hands out is one that it knows
\* its way from, unless a command of the example has made it with an
\* argument that does not end with a slash.
OwnCallbackAccepted ==
    id # None /\ at = "answered" =>
        /\ response = "NOT_FOUND" => maker = "command" /\ callback[Len(callback)] # Slash
        /\ response = "GONE" => routed # None

\* content.rs:68: a body that is read to its end without an error, and a
\* feed that is printed, is signed, all of it, with the secret of the very
\* subscription whose topic it is given out for.  (After a mismatch a
\* consumer that goes on has only the signature of nothing verified.)
CompleteIsSigned ==
    at \in {"complete", "printed"} =>
        \/ \E k \in DOMAIN request.headers :
              SignsFor(request.headers[k], routed, delivered)
        \/ "SignatureMismatch" \in errors /\ at = "complete"

\* A header by a method that no other well-formed header is stronger than.
Strongest(k) ==
    LET strength(j) == discriminant[request.headers[j].name]
        formed == {j \in DOMAIN request.headers :
                      SignatureParse(request.headers[j]) # Absent}
    IN  k \in formed /\ \A j \in formed : strength(j) <= strength(k)

\* service.rs:184: whatever comes with it and in whatever order, an update
\* whose strongest signatures are right is not left out, and not refused.
SignedIsDelivered ==
    /\ routed \in rows
    /\ \E k \in DOMAIN request.headers : Strongest(k)
    /\ \A k \in DOMAIN request.headers :
          Strongest(k) => SignsFor(request.headers[k], routed, AllChunks)
    => /\ at = "answered" => response = "error"
       /\ "SignatureMismatch" \in errors => "Body" \in errors

\* service.rs:198: the content of one subscription is never taken for that
\* of another, even if the callback of one leads to the other.
NotMisattributed ==
    at \in {"complete", "printed"} /\ id # None => routed = id

=============================================================================
