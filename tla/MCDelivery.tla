------------------------------ MODULE MCDelivery ------------------------------
(* Instances of Delivery: all sorts of requests for one id, and a plain one *)
(* for every other id and for every text.                                   *)
EXTENDS Delivery, MCCallbackId

GoodId == [k \in 1..8 |-> 1]

Header(method, secret, over) ==
    [name   |-> method,
     digest |-> [method |-> method, secret |-> secret, over |-> over]]

AtomDocument ==
    [format |-> "atom", title |-> "t", id |-> "i", links |-> <<>>,
     entries |-> <<[title |-> "e", id |-> "1",
                    links |-> <<[rel |-> "self", href |-> "s"],
                                [rel |-> "alternate", href |-> "a"]>>]>>]

RssDocument ==
    [format |-> "rss", title |-> "t", link |-> "l", prefixes |-> <<>>,
     items |-> <<[title |-> "e", link |-> Absent,
                  guid |-> [value |-> "g", is_permalink |-> TRUE]],
                 [title |-> "e", link |-> "k", guid |-> Absent]>>]

Body(bufs, truncated, document) ==
    [bufs |-> bufs, truncated |-> truncated, document |-> document]

Bodies ==
    {Body(<<<<1>>, <<2, 3>>>>, FALSE, AtomDocument),
     Body(<<<<1, 2>>>>, FALSE, RssDocument),
     Body(<<<<1>>, <<2>>>>, TRUE, AtomDocument),
     Body(<<>>, FALSE, [format |-> "none"])}

Mime(type, subtype, suffix) == [type |-> type, subtype |-> subtype, suffix |-> suffix]

MediaTypes ==
    {Absent, Mime("application", "atom", "xml"), Mime("application", "rss", "xml"),
     Mime("text", "xml", Absent), Mime("text", "html", Absent)}

\* Three headers with one of the bodies, two with the others.
MaxHeaders(body) == IF Len(body.bufs) = 2 /\ ~body.truncated THEN 3 ELSE 2

\* The right signatures; those over a part, over nothing, or with another
\* secret; and headers that are no signatures.
Headers(secret, body) ==
    {Header(m, secret, FlattenSeq(body.bufs)) : m \in {"sha1", "sha512"}}
        \cup {Header("sha256", secret, FlattenSeq(body.bufs)),
              Header("sha256", secret, <<1>>),
              Header("sha512", secret, <<>>),
              Header("sha384", <<>>, FlattenSeq(body.bufs)),
              [name |-> "md5", digest |-> Absent],
              [name |-> "sha512", digest |-> Header("sha1", secret, <<>>).digest]}

MCRequests(i) ==
    IF i = GoodId
    THEN UNION {[headers : UNION {[1..n -> Headers(gen_secret(i), body)] :
                                      n \in 0..MaxHeaders(body)},
                 media : MediaTypes, body : {body}] : body \in Bodies}
    ELSE LET body == Body(<<<<1>>>>, FALSE, AtomDocument)
         IN  {[headers |-> <<Header("sha256", gen_secret(i), <<1>>)>>,
               media |-> Absent, body |-> body]}
===============================================================================
