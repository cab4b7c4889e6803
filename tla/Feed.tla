--------------------------------- MODULE Feed ---------------------------------
(***************************************************************************)
(* What the example makes of a document (src/example/src/feed.rs): which   *)
(* parser a media type selects, where the topic and its hubs are found,    *)
(* and which link stands for an entry.                                     *)
(*                                                                         *)
(* A document is what the crates atom_syndication and rss have parsed:     *)
(*   [format |-> "atom", title, id, links, entries], a link [rel, href];   *)
(*   [format |-> "rss", title, link, prefixes, items], where prefixes is   *)
(*     the sequence, in order, of [atom, links]: whether the channel binds *)
(*     the prefix to the Atom namespace, and the elements <prefix:link>,   *)
(*     each [rel, href, inline], inline being the namespace that the       *)
(*     element declares for its prefix: "atom", "other" or Absent;         *)
(*   [format |-> "none"], which neither can read.                          *)
(***************************************************************************)
EXTENDS Integers, Sequences, SequencesExt

CONSTANT Absent  \* the None of an Option

\* MediaType::from_str of a MIME type [type, subtype, suffix].
from_str(mime) ==
    CASE mime.type = "application" /\ mime.subtype = "atom" /\ mime.suffix = "xml" -> "Atom"
      [] mime.type = "application" /\ mime.subtype \in {"rss", "rdf"} /\ mime.suffix = "xml"
           -> "Rss"
      [] mime.type \in {"application", "text"} /\ mime.subtype = "xml" -> "Xml"
      [] OTHER -> Absent

\* RawFeed::parse.  No document is both Atom and RSS.
parse(kind, document) ==
    IF \/ document.format = "atom" /\ kind \in {"Atom", "Xml"}
       \/ document.format = "rss" /\ kind \in {"Rss", "Xml"}
    THEN document ELSE Absent

-----------------------------------------------------------------------------
(* The topic and its hubs                                                  *)

Hrefs(links) == [k \in 1..Len(links) |-> links[k].href]

\* Those links of one relation that have an href.
LinksOf(links, rel) ==
    SelectSeq(links, LAMBDA l : l.rel = rel /\ l.href # Absent)

First(seq) == IF seq = <<>> THEN Absent ELSE Head(seq)

\* The link elements of a channel that are Atom's: by what they declare for
\* their prefix themselves, or else by what the channel declares.
AtomLinks(channel) ==
    FlattenSeq([p \in 1..Len(channel.prefixes) |->
        SelectSeq(channel.prefixes[p].links,
                  LAMBDA l : \/ l.inline = "atom"
                             \/ l.inline = Absent /\ channel.prefixes[p].atom)])

\* RawFeed::take_meta: the first link to the feed itself, and every hub.
take_meta(document) ==
    LET links == IF document.format = "atom" THEN document.links ELSE AtomLinks(document)
    IN  [topic |-> First(Hrefs(LinksOf(links, "self"))),
         hubs  |-> Hrefs(LinksOf(links, "hub"))]

-----------------------------------------------------------------------------
(* What is printed                                                         *)

\* From<atom::Entry>: the first link to an alternate, or else the first one.
atom_entry(entry) ==
    LET alternates == SelectSeq(entry.links, LAMBDA l : l.rel = "alternate")
    IN  [title |-> entry.title, id |-> entry.id,
         link  |-> First(Hrefs(alternates \o entry.links))]

\* From<rss::Item>: the link, or else a guid that is a permalink.
rss_entry(item) ==
    LET permalink == item.guid # Absent /\ item.guid.is_permalink
    IN  [title |-> item.title,
         id    |-> IF item.guid = Absent THEN Absent ELSE item.guid.value,
         link  |-> IF item.link = Absent /\ permalink THEN item.guid.value ELSE item.link]

\* From<RawFeed> for Feed
into_feed(document) ==
    IF document.format = "atom"
    THEN [title   |-> document.title, id |-> document.id,
          entries |-> [k \in 1..Len(document.entries) |-> atom_entry(document.entries[k])]]
    ELSE [title   |-> document.title, id |-> document.link,
          entries |-> [k \in 1..Len(document.items) |-> rss_entry(document.items[k])]]

=============================================================================
