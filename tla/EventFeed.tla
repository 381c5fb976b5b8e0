------------------------------ MODULE EventFeed ------------------------------
(***************************************************************************)
(* _EventListener._get_events and _format_events: the entries of an event  *)
(* feed are folded, in order, into the dictionary that EventHandler.process*)
(* is called with.  What the dictionary should hold is stated on the feed  *)
(* as a whole.                                                             *)
(***************************************************************************)
EXTENDS Naturals, Sequences

CONSTANTS
  Uris,         \* the hrefs events are about
  General,      \* the key 'general'
  MaxEntries    \* bound on the entries of a feed

ASSUME FeedConstantsOK == General \notin Uris /\ MaxEntries \in Nat

VARIABLES
  feed,       \* the entries formatted so far
  events      \* the dictionary: key -> action, "none" where there is no key

feedVars == <<feed, events>>

Keys == Uris \cup {General}
Actions == {"init", "add", "delete", "invalidate", "none"}

\* EventTypes: those that start a feed, clear it, name a URI, or are left to
\* the raw handlers.
Resets == {"NEW_CLIENT"}
Clears == {"CACHE_CLEARED", "MISSING_EVENTS"}
Touches == {"MODIFY_URI", "INVALID_URI", "HIDDEN_URI"}
Ignored == {"VISIBLE_URI", "CUSTOM_CLIENT_EVENT"}
Decisive == {"ADD_URI", "DELETE_URI"}
Types == Resets \cup Clears \cup Touches \cup Ignored \cup Decisive
Entries == [type : Types, href : Uris]

FeedTypeOK ==
  /\ feed \in Seq(Entries)
  /\ events \in [Keys -> Actions]

FeedInit ==
  /\ feed = <<>>
  /\ events = [k \in Keys |-> "none"]

\* The actions of _format_events.
Cleared(e) == [k \in Keys |-> IF k = General THEN "invalidate" ELSE "none"]

Overwrites(e, u) == [e EXCEPT ![u] = "invalidate"]      \* mutant: no "if href not in events"
Touched(e, u) == IF e[u] = "none" THEN [e EXCEPT ![u] = "invalidate"] ELSE e

Formatted(e, entry) ==
  IF entry.type \in Resets THEN [e EXCEPT ![General] = "init"]
  ELSE IF entry.type \in Clears THEN Cleared(e)
  ELSE IF entry.type = "ADD_URI" THEN [e EXCEPT ![entry.href] = "add"]
  ELSE IF entry.type = "DELETE_URI" THEN [e EXCEPT ![entry.href] = "delete"]
  ELSE IF entry.type \in Touches THEN Touched(e, entry.href)
  ELSE e

FormatEvent(entry) ==
  /\ Len(feed) < MaxEntries
  /\ feed' = Append(feed, entry)
  /\ events' = Formatted(events, entry)

FeedNext == \E entry \in Entries : FormatEvent(entry)

FeedSpec == FeedInit /\ [][FeedNext]_feedVars

-----------------------------------------------------------------------------
(* What a handler may conclude from the dictionary.                        *)

\* No entry after i is of one of these types (about u).
NoneAfter(i, types) == \A j \in i + 1 .. Len(feed) : feed[j].type \notin types
NoneAfterOf(i, types, u) ==
  \A j \in i + 1 .. Len(feed) : ~(feed[j].type \in types /\ feed[j].href = u)

\* The last decisive entry about u since the cache was last cleared.
LastIs(type, u) ==
  \E i \in 1 .. Len(feed) :
    /\ feed[i].type = type /\ feed[i].href = u
    /\ NoneAfter(i, Clears) /\ NoneAfterOf(i, Decisive, u)

\* Nothing has happened to u since the cache was last cleared.
Quiet(u) ==
  \A i \in 1 .. Len(feed) :
    feed[i].type \in Touches \cup Decisive /\ feed[i].href = u => ~NoneAfter(i, Clears)

\* 'add' or 'delete' is what last happened to the URI since the cache was last
\* cleared; 'invalidate' is only for URIs that were neither added nor deleted
\* since; no key means that nothing happened to it since.
LastWordWins ==
  \A u \in Uris :
    /\ events[u] = "add" <=> LastIs("ADD_URI", u)
    /\ events[u] = "delete" <=> LastIs("DELETE_URI", u)
    /\ events[u] = "none" <=> Quiet(u)

\* A handler is told to re-read everything exactly when, of the entries about
\* the whole system, the last one says that events were lost, and is told that
\* the system is being initialized when it says so.
GeneralIsLast ==
  /\ events[General] = "invalidate" <=>
       \E i \in 1 .. Len(feed) : feed[i].type \in Clears /\ NoneAfter(i, Resets)
  /\ events[General] = "init" <=>
       \E i \in 1 .. Len(feed) : feed[i].type \in Resets /\ NoneAfter(i, Clears)
=============================================================================
