------------------------------ MODULE Wrappers ------------------------------
(***************************************************************************)
(* pypowervm.wrappers.entry_wrapper and the Elements under it: a caller    *)
(* gets, builds, edits, refreshes, updates and deletes EntryWrappers and   *)
(* keeps them in getters, while others change the objects.  A wrapper is   *)
(* an XML document that is edited in place, an etag, and nothing else; the *)
(* REST server takes children only in the order of the schema.  A list     *)
(* that a property returns is a view of one element of the document.       *)
(***************************************************************************)
EXTENDS Integers, Sequences, SequencesExt

CONSTANTS
  WrapObjects,  \* the objects, in the order of the feed
  ChildOrder,   \* child_order: the tags of the first-level children, in the order of the schema
  TextTags,     \* the ones with a text, once at most
  ListTag,      \* the one that contains a list of elements (a WrapperElemList)
  RepeatedTag,  \* the one that occurs once per value (an ElementList)
  ServerDocs,   \* documents the server may hold
  Vals,         \* texts, values and list elements
  Holders,      \* variables of the caller that hold a list
  NoEtag, NoCache, NoList, NoCall,
  MaxWrapOps, MaxWrappers, MaxForeign  \* bounds on the caller's operations (calls count for two), the wrappers, foreign changes

VARIABLES
  srv,      \* object -> its version, whether it exists, its document
  wrap,     \* the wrappers made so far: [obj, etag, doc, made, content]; made counts the list
            \* elements seeded; content (history) is what the caller put there,
            \* without the elements it has appended to a list since
  held,     \* holder -> the list it holds: the wrapper, the identity of the element it is a view
            \* of, and (history) whether the list was superseded: "live", "reseeded", "replaced"
  feedCache,  \* FeedGetter.cache
  uuidCache,  \* UUIDFeedGetter.wrapper_getters: object -> cache
  getCall,  \* the get() under way
  got,      \* (history) the last answer of a get(): what was asked, the versions at its start
  wrapOps, foreign

wrapperVars == <<srv, wrap, held, feedCache, uuidCache, getCall, got, wrapOps, foreign>>

-----------------------------------------------------------------------------
(* Element: a child is a tag, a value (a list element's value is the         *)
(* sequence of its children) and an identity.                                *)
Child(t, v, n) == [tag |-> t, val |-> v, id |-> n]
Find(d, t) == SelectInSeq(d, LAMBDA c : c.tag = t)
FindLast(d, t) == SelectLastInSeq(d, LAMBDA c : c.tag = t)

Place(t) == SelectInSeq(ChildOrder, LAMBDA x : x = t)
\* (mutant) ordlist[:ordlist.index(subtag) - 1]
PredecessorsButOne(t) == {ChildOrder[i] : i \in 1 .. Place(t) - 2}
Predecessors(t) == {ChildOrder[i] : i \in 1 .. Place(t) - 1}

Inject(d, c, replace) ==
  LET last == FindLast(d, c.tag)
      next == SelectInSeq(d, LAMBDA x : x.tag \notin Predecessors(c.tag))
  IN  CASE last # 0 /\ replace -> [d EXCEPT ![last] = c]
        [] last # 0 /\ ~replace -> InsertAt(d, last + 1, c)
        [] last = 0 /\ (c.tag \notin ToSet(ChildOrder) \/ next = 0) -> Append(d, c)
        [] OTHER -> InsertAt(d, next, c)

SetParmValue(d, t, v) ==
  IF Find(d, t) = 0 THEN Inject(d, Child(t, v, 0), TRUE) ELSE [d EXCEPT ![Find(d, t)].val = v]

\* _find_or_seed: an Element without children is false, so that an empty one is replaced.
IsSeeded(d) == Find(d, ListTag) # 0 /\ d[Find(d, ListTag)].val # <<>>
FindOrSeed(d, n) == IF IsSeeded(d) THEN d ELSE Inject(d, Child(ListTag, <<>>, n), TRUE)

ValuesOf(d, t) ==
  LET vals[n \in 0 .. Len(d)] ==
        IF n = 0 THEN <<>> ELSE IF d[n].tag = t THEN Append(vals[n - 1], d[n].val) ELSE vals[n - 1]
  IN vals[Len(d)]
FindValue(d, v) == SelectInSeq(d, LAMBDA c : c.tag = RepeatedTag /\ c.val = v)
RemoveValue(d, v) == RemoveAt(d, FindValue(d, v))
AppendValue(d, v) == Inject(d, Child(RepeatedTag, v, 0), FALSE)
ClearValues(d) ==
  LET vs == ValuesOf(d, RepeatedTag)
      cleared[n \in 0 .. Len(vs)] == IF n = 0 THEN d ELSE RemoveValue(cleared[n - 1], vs[n])
  IN cleared[Len(vs)]
SetElemList(d, vs) ==
  LET filled[n \in 0 .. Len(vs)] == IF n = 0 THEN ClearValues(d) ELSE AppendValue(filled[n - 1], vs[n])
  IN filled[Len(vs)]

(* What a document says, tag by tag (of a list, its elements), and what the  *)
(* schema demands: the order of the tags, and single ones once.              *)
AllTags == ToSet(ChildOrder)
Said(vs, t) == IF t = ListTag THEN (IF vs = <<>> THEN <<>> ELSE Head(vs)) ELSE vs
Content(d) == [t \in AllTags |-> Said(ValuesOf(d, t), t)]
InSchemaOrder(d) ==
  \A i, j \in DOMAIN d : i < j => Place(d[i].tag) <= Place(d[j].tag) /\ (d[i].tag = d[j].tag => d[i].tag = RepeatedTag)

ASSUME WrapperConstantsOK ==
  /\ ChildOrder \in Seq(AllTags) /\ ChildOrder # <<>> /\ ChildOrder[1] # ListTag
  /\ TextTags \cup {ListTag, RepeatedTag} \subseteq AllTags
  /\ ListTag # RepeatedTag /\ {ListTag, RepeatedTag} \cap TextTags = {}
  /\ WrapObjects \in Seq(ToSet(WrapObjects))
  /\ \A d \in ServerDocs :
       /\ d \in Seq(ToSet(d)) /\ InSchemaOrder(d)
       /\ \A c \in ToSet(d) : c = Child(c.tag, c.val, 0) /\ c.tag \in AllTags
       /\ \A c \in ToSet(d) : c.tag = ListTag => c.val \in Seq(ToSet(c.val))

-----------------------------------------------------------------------------
\* What is sent is text: the server, and whoever gets it, has elements of its own.
Sent(d) == [i \in DOMAIN d |-> [d[i] EXCEPT !.id = 0]]
Wrapped(o) == [obj |-> o, etag |-> srv[o].ver, doc |-> srv[o].doc, made |-> 0, content |-> Content(srv[o].doc)]
Exists(o) == srv[o].up
IsCurrent(w) == wrap[w].etag = srv[wrap[w].obj].ver
MayWrap == Len(wrap) < MaxWrappers /\ getCall = NoCall
NewWrapper(w) == wrap' = Append(wrap, w)
Getters == <<feedCache, uuidCache, getCall, got>>
Ids == DOMAIN wrap

NoWrappersYet ==
  /\ wrap = <<>> /\ held = [h \in Holders |-> NoList]
  /\ feedCache = NoCache /\ uuidCache = [o \in ToSet(WrapObjects) |-> NoCache]
  /\ getCall = NoCall /\ got = NoCache
  /\ wrapOps = 0 /\ foreign = 0
WrapperInit ==
  /\ srv \in [ToSet(WrapObjects) -> {[ver |-> 1, up |-> TRUE, doc |-> d] : d \in ServerDocs}]
  /\ NoWrappersYet

Spend(n) == wrapOps + n <= MaxWrapOps /\ wrapOps' = wrapOps + n
Calls == Spend(2)

\* EntryWrapper.get of one object, and _bld of a new one.
GetWrapper(o) ==
  /\ Calls /\ MayWrap /\ Exists(o)
  /\ NewWrapper(Wrapped(o))
  /\ UNCHANGED <<srv, held, Getters, foreign>>
BuildWrapper(o) ==
  /\ Calls /\ MayWrap /\ ~Exists(o)
  /\ NewWrapper([obj |-> o, etag |-> NoEtag, doc |-> <<Child(ChildOrder[1], "", 0)>>, made |-> 0,
                 content |-> Content(<<Child(ChildOrder[1], "", 0)>>)])
  /\ UNCHANGED <<srv, held, Getters, foreign>>

Stores(o, d) == srv' = [srv EXCEPT ![o] = [ver |-> @.ver + 1, up |-> TRUE, doc |-> d]]
Vanishes(o) == srv' = [srv EXCEPT ![o] = [ver |-> @.ver + 1, up |-> FALSE, doc |-> @.doc]]

\* create: PUT; the answer is wrapped.
CreateFromWrapper(w) ==
  /\ Calls /\ MayWrap /\ wrap[w].etag = NoEtag /\ ~Exists(wrap[w].obj)
  /\ Stores(wrap[w].obj, Sent(wrap[w].doc))
  /\ NewWrapper([wrap[w] EXCEPT !.etag = srv[wrap[w].obj].ver + 1])
  /\ UNCHANGED <<held, Getters, foreign>>

\* update: POST with If-Match; on a mismatch an HttpError, and nothing changes.
UpdateWrapper(w) ==
  /\ Calls /\ MayWrap /\ wrap[w].etag # NoEtag /\ Exists(wrap[w].obj)
  /\ IF IsCurrent(w)
     THEN /\ Stores(wrap[w].obj, Sent(wrap[w].doc))
          /\ NewWrapper([wrap[w] EXCEPT !.etag = @ + 1])
     ELSE UNCHANGED <<srv, wrap>>
  /\ UNCHANGED <<held, Getters, foreign>>

\* delete: DELETE with If-Match.
DeleteWrapper(w) ==
  /\ Calls /\ getCall = NoCall /\ Exists(wrap[w].obj) /\ IsCurrent(w)
  /\ Vanishes(wrap[w].obj)
  /\ UNCHANGED <<wrap, held, Getters, foreign>>

-----------------------------------------------------------------------------
(* Edits of the document of a wrapper.  What the caller means is put into    *)
(* content without regard to elements, order or identity.                    *)
Edits == Spend(1) /\ getCall = NoCall /\ UNCHANGED <<srv, Getters, foreign>>
Puts(w, d, t, vs) == wrap' = [wrap EXCEPT ![w].doc = d, ![w].content[t] = vs]
Doc(w) == wrap[w].doc
Means(w, t) == wrap[w].content[t]

SetText(w, t, v) == Edits /\ Puts(w, SetParmValue(Doc(w), t, v), t, <<v>>) /\ UNCHANGED held

Supersede(w, hist) == [h \in Holders |-> IF held[h] # NoList /\ held[h].of = w THEN [held[h] EXCEPT !.hist = hist] ELSE held[h]]

\* A property that returns WrapperElemList(self._find_or_seed(...)).
ReadList(w, h) ==
  LET seeds == ~IsSeeded(Doc(w))
      d == FindOrSeed(Doc(w), wrap[w].made + 1)
      view == [of |-> w, id |-> d[Find(d, ListTag)].id, hist |-> "live"]
  IN  /\ Edits
      /\ wrap' = [wrap EXCEPT ![w].doc = d, ![w].made = IF seeds THEN @ + 1 ELSE @]
      /\ held' = [IF seeds THEN Supersede(w, "reseeded") ELSE held EXCEPT ![h] = view]

\* replace_list: a new element with copies of the children.
ReplaceList(w, vs) ==
  /\ Edits
  /\ wrap' = [wrap EXCEPT ![w].doc = Inject(@, Child(ListTag, vs, wrap[w].made + 1), TRUE),
                          ![w].made = @ + 1, ![w].content[ListTag] = vs]
  /\ held' = Supersede(w, "replaced")

\* The element a list is a view of may have left the document, and then the edit is lost.
ViewedIn(ws, h) == SelectInSeq(ws[h.of].doc, LAMBDA c : c.tag = ListTag /\ c.id = h.id)
Viewed(h) == ViewedIn(wrap, h)
Listed(ws, h) == ws[h.of].doc[ViewedIn(ws, h)].val

\* The wrappers once h has got v at its end, and once h has lost its i-th element.
Longer(d, k, v) == IF k = 0 THEN d ELSE [d EXCEPT ![k].val = Append(@, v)]
Meant(vs, h, v) == IF h.hist = "live" THEN Append(vs, v) ELSE vs
Gains(ws, h, v) ==
  [ws EXCEPT ![h.of].doc = Longer(@, ViewedIn(ws, h), v), ![h.of].content[ListTag] = Meant(@, h, v)]
Loses(ws, h, i) ==
  [ws EXCEPT ![h.of].doc[ViewedIn(ws, h)].val = RemoveAt(@, i), ![h.of].content[ListTag] = RemoveAt(@, i)]

\* append of an element that is in no document yet.
AppendToList(h, v) ==
  /\ held[h] # NoList /\ Edits
  /\ wrap' = Gains(wrap, held[h], v)
  /\ UNCHANGED held
\* append of an element of another list, or of the same one: lxml moves it.
MoveToList(g, h) ==
  /\ held[g] # NoList /\ held[h] # NoList /\ Viewed(held[g]) # 0 /\ Edits
  /\ \E i \in DOMAIN Listed(wrap, held[g]) :
       wrap' = Gains(Loses(wrap, held[g], i), held[h], Listed(wrap, held[g])[i])
  /\ UNCHANGED held
RemoveFromList(h, v) ==
  /\ held[h] # NoList /\ Viewed(held[h]) # 0 /\ Edits
  /\ LET w == held[h].of IN
     /\ v \in ToSet(Doc(w)[Viewed(held[h])].val)
     /\ Puts(w, [Doc(w) EXCEPT ![Viewed(held[h])].val = RemoveFirst(@, v)], ListTag, RemoveFirst(Means(w, ListTag), v))
  /\ UNCHANGED held

\* ElementList.append, remove and _set_elem_list.
AppendRepeated(w, v) ==
  Edits /\ Puts(w, AppendValue(Doc(w), v), RepeatedTag, Append(Means(w, RepeatedTag), v)) /\ UNCHANGED held
RemoveRepeated(w, v) ==
  /\ Edits /\ FindValue(Doc(w), v) # 0
  /\ Puts(w, RemoveValue(Doc(w), v), RepeatedTag, RemoveFirst(Means(w, RepeatedTag), v)) /\ UNCHANGED held
SetRepeated(w, vs) ==
  Edits /\ Puts(w, SetElemList(Doc(w), vs), RepeatedTag, vs) /\ UNCHANGED held

EditWrapper(w) ==
  \/ \E t \in TextTags, v \in Vals : SetText(w, t, v)
  \/ \E h \in Holders : ReadList(w, h)
  \/ \E vs \in {<<>>} \cup {<<v>> : v \in Vals} : ReplaceList(w, vs) \/ SetRepeated(w, vs)
  \/ \E v \in Vals : AppendRepeated(w, v) \/ RemoveRepeated(w, v)
EditList ==
  \E h \in Holders : \/ \E v \in Vals : AppendToList(h, v) \/ RemoveFromList(h, v)
                     \/ \E g \in Holders : MoveToList(g, h)

-----------------------------------------------------------------------------
(* Getters.  A get() makes its REST calls one by one: todo are the objects   *)
(* (or wrappers) it still has to look at.                                    *)
Versions == [o \in ToSet(WrapObjects) |-> srv[o].ver]
Started(kind, refresh, refetch, todo) ==
  getCall' = [kind |-> kind, refresh |-> refresh, asked |-> refresh \/ refetch, since |-> Versions, todo |-> todo, new |-> <<>>]

\* FeedGetter.get: refresh what is cached, or fetch the feed, or answer from the cache.
GetFeed(refresh, refetch) ==
  /\ Calls /\ getCall = NoCall
  /\ IF refresh /\ feedCache # NoCache
     THEN Started("feed", TRUE, refetch, feedCache) /\ UNCHANGED feedCache
     ELSE /\ Started("fetch", FALSE, refetch \/ feedCache = NoCache, <<>>)
          /\ feedCache' = IF refetch THEN NoCache ELSE feedCache
  /\ UNCHANGED <<srv, wrap, held, uuidCache, got, foreign>>
Feed ==
  LET feed[n \in 0 .. Len(WrapObjects)] ==
        IF n = 0 THEN <<>> ELSE IF Exists(WrapObjects[n]) THEN Append(feed[n - 1], WrapObjects[n]) ELSE feed[n - 1]
  IN feed[Len(WrapObjects)]
FetchFeed ==
  LET os == Feed
      ids == [i \in DOMAIN os |-> Len(wrap) + i]
      answer == IF feedCache = NoCache THEN ids ELSE feedCache
  IN  /\ getCall # NoCall /\ getCall.kind = "fetch"
      /\ feedCache = NoCache => Len(wrap) + Len(os) <= MaxWrappers
      /\ wrap' = IF feedCache = NoCache THEN wrap \o [i \in DOMAIN os |-> Wrapped(os[i])] ELSE wrap
      /\ feedCache' = answer
      /\ got' = [asked |-> getCall.asked, since |-> getCall.since, ids |-> answer]
      /\ getCall' = NoCall
      /\ UNCHANGED <<srv, held, uuidCache, wrapOps, foreign>>

\* UUIDFeedGetter.get: refetch makes new getters, then each is asked.
GetUuidFeed(refresh, refetch) ==
  /\ Calls /\ getCall = NoCall
  /\ uuidCache' = IF refetch THEN [o \in DOMAIN uuidCache |-> NoCache] ELSE uuidCache
  /\ Started("uuid", refresh, refetch, WrapObjects)
  /\ UNCHANGED <<srv, wrap, held, feedCache, got, foreign>>

\* refresh: GET with If-None-Match.  304: the wrapper itself, with the edits made to it.
NotModified(w) == IsCurrent(w)
Refreshed(w) == IF NotModified(w) THEN <<>> ELSE <<Wrapped(wrap[w].obj)>>
TodoObject == IF getCall.kind = "feed" THEN wrap[Head(getCall.todo)].obj ELSE Head(getCall.todo)
Cached == IF getCall.kind = "feed" THEN Head(getCall.todo) ELSE uuidCache[TodoObject]
Fetches ==
  CASE Cached = NoCache -> <<Wrapped(TodoObject)>>
    [] Cached # NoCache /\ getCall.refresh -> Refreshed(Cached)
    [] OTHER -> <<>>
GetNext ==
  /\ getCall # NoCall /\ getCall.kind # "fetch" /\ getCall.todo # <<>>
  /\ Cached = NoCache \/ getCall.refresh => Exists(TodoObject)
  /\ Len(wrap) + Len(Fetches) <= MaxWrappers
  /\ LET w == IF Fetches = <<>> THEN Cached ELSE Len(wrap) + 1 IN
     /\ wrap' = wrap \o Fetches
     /\ getCall' = [getCall EXCEPT !.todo = Tail(@), !.new = Append(@, w)]
     /\ uuidCache' = IF getCall.kind = "uuid" THEN [uuidCache EXCEPT ![TodoObject] = w] ELSE uuidCache
  /\ UNCHANGED <<srv, held, feedCache, got, wrapOps, foreign>>
\* The object is gone: the HttpError leaves get() and the cache of the feed as it was.
GetGone ==
  /\ getCall # NoCall /\ getCall.kind # "fetch" /\ getCall.todo # <<>>
  /\ Cached = NoCache \/ getCall.refresh
  /\ ~Exists(TodoObject)
  /\ getCall' = NoCall
  /\ UNCHANGED <<srv, wrap, held, feedCache, uuidCache, got, wrapOps, foreign>>
GetReturns ==
  /\ getCall # NoCall /\ getCall.kind # "fetch" /\ getCall.todo = <<>>
  /\ feedCache' = IF getCall.kind = "feed" THEN getCall.new ELSE feedCache
  /\ got' = [asked |-> getCall.asked, since |-> getCall.since, ids |-> getCall.new]
  /\ getCall' = NoCall
  /\ UNCHANGED <<srv, wrap, held, uuidCache, wrapOps, foreign>>

\* wrapper = wrapper.refresh()
RefreshWrapper(w) ==
  /\ Calls /\ MayWrap /\ wrap[w].etag # NoEtag /\ Exists(wrap[w].obj)
  /\ wrap' = wrap \o Refreshed(w)
  /\ got' = [asked |-> TRUE, since |-> Versions, ids |-> <<IF NotModified(w) THEN w ELSE Len(wrap) + 1>>]
  /\ UNCHANGED <<srv, held, feedCache, uuidCache, getCall, foreign>>

-----------------------------------------------------------------------------
(* Other users of the server (external).                                     *)
ForeignChange(o) ==
  /\ foreign < MaxForeign /\ foreign' = foreign + 1
  /\ \/ \E d \in ServerDocs : Stores(o, d)
     \/ Exists(o) /\ Vanishes(o)
  /\ UNCHANGED <<wrap, held, Getters, wrapOps>>

WrapperNext ==
  \/ \E o \in ToSet(WrapObjects) : GetWrapper(o) \/ BuildWrapper(o) \/ ForeignChange(o)
  \/ \E w \in Ids : \/ CreateFromWrapper(w) \/ UpdateWrapper(w) \/ DeleteWrapper(w)
                    \/ RefreshWrapper(w) \/ EditWrapper(w)
  \/ EditList
  \/ \E refresh, refetch \in BOOLEAN : GetFeed(refresh, refetch) \/ GetUuidFeed(refresh, refetch)
  \/ FetchFeed \/ GetNext \/ GetGone \/ GetReturns

WrapperSpec == WrapperInit /\ [][WrapperNext]_wrapperVars

-----------------------------------------------------------------------------
(* Properties                                                                *)

(* Whatever a caller does to its wrappers (texts that are set, lists that    *)
(* are edited through views that were read earlier, elements that are        *)
(* appended to another list, lists that are replaced), in whatever order:    *)
(* a document, and therefore what the server stores, says exactly what the   *)
(* caller put there, less the elements it has appended to a list since (an   *)
(* append takes an element out of the document it is in, ElementsStay), with *)
(* its children in the order the schema demands and single ones once; and a  *)
(* get() or refresh() that was asked for fresh data returns no wrapper older *)
(* than the call.  A view is no longer counted on once its list has been     *)
(* replaced, or been read again while it was empty.                          *)
WrappersAreSound ==
  /\ \A w \in Ids : Content(Doc(w)) = wrap[w].content /\ InSchemaOrder(Doc(w))
  /\ \A o \in DOMAIN srv : InSchemaOrder(srv[o].doc)
  /\ got # NoCache /\ got.asked =>
       \A i \in DOMAIN got.ids : wrap[got.ids[i]].etag >= got.since[wrap[got.ids[i]].obj]

(* "This list allows for modification of the 'wrappers' that get returned,   *)
(* which update the backing elements": a list that was read stays a view of  *)
(* the document until the list is replaced.  Refuted: reading the property   *)
(* again while it is empty replaces the element (an Element without children *)
(* is false), and what is appended to the first list is lost.                *)
ListsStayBacked == \A h \in Holders : held[h] # NoList /\ held[h].hist # "replaced" => Viewed(held[h]) # 0

(* "Ensure the existing element remains intact": what is appended to one     *)
(* list leaves the documents of the other wrappers as they are.  Refuted:    *)
(* lxml's append moves an element that is in another document ("it will be   *)
(* *removed* from that hierarchy"), and an update of that wrapper deletes it *)
(* from the server.                                                          *)
ElementsStay ==
  [][\A h \in Holders : (\E g \in Holders : MoveToList(g, h)) =>
       \A w \in Ids : w # held[h].of => wrap'[w].doc = wrap[w].doc]_wrapperVars
=============================================================================
