------------------------------ MODULE Dagsync -------------------------------
(***************************************************************************)
(* dagsync: a client asks a server for a traversal of a DAG; the server    *)
(* walks its own tables and writes one item per CID, and the client walks  *)
(* its own tables, as the items fill them, to know which CID the next item *)
(* is about.  No item names its CID.                                       *)
(*                                                                         *)
(* Abstractions.  A block's data stands for its BLAKE3 hash as well; a CID *)
(* is a codec and the data its multihash was taken of.  A top of a stack   *)
(* is its head.  An encoded enum is its tag and its content.               *)
(***************************************************************************)
EXTENDS Naturals, FiniteSets, Sequences

CONSTANTS
  Nodes,    \* each has tables and a blob store, and serves them
  Data,     \* blocks
  Children, \* the links in a block, or None where it is not DAG-CBOR
  Cids,     \* the CIDs in use: [codec, data]
  Loaded,   \* Loaded[n]: the CIDs whose blocks n imported before it served
  Library,  \* Library[n]: the pairs <<CID, data>> that n imports at any time
  Calls,    \* calls of Sync
  Client,   \* Client[i]: the node that makes call i
  Server,   \* Server[i]: the node it asks
  Requests, \* Requests[i]: what it may ask for
  Stopping, \* nodes whose handlers may be stopped
  Cutting,  \* calls whose connection may be lost, or whose context ends
  None,
  Error     \* what does not encode or decode

Codecs == {"raw", "cbor", "pb"}

\* What may be asked for; None where an option is nil.
Filters == [all : BOOLEAN, noRaw : BOOLEAN, justRaw : BOOLEAN, exclude : {None} \cup SUBSET Codecs]
Inlines == [all : BOOLEAN, noRaw : BOOLEAN, exclude : {None} \cup SUBSET Codecs, none : BOOLEAN]
FullTraversals ==
  [root : Cids, visited : SUBSET Cids, order : BOOLEAN, filter : Filters \cup {None}]
Traversals == [sequence : Seq(Cids) \cup {None}, full : FullTraversals \cup {None}]

ASSUME ConstantsAssumption ==
  /\ Cids \subseteq [codec : Codecs, data : Data]
  /\ None \notin Data \cup Cids \cup Seq(Cids) \cup FullTraversals \cup Filters
  /\ \A codecs \in SUBSET Codecs : codecs # None
  /\ Error \notin Seq(Cids) \cup {None}
  /\ \A n \in Nodes : \A c \in Loaded[n] : c.codec = "cbor" => Children[c.data] # None
  /\ \A i \in Calls : Requests[i] \subseteq [traversal : Traversals, inline : Inlines]
  /\ Children \in [Data -> Seq(Cids) \cup {None}]
  /\ Loaded \in [Nodes -> SUBSET Cids]
  /\ Library \in [Nodes -> SUBSET (Cids \X Data)]
  /\ Client \in [Calls -> Nodes]
  /\ Server \in [Calls -> Nodes]
  /\ Stopping \subseteq Nodes
  /\ Cutting \subseteq Calls

VARIABLES
  hashes,   \* hashes[n][c]: the hash in n's tables, or None
  links,    \* links[n][c]: the links in n's tables, or None
  revLinks, \* revLinks[n][d]: the CIDs recorded for a hash
  store,    \* store[n]: the blobs of n
  asked,    \* the traversal of a call, as its client has it
  sent,     \* the request in a call's stream, encoded, or None
  serving,  \* where the handler of a call is
  sender,   \* its walk, and the CIDs it has yet to write
  inline,   \* the inline options it decoded
  wire,     \* the items written and not yet read
  reading,  \* where a call is
  reader    \* its walk, and the CID whose links it looks up next, or None

tables == <<hashes, links, revLinks, store>>
serverVars == <<serving, sender, inline>>
vars == <<tables, asked, sent, serverVars, wire, reading, reader>>

-----------------------------------------------------------------------------
(* Requests and their encoding *)

NoFilter == [all |-> FALSE, noRaw |-> FALSE, justRaw |-> FALSE, exclude |-> None]
NoInline == [all |-> FALSE, noRaw |-> FALSE, exclude |-> None, none |-> FALSE]

Sequence(cs) == [sequence |-> cs, full |-> None]
Full(root) ==
  [sequence |-> None,
   full |-> [root |-> root, visited |-> {}, order |-> TRUE, filter |-> [NoFilter EXCEPT !.all = TRUE]]]

EncodeFilter(f) ==
  IF f.all THEN [tag |-> 0]
  ELSE IF f.noRaw THEN [tag |-> 1]
  ELSE IF f.justRaw THEN [tag |-> 2]
  ELSE IF f.exclude # None THEN [tag |-> 3, codecs |-> f.exclude]
  ELSE Error

DecodeFilter(e) ==
  [all |-> e.tag = 0, noRaw |-> e.tag = 1, justRaw |-> e.tag = 2,
   exclude |-> IF e.tag = 3 THEN e.codecs ELSE None]

EncodeInline(o) ==
  IF o.all THEN [tag |-> 0]
  ELSE IF o.noRaw THEN [tag |-> 1]
  ELSE IF o.exclude # None THEN [tag |-> 2, codecs |-> o.exclude]
  ELSE IF o.none THEN [tag |-> 3]
  ELSE Error

DecodeInline(e) ==
  [all |-> e.tag = 0, noRaw |-> e.tag = 1,
   exclude |-> IF e.tag = 2 THEN e.codecs ELSE None, none |-> e.tag = 3]

\* A nil filter or order is an absent option.
EncodeFull(full) ==
  LET f == IF full.filter = None THEN None ELSE EncodeFilter(full.filter)
  IN IF full.order = FALSE \/ f = Error THEN Error ELSE [full EXCEPT !.filter = f]

DecodeFull(e) ==
  [e EXCEPT !.filter = IF e.filter = None THEN None ELSE DecodeFilter(e.filter)]

EncodeTraversal(t) ==
  IF t.sequence # None THEN [tag |-> 0, body |-> t.sequence]
  ELSE IF t.full # None /\ EncodeFull(t.full) # Error
       THEN [tag |-> 1, body |-> EncodeFull(t.full)]
  ELSE Error

DecodeTraversal(e) ==
  IF e.tag = 0 THEN [sequence |-> e.body, full |-> None]
  ELSE [sequence |-> None, full |-> DecodeFull(e.body)]

EncodeRequest(r) ==
  LET t == EncodeTraversal(r.traversal)
      o == EncodeInline(r.inline)
  IN IF Error \in {t, o} THEN Error ELSE [traversal |-> t, inline |-> o]

ASSUME EncodingAssumption ==
  /\ \A f \in Filters : EncodeFilter(f) # None
  /\ \A i \in Calls : \A r \in Requests[i] : EncodeRequest(r) # None

DecodeRequest(e) ==
  [traversal |-> DecodeTraversal(e.traversal), inline |-> DecodeInline(e.inline)]

\* The header's tag says whether a blob follows; the blob may not.
HashHeader(h) == [data |-> FALSE, hash |-> h, blob |-> FALSE]
DataHeader(h, blob) == [data |-> TRUE, hash |-> h, blob |-> blob]

\* Variation: the predicate asks for "just raw" first.
IncludesJustRawFirst(f, c) ==
  IF f = None THEN TRUE
  ELSE IF f.justRaw THEN c.codec = "raw"
  ELSE f.all \/ (f.noRaw /\ c.codec # "raw") \/ (f.exclude # None /\ c.codec \notin f.exclude)

\* includeCID; a nil filter is the one that takes everything.
Includes(f, c) ==
  IF f = None \/ f.all THEN TRUE
  ELSE IF f.noRaw THEN c.codec # "raw"
  ELSE IF f.justRaw THEN c.codec = "raw"
  ELSE f.exclude = None \/ c.codec \notin f.exclude

Inlined(o, c) ==
  IF o.all THEN TRUE
  ELSE IF o.noRaw THEN c.codec # "raw"
  ELSE o.exclude # None /\ c.codec \notin o.exclude

-----------------------------------------------------------------------------
(* Tables *)

\* The links of a block under a codec; Error where the block does not decode.
ExtractLinks(c, d) ==
  IF c.codec # "cbor" THEN <<>>
  ELSE IF Children[d] = None THEN Error ELSE Children[d]

\* Variation: a record without links leaves the links alone.
PutKeepingLinks(n, c, h, ls) ==
  /\ hashes' = [hashes EXCEPT ![n][c] = h]
  /\ links' = IF ls = <<>> THEN links ELSE [links EXCEPT ![n][c] = ls]
  /\ revLinks' = [revLinks EXCEPT ![n][h] = @ \cup {c}]

Put(n, c, h, ls) ==
  /\ hashes' = [hashes EXCEPT ![n][c] = h]
  /\ links' = [links EXCEPT ![n][c] = ls]
  /\ revLinks' = [revLinks EXCEPT ![n][h] = @ \cup {c}]

\* The blob stays where its links cannot be extracted.
AddAndPut(n, c, d) ==
  /\ store' = [store EXCEPT ![n] = @ \cup {d}]
  /\ IF ExtractLinks(c, d) = Error THEN UNCHANGED <<hashes, links, revLinks>>
     ELSE Put(n, c, d, ExtractLinks(c, d))

(* Walks.  A walk over an explicit sequence follows no links. *)

NoWalk == [deep |-> FALSE, stack |-> <<>>, seen |-> {}, filter |-> None]

Walk(t) ==
  IF t.full # None
  THEN [deep |-> TRUE, stack |-> <<t.full.root>>, seen |-> t.full.visited, filter |-> t.full.filter]
  ELSE [NoWalk EXCEPT !.stack = t.sequence]

\* Of a CID off the stack, not seen before, n's tables give the next ones.
Follow(n, c) == IF c.codec = "raw" \/ links[n][c] = None THEN <<>> ELSE links[n][c]

-----------------------------------------------------------------------------
Init ==
  /\ hashes = [n \in Nodes |-> [c \in Cids |-> IF c \in Loaded[n] THEN c.data ELSE None]]
  /\ links = [n \in Nodes |-> [c \in Cids |-> IF c \in Loaded[n] THEN ExtractLinks(c, c.data) ELSE None]]
  /\ revLinks = [n \in Nodes |-> [d \in Data |-> {c \in Loaded[n] : c.data = d}]]
  /\ store = [n \in Nodes |-> {c.data : c \in Loaded[n]}]
  /\ asked = [i \in Calls |-> None]
  /\ sent = [i \in Calls |-> None]
  /\ serving = [i \in Calls |-> "waiting"]
  /\ sender = [i \in Calls |-> [walk |-> NoWalk, out |-> <<>>]]
  /\ inline = [i \in Calls |-> NoInline]
  /\ wire = [i \in Calls |-> <<>>]
  /\ reading = [i \in Calls |-> "idle"]
  /\ reader = [i \in Calls |-> [walk |-> NoWalk, at |-> None]]

\* The program adds a block of its own.
ImportBytes(n) == \E e \in Library[n] :
  /\ e[2] \notin store[n] \/ hashes[n][e[1]] = None
  /\ AddAndPut(n, e[1], e[2])
  /\ UNCHANGED <<asked, sent, serverVars, wire, reading, reader>>

(* The server *)

\* The request is in and decodes; the walk begins.
HandleStream(i) ==
  /\ serving[i] = "waiting"
  /\ sent[i] # None
  /\ serving' = [serving EXCEPT ![i] = "walking"]
  /\ inline' = [inline EXCEPT ![i] = DecodeRequest(sent[i]).inline]
  /\ LET t == DecodeRequest(sent[i]).traversal
     IN sender' = [sender EXCEPT ![i] =
          IF t.sequence # None THEN [walk |-> NoWalk, out |-> t.sequence]
          ELSE [walk |-> Walk(t), out |-> <<>>]]
  /\ UNCHANGED <<tables, asked, sent, wire, reading, reader>>

\* Variation: the links go to the bottom of the stack.
TraverseBreadthFirst(i) ==
  LET w == sender[i].walk
      c == Head(w.stack)
  IN /\ serving[i] = "walking"
     /\ w.stack # <<>>
     /\ sender' = [sender EXCEPT ![i] =
          IF c \in w.seen THEN [walk |-> [w EXCEPT !.stack = Tail(w.stack)], out |-> @.out]
          ELSE [walk |-> [w EXCEPT !.seen = w.seen \cup {c},
                                   !.stack = Tail(w.stack) \o Follow(Server[i], c)],
                out |-> IF Includes(w.filter, c) THEN Append(@.out, c) ELSE @.out]]
     /\ UNCHANGED <<tables, asked, sent, serving, inline, wire, reading, reader>>

\* One round of fullTraversal's loop.
Traverse(i) ==
  LET w == sender[i].walk
      c == Head(w.stack)
  IN /\ serving[i] = "walking"
     /\ w.stack # <<>>
     /\ sender' = [sender EXCEPT ![i] =
          IF c \in w.seen THEN [walk |-> [w EXCEPT !.stack = Tail(w.stack)], out |-> @.out]
          ELSE [walk |-> [w EXCEPT !.seen = w.seen \cup {c},
                                   !.stack = Follow(Server[i], c) \o Tail(w.stack)],
                out |-> IF Includes(w.filter, c) THEN Append(@.out, c) ELSE @.out]]
     /\ UNCHANGED <<tables, asked, sent, serving, inline, wire, reading, reader>>

\* The item of the next CID.  A CID without a hash ends the response before
\* the item, a hash without its blob after the header.
WriteItem(i) ==
  LET c == Head(sender[i].out)
      h == hashes[Server[i]][c]
      data == Inlined(inline[i], c)
      has == h \in store[Server[i]]
  IN /\ serving[i] = "walking"
     /\ sender[i].walk.stack = <<>>
     /\ sender[i].out # <<>>
     /\ sender' = [sender EXCEPT ![i].out = Tail(@)]
     /\ wire' = [wire EXCEPT ![i] =
          IF h = None THEN @
          ELSE Append(@, IF data THEN DataHeader(h, has) ELSE HashHeader(h))]
     /\ serving' = [serving EXCEPT ![i] = IF h = None \/ (data /\ ~has) THEN "failed" ELSE @]
     /\ UNCHANGED <<tables, asked, sent, inline, reading, reader>>

\* The handler returns and closes the stream ...
Close(i) ==
  /\ serving[i] = "walking"
  /\ sender[i].walk.stack = <<>>
  /\ sender[i].out = <<>>
  /\ serving' = [serving EXCEPT ![i] = "done"]
  /\ UNCHANGED <<tables, asked, sent, sender, inline, wire, reading, reader>>

\* ... which it also does when it is stopped between two items.
Stop(i) ==
  /\ Server[i] \in Stopping
  /\ serving[i] = "walking"
  /\ sender[i].walk.stack = <<>>
  /\ sender[i].out # <<>>
  /\ serving' = [serving EXCEPT ![i] = "failed"]
  /\ UNCHANGED <<tables, asked, sent, sender, inline, wire, reading, reader>>

(* The client *)

\* A request that does not encode is not sent.
Sync(i) == \E r \in Requests[i] :
  /\ reading[i] = "idle"
  /\ asked' = [asked EXCEPT ![i] = r.traversal]
  /\ IF EncodeRequest(r) = Error
     THEN reading' = [reading EXCEPT ![i] = "error"] /\ UNCHANGED <<sent, reader>>
     ELSE /\ reading' = [reading EXCEPT ![i] = "reading"]
          /\ sent' = [sent EXCEPT ![i] = EncodeRequest(r)]
          /\ reader' = [reader EXCEPT ![i].walk = Walk(r.traversal)]
  /\ UNCHANGED <<tables, serverVars, wire>>

\* The reader may take a CID off its stack.
Looking(i) == reading[i] = "reading" /\ reader[i].at = None /\ reader[i].walk.stack # <<>>
Top(i) == Head(reader[i].walk.stack)
IsSeen(i) == reader[i].walk.deep /\ Top(i) \in reader[i].walk.seen

Taken(i) == [reader[i].walk EXCEPT !.stack = Tail(@), !.seen = @ \cup {Top(i)}]

Skip(i) ==
  /\ Looking(i)
  /\ IsSeen(i)
  /\ reader' = [reader EXCEPT ![i].walk = Taken(i)]
  /\ UNCHANGED <<tables, asked, sent, serverVars, wire, reading>>

\* A CID that the filter leaves out has no item, but its links are followed.
Pass(i) ==
  /\ Looking(i)
  /\ ~IsSeen(i)
  /\ ~Includes(reader[i].walk.filter, Top(i))
  /\ reader' = [reader EXCEPT ![i] = [walk |-> Taken(i), at |-> Top(i)]]
  /\ UNCHANGED <<tables, asked, sent, serverVars, wire, reading>>

Wanted(i) == Looking(i) /\ ~IsSeen(i) /\ Includes(reader[i].walk.filter, Top(i))

\* readOneResponse: a bare hash is recorded without links; a blob must be
\* complete and match the CID, and its links must be found.
ReadOneResponse(i) ==
  LET c == Top(i)
      item == Head(wire[i])
      good == item.data => item.blob /\ c.data = item.hash
  IN /\ Wanted(i)
     /\ wire[i] # <<>>
     /\ wire' = [wire EXCEPT ![i] = Tail(@)]
     /\ reader' = [reader EXCEPT ![i] = [walk |-> Taken(i), at |-> IF @.walk.deep THEN c ELSE None]]
     /\ IF ~good THEN UNCHANGED tables
        ELSE IF item.data THEN AddAndPut(Client[i], c, item.hash)
        ELSE Put(Client[i], c, item.hash, <<>>) /\ UNCHANGED store
     /\ reading' = [reading EXCEPT ![i] =
          IF ~good \/ (item.data /\ ExtractLinks(c, item.hash) = Error) THEN "error" ELSE @]
     /\ UNCHANGED <<asked, sent, serverVars>>

\* Variation: a handler that fails has left the stream open.
ReadEndOfWhole(i) ==
  /\ Wanted(i)
  /\ wire[i] = <<>>
  /\ serving[i] = "done"
  /\ reader' = [reader EXCEPT ![i] = [walk |-> Taken(i), at |-> IF @.walk.deep THEN Top(i) ELSE None]]
  /\ UNCHANGED <<tables, asked, sent, serverVars, wire, reading>>

\* The stream ends where a header should begin: there is nothing to record,
\* and no error.
ReadEnd(i) ==
  /\ Wanted(i)
  /\ wire[i] = <<>>
  /\ serving[i] \in {"done", "failed"}
  /\ reader' = [reader EXCEPT ![i] = [walk |-> Taken(i), at |-> IF @.walk.deep THEN Top(i) ELSE None]]
  /\ UNCHANGED <<tables, asked, sent, serverVars, wire, reading>>

\* The links come from the client's own tables, under another lock than the
\* one the item was recorded under.
Expand(i) ==
  /\ reading[i] = "reading"
  /\ reader[i].at # None
  /\ reader' = [reader EXCEPT ![i] =
       [walk |-> [@.walk EXCEPT !.stack = Follow(Client[i], reader[i].at) \o reader[i].walk.stack],
        at |-> None]]
  /\ UNCHANGED <<tables, asked, sent, serverVars, wire, reading>>

Return(i) ==
  /\ reading[i] = "reading"
  /\ reader[i].at = None
  /\ reader[i].walk.stack = <<>>
  /\ reading' = [reading EXCEPT ![i] = "ok"]
  /\ UNCHANGED <<tables, asked, sent, serverVars, wire, reader>>

\* The connection is lost, or the context ends.
Cut(i) ==
  /\ i \in Cutting
  /\ reading[i] = "reading"
  /\ reading' = [reading EXCEPT ![i] = "error"]
  /\ serving' = [serving EXCEPT ![i] = "failed"]
  /\ UNCHANGED <<tables, asked, sent, sender, inline, wire, reader>>

-----------------------------------------------------------------------------
ServerStep(i) == HandleStream(i) \/ Traverse(i) \/ WriteItem(i) \/ Close(i)
ClientStep(i) ==
  \/ Skip(i)
  \/ Pass(i)
  \/ ReadOneResponse(i)
  \/ ReadEnd(i)
  \/ Expand(i)
  \/ Return(i)

Next ==
  \/ \E n \in Nodes : ImportBytes(n)
  \/ \E i \in Calls : Sync(i) \/ ServerStep(i) \/ ClientStep(i) \/ Stop(i) \/ Cut(i)

Spec == Init /\ [][Next]_vars

\* The goroutines of both sides run; programs call and import as they please,
\* and nothing has to stop or to break.
Fairness == \A i \in Calls : WF_vars(ServerStep(i)) /\ WF_vars(ClientStep(i))
FairSpec == Spec /\ Fairness

-----------------------------------------------------------------------------
(* Properties *)

\* Everything is of its type, and a node has links for exactly the CIDs it
\* has a hash for, and finds each of those CIDs by the hash (Tables.Put keeps
\* three maps in step).
TypeOK ==
  /\ hashes \in [Nodes -> [Cids -> Data \cup {None}]]
  /\ store \in [Nodes -> SUBSET Data]
  /\ serving \in [Calls -> {"waiting", "walking", "done", "failed"}]
  /\ reading \in [Calls -> {"idle", "reading", "ok", "error"}]
  /\ \A i \in Calls : reader[i].at \in Cids \cup {None}
  /\ \A n \in Nodes, c \in Cids :
       /\ links[n][c] \in Seq(Cids) \cup {None}
       /\ (links[n][c] = None) = (hashes[n][c] = None)
       /\ hashes[n][c] # None => c \in revLinks[n][hashes[n][c]]

\* Unless its own program imported another block under the CID, a node's
\* tables give every CID the hash of its own block, however many syncs fill
\* them at once.  It takes servers that hold what they serve by bare hash
\* before they serve it, and DAG-CBOR items that carry their data: then the
\* two walks stay in step, and no item is recorded for another CID
\* (readFullSyncResponse takes the CIDs from its own tables, and a bare hash
\* carries nothing to check).
RecordsMatch == \A n \in Nodes, c \in Cids :
  hashes[n][c] \in {c.data, None} \cup {e[2] : e \in {l \in Library[n] : l[1] = c}}

\* What a client stores, beyond its program's own blocks, is the data of a CID
\* and recorded under that CID, where its links were found, whatever the server
\* has imported under it (the check of the multihash in readOneResponse).
StoresWhatItAskedFor == \A n \in Nodes : \A d \in store[n] :
  \/ \E e \in Library[n] : e[2] = d
  \/ \E c \in Cids : c.data = d /\ (c \in revLinks[n][d] \/ ExtractLinks(c, d) = Error)

\* What a node records and what it stores are right together.
TablesFit == RecordsMatch /\ StoresWhatItAskedFor

\* Where the server wrote its whole response and the client found no error in
\* it, the client has read all of it and recorded every CID that its walk
\* should have: it did not stop early, nor expect more (the two walks use
\* different tables, and one side's options went through the encoding).
InStep == \A i \in Calls : reading[i] = "ok" /\ serving[i] = "done" =>
  LET w == reader[i].walk
      asOf == IF asked[i].full # None THEN asked[i].full.visited ELSE {}
  IN /\ wire[i] = <<>>
     /\ \A c \in w.seen \ asOf : Includes(w.filter, c) => hashes[Client[i]][c] # None

\* Every call returns: the handler closes its stream whatever happens to it,
\* so nobody waits for an item that will not come (Accept's deferred Close).
CallsReturn == \A i \in Calls : reading[i] = "reading" ~> reading[i] # "reading"

=============================================================================
