--------------------------- MODULE DagsyncProofs ---------------------------
(***************************************************************************)
(* Proofs about Dagsync: the tables fit together, a client stores what it  *)
(* asked for, and, where servers hold what they serve, the walks of the    *)
(* two sides stay in step, so that no item is taken for another's; a       *)
(* client that asks for all data needs no such servers, and a call that    *)
(* reads is never without something to do.                                 *)
(***************************************************************************)
EXTENDS Dagsync, SequenceTheorems, TLAPS

Walks == [deep : BOOLEAN, stack : Seq(Cids), seen : SUBSET Cids, filter : Filters \cup {None}]
Senders == [walk : Walks, out : Seq(Cids)]
Readers == [walk : Walks, at : Cids \cup {None}]
Headers == [data : BOOLEAN, hash : Data, blob : BOOLEAN]

TablesTyped ==
  /\ hashes \in [Nodes -> [Cids -> Data \cup {None}]]
  /\ links \in [Nodes -> [Cids -> Seq(Cids) \cup {None}]]
  /\ revLinks \in [Nodes -> [Data -> SUBSET Cids]]
  /\ store \in [Nodes -> SUBSET Data]

Typed ==
  /\ TablesTyped
  /\ asked \in [Calls -> Traversals \cup {None}]
  /\ DOMAIN sent = Calls
  /\ serving \in [Calls -> {"waiting", "walking", "done", "failed"}]
  /\ sender \in [Calls -> Senders]
  /\ DOMAIN inline = Calls
  /\ wire \in [Calls -> Seq(Headers)]
  /\ reading \in [Calls -> {"idle", "reading", "ok", "error"}]
  /\ reader \in [Calls -> Readers]

(* What is in a stream is a call's request, encoded.                       *)
Requested(i) == sent[i] # None =>
  /\ reading[i] # "idle"
  /\ \E r \in Requests[i] :
       EncodeRequest(r) # Error /\ sent[i] = EncodeRequest(r) /\ asked[i] = r.traversal

(* The three maps of a node's tables are in step.                          *)
Linked == \A n \in Nodes, c \in Cids :
  /\ links[n][c] = None <=> hashes[n][c] = None
  /\ hashes[n][c] # None => c \in revLinks[n][hashes[n][c]]

TInv == Typed /\ (\A i \in Calls : Requested(i)) /\ Linked

-----------------------------------------------------------------------------
(* Encoding *)

LEMMA Atoms == /\ None \notin Data /\ None \notin Cids /\ None \notin Seq(Cids)
               /\ None \notin FullTraversals /\ None \notin Filters /\ None \notin SUBSET Codecs
               /\ Error \notin Seq(Cids) /\ Error # None
BY ConstantsAssumption

LEMMA RequestType ==
  ASSUME NEW i \in Calls, NEW r \in Requests[i]
  PROVE  r.traversal \in Traversals /\ r.inline \in Inlines
BY ConstantsAssumption

LEMMA DecodedFilter ==
  ASSUME NEW e
  PROVE  LET g == DecodeFilter(e) IN
         /\ g.all <=> e.tag = 0
         /\ g.noRaw <=> e.tag = 1
         /\ g.justRaw <=> e.tag = 2
         /\ g.exclude = IF e.tag = 3 THEN e.codecs ELSE None
         /\ g.exclude \in {None} \cup SUBSET Codecs => g \in Filters
<1> DEFINE all == e.tag = 0
           noRaw == e.tag = 1
           justRaw == e.tag = 2
           exclude == IF e.tag = 3 THEN e.codecs ELSE None
<1>1. DecodeFilter(e) = [all |-> all, noRaw |-> noRaw, justRaw |-> justRaw, exclude |-> exclude]
  BY DEF DecodeFilter
<1>2. all \in BOOLEAN /\ noRaw \in BOOLEAN /\ justRaw \in BOOLEAN OBVIOUS
<1>3. (all <=> e.tag = 0) /\ (noRaw <=> e.tag = 1) /\ (justRaw <=> e.tag = 2) OBVIOUS
<1> HIDE DEF all, noRaw, justRaw
<1> QED BY <1>1, <1>2, <1>3 DEF Filters

(* A filter takes the same CIDs after the encoding, and is of its type.    *)
LEMMA FilterEncoding ==
  ASSUME NEW f \in Filters, EncodeFilter(f) # Error
  PROVE  /\ DecodeFilter(EncodeFilter(f)) \in Filters
         /\ \A c : Includes(DecodeFilter(EncodeFilter(f)), c) <=> Includes(f, c)
<1> DEFINE e == EncodeFilter(f)
           g == DecodeFilter(e)
<1>0. /\ g.all <=> e.tag = 0
      /\ g.noRaw <=> e.tag = 1
      /\ g.justRaw <=> e.tag = 2
      /\ g.exclude = IF e.tag = 3 THEN e.codecs ELSE None
      /\ g.exclude \in {None} \cup SUBSET Codecs => g \in Filters
  BY DecodedFilter
<1>1. f.all => e.tag = 0 BY DEF EncodeFilter
<1>2. ~f.all /\ f.noRaw => e.tag = 1 BY DEF EncodeFilter
<1>3. ~f.all /\ ~f.noRaw /\ f.justRaw => e.tag = 2 BY DEF EncodeFilter
<1>4. ~f.all /\ ~f.noRaw /\ ~f.justRaw => e.tag = 3 /\ e.codecs = f.exclude /\ f.exclude # None
  BY DEF EncodeFilter
<1>5. f.exclude \in {None} \cup SUBSET Codecs BY DEF Filters
<1> HIDE DEF e, g
<1>6. g \in Filters
  <2>1. e.tag \in {0, 1, 2, 3} /\ (e.tag = 3 => e.codecs = f.exclude) BY <1>1, <1>2, <1>3, <1>4
  <2>2. g.exclude = f.exclude \/ g.exclude = None BY <1>0, <2>1
  <2>3. g.exclude \in {None} \cup SUBSET Codecs BY <1>5, <2>2
  <2> QED BY <1>0, <2>3
<1>7. f # None /\ g # None BY <1>6, Atoms
<1>8. ASSUME NEW c PROVE Includes(g, c) <=> Includes(f, c)
  BY <1>0, <1>1, <1>2, <1>3, <1>4, <1>7 DEF Includes
<1> QED BY <1>6, <1>8 DEF e, g

(* A request that encodes is what it was after the decoding: its sequence, *)
(* or its root and visited CIDs with a filter that takes the same.         *)
LEMMA RequestEncoding ==
  ASSUME NEW i \in Calls, NEW r \in Requests[i], EncodeRequest(r) # Error
  PROVE  LET t == DecodeRequest(EncodeRequest(r)).traversal IN
         \/ r.traversal.sequence # None /\ t.sequence = r.traversal.sequence
         \/ /\ r.traversal.sequence = None /\ t.sequence = None
            /\ r.traversal.full # None /\ t.full # None
            /\ t.full.root = r.traversal.full.root /\ t.full.visited = r.traversal.full.visited
            /\ t.full.filter \in Filters \cup {None}
            /\ \A c : Includes(t.full.filter, c) <=> Includes(r.traversal.full.filter, c)
<1> DEFINE u == r.traversal
           e == EncodeTraversal(u)
           q == EncodeRequest(r)
<1>1. u \in Traversals BY RequestType
<1>2. e # Error /\ q.traversal = e BY DEF EncodeRequest
<1>3. DecodeRequest(q).traversal = DecodeTraversal(e) BY <1>2 DEF DecodeRequest
<1>4. CASE u.sequence # None
  <2>1. e = [tag |-> 0, body |-> u.sequence] BY <1>4 DEF EncodeTraversal
  <2>2. DecodeTraversal(e) = [sequence |-> u.sequence, full |-> None] BY <2>1 DEF DecodeTraversal
  <2>3. DecodeTraversal(e).sequence = u.sequence BY <2>2
  <2> QED BY <1>3, <1>4, <2>3
<1>5. CASE u.sequence = None
  <2> DEFINE full == u.full
             f == IF full.filter = None THEN None ELSE EncodeFilter(full.filter)
             g == IF f = None THEN None ELSE DecodeFilter(f)
  <2>1. full # None /\ EncodeFull(full) # Error /\ e = [tag |-> 1, body |-> EncodeFull(full)]
    BY <1>2, <1>5 DEF EncodeTraversal
  <2>2. full \in FullTraversals BY <1>1, <2>1 DEF Traversals
  <2>3. EncodeFull(full) = [full EXCEPT !.filter = f] /\ f # Error BY <2>1 DEF EncodeFull
  <2>4. g \in Filters \cup {None} /\ \A c : Includes(g, c) <=> Includes(full.filter, c)
    <3>1. CASE full.filter = None BY <3>1
    <3>2. CASE full.filter # None
      <4>1. full.filter \in Filters BY <2>2, <3>2 DEF FullTraversals
      <4>2. f = EncodeFilter(full.filter) /\ f # None BY <3>2, <4>1, EncodingAssumption
      <4>3. g = DecodeFilter(EncodeFilter(full.filter)) BY <4>2
      <4> HIDE DEF g, f
      <4> QED BY <2>3, <4>1, <4>2, <4>3, FilterEncoding
    <3> QED BY <3>1, <3>2
  <2> HIDE DEF f
  <2>5. /\ EncodeFull(full).filter = f /\ EncodeFull(full).root = full.root
        /\ EncodeFull(full).visited = full.visited
        /\ DOMAIN EncodeFull(full) = {"root", "visited", "order", "filter"}
    BY <2>2, <2>3 DEF FullTraversals
  <2>6. DecodeTraversal(e) = [sequence |-> None, full |-> DecodeFull(EncodeFull(full))]
    BY <2>1 DEF DecodeTraversal
  <2>7. DecodeFull(EncodeFull(full)) = [EncodeFull(full) EXCEPT !.filter = g] BY <2>5 DEF DecodeFull
  <2> HIDE DEF g
  <2>8. /\ DecodeFull(EncodeFull(full)).filter = g
        /\ DecodeFull(EncodeFull(full)).root = full.root
        /\ DecodeFull(EncodeFull(full)).visited = full.visited
    BY <2>5, <2>7
  <2>9. DecodeFull(EncodeFull(full)) # None
    <3>1. EncodeFull(full) = [full EXCEPT !.filter = f] BY <2>3
    <3>2. DecodeFull(EncodeFull(full)) = [full EXCEPT !.filter = g] BY <2>2, <2>7, <3>1 DEF FullTraversals
    <3>3. DecodeFull(EncodeFull(full)) \in FullTraversals BY <2>2, <2>4, <3>2 DEF FullTraversals
    <3> QED BY <3>3, Atoms
  <2> QED BY <1>3, <1>5, <2>1, <2>4, <2>6, <2>8, <2>9
<1> QED BY <1>4, <1>5

-----------------------------------------------------------------------------
(* Tables *)

LEMMA LinksType ==
  ASSUME NEW c \in Cids, NEW d \in Data
  PROVE  ExtractLinks(c, d) \in {Error} \cup Seq(Cids)
BY ConstantsAssumption DEF ExtractLinks

LEMMA PutTyped ==
  ASSUME TablesTyped, Linked, NEW n \in Nodes, NEW c \in Cids, NEW h \in Data, NEW ls \in Seq(Cids),
         Put(n, c, h, ls), store' \in [Nodes -> SUBSET Data]
  PROVE  TablesTyped' /\ Linked'
<1>1. TablesTyped'
  <2>1. hashes' \in [Nodes -> [Cids -> Data \cup {None}]] BY DEF Put, TablesTyped
  <2>2. links' \in [Nodes -> [Cids -> Seq(Cids) \cup {None}]] BY DEF Put, TablesTyped
  <2>3. revLinks' \in [Nodes -> [Data -> SUBSET Cids]] BY DEF Put, TablesTyped
  <2> QED BY <2>1, <2>2, <2>3 DEF TablesTyped
<1>2. ASSUME NEW m \in Nodes, NEW b \in Cids
      PROVE  /\ links'[m][b] = None <=> hashes'[m][b] = None
             /\ hashes'[m][b] # None => b \in revLinks'[m][hashes'[m][b]]
  <2>1. hashes'[m][b] = IF m = n /\ b = c THEN h ELSE hashes[m][b] BY DEF Put, TablesTyped
  <2>2. links'[m][b] = IF m = n /\ b = c THEN ls ELSE links[m][b] BY DEF Put, TablesTyped
  <2>3. \A d \in Data : revLinks'[m][d] = IF m = n /\ d = h THEN revLinks[m][d] \cup {c} ELSE revLinks[m][d]
    BY DEF Put, TablesTyped
  <2>4. h # None /\ ls # None BY Atoms
  <2>5. hashes[m][b] # None => hashes[m][b] \in Data BY DEF TablesTyped
  <2>6. /\ links[m][b] = None <=> hashes[m][b] = None
        /\ hashes[m][b] # None => b \in revLinks[m][hashes[m][b]]
    BY DEF Linked
  <2>7. CASE m = n /\ b = c BY <2>1, <2>2, <2>3, <2>4, <2>7
  <2>8. CASE ~(m = n /\ b = c) BY <2>1, <2>2, <2>3, <2>5, <2>6, <2>8
  <2> QED BY <2>7, <2>8
<1> QED BY <1>1, <1>2 DEF Linked

LEMMA AddAndPutTyped ==
  ASSUME TablesTyped, Linked, NEW n \in Nodes, NEW c \in Cids, NEW d \in Data, AddAndPut(n, c, d)
  PROVE  TablesTyped' /\ Linked'
<1>1. store' \in [Nodes -> SUBSET Data] BY DEF AddAndPut, TablesTyped
<1>2. CASE ExtractLinks(c, d) = Error
  <2>1. UNCHANGED <<hashes, links, revLinks>> BY <1>2 DEF AddAndPut
  <2> QED BY <1>1, <2>1 DEF TablesTyped, Linked
<1>3. CASE ExtractLinks(c, d) # Error
  <2>1. ExtractLinks(c, d) \in Seq(Cids) BY <1>3, LinksType
  <2>2. Put(n, c, d, ExtractLinks(c, d)) BY <1>3 DEF AddAndPut
  <2> QED BY <1>1, <2>1, <2>2, PutTyped
<1> QED BY <1>2, <1>3

(* The next CID of a client's walk, and what is left of the walk.          *)
LEMMA LookingAt ==
  ASSUME Typed, NEW i \in Calls, Looking(i)
  PROVE  Top(i) \in Cids /\ Taken(i) \in Walks
<1>1. reader[i] \in Readers BY DEF Typed
<1>2. reader[i].walk \in Walks BY <1>1 DEF Readers
<1>3. reader[i].walk.stack \in Seq(Cids) /\ reader[i].walk.stack # <<>>
  BY <1>2 DEF Walks, Looking
<1>4. Top(i) \in Cids /\ Tail(reader[i].walk.stack) \in Seq(Cids) BY <1>3 DEF Top
<1> QED BY <1>2, <1>4 DEF Taken, Walks

(* What a step does to the tables: nothing, or an import, or the record of *)
(* one item that its client wants.                                         *)
LEMMA TableSteps ==
  ASSUME Typed, [Next]_vars
  PROVE  \/ UNCHANGED tables
         \/ \E n \in Nodes : \E e \in Library[n] : AddAndPut(n, e[1], e[2])
         \/ \E i \in Calls :
              /\ ReadOneResponse(i) /\ Top(i) \in Cids /\ Head(wire[i]) \in Headers
              /\ \/ Head(wire[i]).data /\ Top(i).data = Head(wire[i]).hash
                    /\ AddAndPut(Client[i], Top(i), Head(wire[i]).hash)
                 \/ ~Head(wire[i]).data /\ Put(Client[i], Top(i), Head(wire[i]).hash, <<>>)
                    /\ store' = store
<1>1. ASSUME NEW n \in Nodes, ImportBytes(n) PROVE \E e \in Library[n] : AddAndPut(n, e[1], e[2])
  BY <1>1 DEF ImportBytes
<1>2. ASSUME NEW i \in Calls, Sync(i) \/ ServerStep(i) \/ Stop(i) \/ Cut(i) PROVE UNCHANGED tables
  BY <1>2 DEF Sync, ServerStep, Stop, Cut, HandleStream, Traverse, WriteItem, Close
<1>3. ASSUME NEW i \in Calls, Skip(i) \/ Pass(i) \/ ReadEnd(i) \/ Expand(i) \/ Return(i)
      PROVE  UNCHANGED tables
  BY <1>3 DEF Skip, Pass, ReadEnd, Expand, Return
<1>4. ASSUME NEW i \in Calls, ReadOneResponse(i), ~(UNCHANGED tables)
      PROVE  /\ ReadOneResponse(i) /\ Top(i) \in Cids /\ Head(wire[i]) \in Headers
             /\ \/ Head(wire[i]).data /\ Top(i).data = Head(wire[i]).hash
                   /\ AddAndPut(Client[i], Top(i), Head(wire[i]).hash)
                \/ ~Head(wire[i]).data /\ Put(Client[i], Top(i), Head(wire[i]).hash, <<>>)
                   /\ store' = store
  <2>1. Looking(i) /\ wire[i] # <<>> BY <1>4 DEF ReadOneResponse, Wanted
  <2>2. Top(i) \in Cids BY <2>1, LookingAt
  <2>3. wire[i] \in Seq(Headers) BY DEF Typed
  <2>4. Head(wire[i]) \in Headers BY <2>1, <2>3
  <2> DEFINE item == Head(wire[i])
             good == item.data => item.blob /\ Top(i).data = item.hash
  <2>5. good BY <1>4 DEF ReadOneResponse
  <2>6. IF item.data THEN AddAndPut(Client[i], Top(i), item.hash)
        ELSE Put(Client[i], Top(i), item.hash, <<>>) /\ UNCHANGED store
    BY <1>4, <2>5 DEF ReadOneResponse
  <2> QED BY <1>4, <2>2, <2>4, <2>5, <2>6
<1>5. UNCHANGED vars => UNCHANGED tables BY DEF vars
<1> HIDE DEF tables
<1> QED BY <1>1, <1>2, <1>3, <1>4, <1>5 DEF Next, ClientStep

LEMMA TablesNext == Typed /\ Linked /\ [Next]_vars => TablesTyped' /\ Linked'
<1> SUFFICES ASSUME Typed, Linked, [Next]_vars PROVE TablesTyped' /\ Linked' OBVIOUS
<1>0. TablesTyped BY DEF Typed
<1>1. CASE UNCHANGED tables BY <1>0, <1>1 DEF tables, TablesTyped, Linked
<1>2. ASSUME NEW n \in Nodes, NEW e \in Library[n], AddAndPut(n, e[1], e[2])
      PROVE  TablesTyped' /\ Linked'
  <2>1. e[1] \in Cids /\ e[2] \in Data BY ConstantsAssumption
  <2> QED BY <1>0, <1>2, <2>1, AddAndPutTyped
<1>3. ASSUME NEW i \in Calls, NEW c \in Cids, NEW h \in Data, AddAndPut(Client[i], c, h)
      PROVE  TablesTyped' /\ Linked'
  <2>1. Client[i] \in Nodes BY ConstantsAssumption
  <2> QED BY <1>0, <1>3, <2>1, AddAndPutTyped
<1>4. ASSUME NEW i \in Calls, NEW c \in Cids, NEW h \in Data, Put(Client[i], c, h, <<>>), store' = store
      PROVE  TablesTyped' /\ Linked'
  <2>1. Client[i] \in Nodes BY ConstantsAssumption
  <2>2. <<>> \in Seq(Cids) /\ store' \in [Nodes -> SUBSET Data] BY <1>0, <1>4 DEF TablesTyped
  <2> QED BY <1>0, <1>4, <2>1, <2>2, PutTyped
<1>5. \A x \in Headers : x.hash \in Data BY DEF Headers
<1> HIDE DEF tables
<1> QED BY <1>1, <1>2, <1>3, <1>4, <1>5, TableSteps

-----------------------------------------------------------------------------
(* Types *)

LEMMA NoWalkType == NoWalk \in Walks /\ NoWalk.deep = FALSE /\ NoWalk.stack = <<>>
BY DEF NoWalk, Walks

LEMMA WalkType ==
  ASSUME NEW t, t.full # None \/ t.sequence \in Seq(Cids),
         t.full # None => /\ t.full.root \in Cids /\ t.full.visited \subseteq Cids
                          /\ t.full.filter \in Filters \cup {None}
  PROVE  /\ Walk(t) \in Walks
         /\ t.full = None => Walk(t).deep = FALSE /\ Walk(t).stack = t.sequence /\ Walk(t).filter = None
         /\ t.full # None => /\ Walk(t).deep = TRUE /\ Walk(t).stack = <<t.full.root>>
                             /\ Walk(t).seen = t.full.visited /\ Walk(t).filter = t.full.filter
<1>1. CASE t.full # None
  <2>1. <<t.full.root>> \in Seq(Cids) BY <1>1
  <2>2. Walk(t) = [deep |-> TRUE, stack |-> <<t.full.root>>, seen |-> t.full.visited, filter |-> t.full.filter]
    BY <1>1 DEF Walk
  <2> QED BY <1>1, <2>1, <2>2 DEF Walks
<1>2. CASE t.full = None
  <2>1. Walk(t) = [deep |-> FALSE, stack |-> t.sequence, seen |-> {}, filter |-> None]
    BY <1>2 DEF Walk, NoWalk
  <2> QED BY <1>2, <2>1 DEF Walks
<1> QED BY <1>1, <1>2

(* The walk of a client that may ask.                                      *)
LEMMA AskedWalk ==
  ASSUME NEW i \in Calls, NEW r \in Requests[i], EncodeRequest(r) # Error
  PROVE  LET t == r.traversal IN
         /\ t.full # None \/ t.sequence \in Seq(Cids)
         /\ t.full # None => /\ t.full.root \in Cids /\ t.full.visited \subseteq Cids
                             /\ t.full.filter \in Filters \cup {None}
<1>1. r.traversal \in Traversals BY RequestType
<1>2. r.traversal.sequence # None \/ r.traversal.full # None BY RequestEncoding
<1>3. r.traversal.full # None => r.traversal.full \in FullTraversals BY <1>1 DEF Traversals
<1>4. r.traversal.sequence # None => r.traversal.sequence \in Seq(Cids) BY <1>1 DEF Traversals
<1> QED BY <1>2, <1>3, <1>4 DEF FullTraversals

(* The walk of a handler that decoded a request.                           *)
LEMMA DecodedWalk ==
  ASSUME NEW i \in Calls, NEW r \in Requests[i], EncodeRequest(r) # Error
  PROVE  LET t == DecodeRequest(EncodeRequest(r)).traversal IN
         /\ t.sequence # None => t.sequence \in Seq(Cids)
         /\ t.sequence = None => /\ t.full # None /\ t.full.root \in Cids /\ t.full.visited \subseteq Cids
                                 /\ t.full.filter \in Filters \cup {None}
<1>1. r.traversal \in Traversals BY RequestType
<1>3. r.traversal.full # None => r.traversal.full \in FullTraversals BY <1>1 DEF Traversals
<1>4. r.traversal.sequence # None => r.traversal.sequence \in Seq(Cids) BY <1>1 DEF Traversals
<1> DEFINE t == DecodeRequest(EncodeRequest(r)).traversal
<1>5. \/ r.traversal.sequence # None /\ t.sequence = r.traversal.sequence
      \/ /\ r.traversal.sequence = None /\ t.sequence = None
         /\ r.traversal.full # None /\ t.full # None
         /\ t.full.root = r.traversal.full.root /\ t.full.visited = r.traversal.full.visited
         /\ t.full.filter \in Filters \cup {None}
  BY RequestEncoding
<1> HIDE DEF t
<1>6. /\ t.sequence # None => t.sequence \in Seq(Cids)
      /\ t.sequence = None => /\ t.full # None /\ t.full.root \in Cids /\ t.full.visited \subseteq Cids
                              /\ t.full.filter \in Filters \cup {None}
  <2>1. CASE r.traversal.sequence # None BY <1>4, <1>5, <2>1
  <2>2. CASE r.traversal.sequence = None BY <1>3, <1>5, <2>2 DEF FullTraversals
  <2> QED BY <2>1, <2>2
<1> QED BY <1>6 DEF t

LEMMA FollowType ==
  ASSUME TablesTyped, NEW n \in Nodes, NEW c \in Cids
  PROVE  Follow(n, c) \in Seq(Cids)
BY DEF TablesTyped, Follow

LEMMA TypesInit == Init => TInv
<1> SUFFICES ASSUME Init PROVE TInv OBVIOUS
<1>1. \A n \in Nodes : \A c \in Loaded[n] :
        c \in Cids /\ c.data \in Data /\ ExtractLinks(c, c.data) \in Seq(Cids)
  <2> SUFFICES ASSUME NEW n \in Nodes, NEW c \in Loaded[n]
               PROVE  c \in Cids /\ c.data \in Data /\ ExtractLinks(c, c.data) \in Seq(Cids)
    OBVIOUS
  <2>1. c \in Cids /\ c.data \in Data BY ConstantsAssumption
  <2>2. c.codec = "cbor" => Children[c.data] \in Seq(Cids) /\ Children[c.data] # None
    BY <2>1, ConstantsAssumption
  <2> QED BY <2>1, <2>2 DEF ExtractLinks
<1>2. TablesTyped
  <2>1. hashes \in [Nodes -> [Cids -> Data \cup {None}]] BY <1>1 DEF Init
  <2>2. links \in [Nodes -> [Cids -> Seq(Cids) \cup {None}]] BY <1>1 DEF Init
  <2>3. revLinks \in [Nodes -> [Data -> SUBSET Cids]] BY <1>1 DEF Init
  <2>4. store \in [Nodes -> SUBSET Data] BY <1>1 DEF Init
  <2> QED BY <2>1, <2>2, <2>3, <2>4 DEF TablesTyped
<1>3. Linked BY <1>1, Atoms DEF Init, Linked
<1>4. [walk |-> NoWalk, out |-> <<>>] \in Senders /\ [walk |-> NoWalk, at |-> None] \in Readers
  BY NoWalkType DEF Senders, Readers
<1>5. Typed BY <1>2, <1>4 DEF Init, Typed
<1>6. \A i \in Calls : Requested(i) BY DEF Init, Requested
<1> QED BY <1>3, <1>5, <1>6 DEF TInv

LEMMA TypedServer ==
  ASSUME TInv, NEW i \in Calls, ServerStep(i) \/ Stop(i) \/ Cut(i), TablesTyped'
  PROVE  Typed'
<1> USE DEF TInv
<1>0. Server[i] \in Nodes /\ sender[i] \in Senders /\ wire[i] \in Seq(Headers)
  BY ConstantsAssumption DEF Typed
<1>1. CASE HandleStream(i)
  <2>1. PICK r \in Requests[i] : EncodeRequest(r) # Error /\ sent[i] = EncodeRequest(r)
    BY <1>1 DEF HandleStream, Requested
  <2> DEFINE t == DecodeRequest(sent[i]).traversal
             s == IF t.sequence # None THEN [walk |-> NoWalk, out |-> t.sequence]
                  ELSE [walk |-> Walk(t), out |-> <<>>]
  <2>2. /\ t.sequence # None => t.sequence \in Seq(Cids)
        /\ t.sequence = None => /\ t.full # None /\ t.full.root \in Cids /\ t.full.visited \subseteq Cids
                                /\ t.full.filter \in Filters \cup {None}
    BY <2>1, DecodedWalk
  <2>3. sender' = [sender EXCEPT ![i] = s] BY <1>1 DEF HandleStream
  <2>4. s \in Senders
    <3> HIDE DEF t
    <3>1. t.sequence = None => Walk(t) \in Walks BY <2>2, WalkType
    <3> QED BY <2>2, <3>1, NoWalkType DEF Senders
  <2> HIDE DEF s
  <2> QED BY <1>1, <2>3, <2>4 DEF HandleStream, Typed
<1>2. CASE Traverse(i)
  <2> DEFINE w == sender[i].walk
             c == Head(w.stack)
             f == Follow(Server[i], c)
             out == IF Includes(w.filter, c) THEN Append(sender[i].out, c) ELSE sender[i].out
             s == IF c \in w.seen THEN [walk |-> [w EXCEPT !.stack = Tail(w.stack)], out |-> sender[i].out]
                  ELSE [walk |-> [w EXCEPT !.seen = w.seen \cup {c}, !.stack = f \o Tail(w.stack)], out |-> out]
  <2>1. w \in Walks /\ w.stack \in Seq(Cids) /\ w.stack # <<>> /\ sender[i].out \in Seq(Cids)
    BY <1>0, <1>2 DEF Senders, Walks, Traverse
  <2>2. c \in Cids /\ Tail(w.stack) \in Seq(Cids) BY <2>1
  <2>3. f \in Seq(Cids) BY <1>0, <2>2, FollowType DEF Typed
  <2>4. out \in Seq(Cids) BY <2>1, <2>2
  <2>5. sender' = [sender EXCEPT ![i] = s] BY <1>2 DEF Traverse
  <2>6. f \o Tail(w.stack) \in Seq(Cids) BY <2>2, <2>3
  <2> HIDE DEF f, out
  <2>7. s \in Senders BY <1>0, <2>1, <2>2, <2>4, <2>6 DEF Senders, Walks
  <2> HIDE DEF s
  <2> QED BY <1>2, <2>5, <2>7 DEF Traverse, Typed
<1>3. CASE WriteItem(i)
  <2> DEFINE c == Head(sender[i].out)
             h == hashes[Server[i]][c]
             data == Inlined(inline[i], c)
             has == h \in store[Server[i]]
             x == IF data THEN DataHeader(h, has) ELSE HashHeader(h)
  <2>1. sender[i].out \in Seq(Cids) /\ sender[i].out # <<>> /\ c \in Cids
    BY <1>0, <1>3 DEF Senders, WriteItem
  <2>2. h \in Data \cup {None} BY <1>0, <2>1 DEF Typed, TablesTyped
  <2>3. has \in BOOLEAN OBVIOUS
  <2>4. /\ sender' = [sender EXCEPT ![i].out = Tail(@)]
        /\ wire' = [wire EXCEPT ![i] = IF h = None THEN @ ELSE Append(@, x)]
        /\ \E v \in {"waiting", "walking", "done", "failed"} : serving' = [serving EXCEPT ![i] = v]
    <3>1. serving[i] \in {"waiting", "walking", "done", "failed"} BY DEF Typed
    <3> QED BY <1>3, <3>1 DEF WriteItem
  <2> HIDE DEF h, has, data, c
  <2>5. h # None => x \in Headers BY <2>2, <2>3 DEF Headers, DataHeader, HashHeader
  <2> HIDE DEF x
  <2>6. wire' \in [Calls -> Seq(Headers)] BY <1>0, <2>4, <2>5 DEF Typed
  <2>7. [sender[i] EXCEPT !.out = Tail(@)] \in Senders BY <1>0, <2>1 DEF Senders
  <2>8. sender' \in [Calls -> Senders] BY <2>4, <2>7 DEF Typed
  <2>9. serving' \in [Calls -> {"waiting", "walking", "done", "failed"}] BY <2>4 DEF Typed
  <2>10. UNCHANGED <<asked, sent, inline, reading, reader>> BY <1>3 DEF WriteItem
  <2> QED BY <2>6, <2>8, <2>9, <2>10 DEF Typed
<1>4. CASE Close(i) \/ Stop(i) \/ Cut(i)
  BY <1>4 DEF Close, Stop, Cut, Typed
<1> QED BY <1>1, <1>2, <1>3, <1>4 DEF ServerStep

LEMMA TypedClient ==
  ASSUME TInv, NEW i \in Calls, Sync(i) \/ ClientStep(i), TablesTyped'
  PROVE  Typed'
<1> USE DEF TInv
<1>0. Client[i] \in Nodes /\ reader[i] \in Readers /\ reader[i].walk \in Walks
      /\ reader[i].walk.stack \in Seq(Cids) /\ wire[i] \in Seq(Headers)
  BY ConstantsAssumption DEF Typed, Readers, Walks
<1>1. CASE Sync(i)
  <2>1. PICK r \in Requests[i] :
          /\ asked' = [asked EXCEPT ![i] = r.traversal]
          /\ IF EncodeRequest(r) = Error
             THEN reading' = [reading EXCEPT ![i] = "error"] /\ UNCHANGED <<sent, reader>>
             ELSE /\ reading' = [reading EXCEPT ![i] = "reading"]
                  /\ sent' = [sent EXCEPT ![i] = EncodeRequest(r)]
                  /\ reader' = [reader EXCEPT ![i].walk = Walk(r.traversal)]
          /\ UNCHANGED <<tables, serverVars, wire>>
    BY <1>1 DEF Sync
  <2>2. asked' \in [Calls -> Traversals \cup {None}] BY <2>1, RequestType DEF Typed
  <2>3. CASE EncodeRequest(r) = Error
    BY <2>1, <2>2, <2>3 DEF Typed, serverVars
  <2>4. CASE EncodeRequest(r) # Error
    <3>1. Walk(r.traversal) \in Walks BY <2>4, AskedWalk, WalkType
    <3>2. [reader[i] EXCEPT !.walk = Walk(r.traversal)] \in Readers BY <1>0, <3>1 DEF Readers
    <3>3. reader' \in [Calls -> Readers] BY <2>1, <2>4, <3>2 DEF Typed
    <3>4. reading' \in [Calls -> {"idle", "reading", "ok", "error"}] /\ DOMAIN sent' = Calls
      BY <2>1, <2>4 DEF Typed
    <3>5. UNCHANGED <<serving, sender, inline, wire>> BY <2>1 DEF serverVars
    <3> QED BY <2>2, <3>3, <3>4, <3>5 DEF Typed
  <2> QED BY <2>3, <2>4
<1>2. ASSUME NEW z \in Readers, reader' = [reader EXCEPT ![i] = z],
             wire' \in [Calls -> Seq(Headers)],
             reading' \in [Calls -> {"idle", "reading", "ok", "error"}],
             UNCHANGED <<asked, sent, serverVars>>
      PROVE  Typed'
  <2>1. reader' \in [Calls -> Readers] BY <1>2 DEF Typed
  <2>2. UNCHANGED <<asked, sent, serving, sender, inline>> BY <1>2 DEF serverVars
  <2> QED BY <1>2, <2>1, <2>2 DEF Typed
<1>3. CASE Skip(i)
  <2>1. Taken(i) \in Walks BY <1>3, LookingAt DEF Skip
  <2> DEFINE x == [reader[i] EXCEPT !.walk = Taken(i)]
  <2>2. x \in Readers BY <1>0, <2>1 DEF Readers
  <2>3. reader' = [reader EXCEPT ![i] = x] /\ UNCHANGED <<asked, sent, serverVars, wire, reading>>
    BY <1>3 DEF Skip
  <2> HIDE DEF x
  <2>4. /\ UNCHANGED <<asked, sent, serverVars>>
        /\ wire' \in [Calls -> Seq(Headers)]
        /\ reading' \in [Calls -> {"idle", "reading", "ok", "error"}]
    BY <2>3 DEF Typed
  <2> QED BY <1>2, <2>2, <2>3, <2>4
<1>4. CASE Pass(i)
  <2>1. Taken(i) \in Walks /\ Top(i) \in Cids BY <1>4, LookingAt DEF Pass
  <2> DEFINE x == [walk |-> Taken(i), at |-> Top(i)]
  <2>2. x \in Readers BY <2>1 DEF Readers
  <2>3. reader' = [reader EXCEPT ![i] = x] /\ UNCHANGED <<asked, sent, serverVars, wire, reading>>
    BY <1>4 DEF Pass
  <2> HIDE DEF x
  <2>4. /\ UNCHANGED <<asked, sent, serverVars>>
        /\ wire' \in [Calls -> Seq(Headers)]
        /\ reading' \in [Calls -> {"idle", "reading", "ok", "error"}]
    BY <2>3 DEF Typed
  <2> QED BY <1>2, <2>2, <2>3, <2>4
<1>5. CASE ReadOneResponse(i)
  <2>1. Taken(i) \in Walks /\ Top(i) \in Cids BY <1>5, LookingAt DEF ReadOneResponse, Wanted
  <2> DEFINE x == [walk |-> Taken(i), at |-> IF reader[i].walk.deep THEN Top(i) ELSE None]
  <2>2. x \in Readers BY <2>1 DEF Readers
  <2>3. /\ reader' = [reader EXCEPT ![i] = x]
        /\ wire' = [wire EXCEPT ![i] = Tail(@)] /\ wire[i] # <<>>
        /\ UNCHANGED <<asked, sent, serverVars>>
    BY <1>5 DEF ReadOneResponse
  <2>4. Tail(wire[i]) \in Seq(Headers) BY <1>0, <2>3
  <2>5. /\ reading' \in [Calls -> {"idle", "reading", "ok", "error"}]
        /\ wire' \in [Calls -> Seq(Headers)]
    BY <1>5, <2>3, <2>4 DEF ReadOneResponse, Typed
  <2> HIDE DEF x
  <2> QED BY <1>2, <2>2, <2>3, <2>5
<1>6. CASE ReadEnd(i)
  <2>1. Taken(i) \in Walks /\ Top(i) \in Cids BY <1>6, LookingAt DEF ReadEnd, Wanted
  <2> DEFINE x == [walk |-> Taken(i), at |-> IF reader[i].walk.deep THEN Top(i) ELSE None]
  <2>2. x \in Readers BY <2>1 DEF Readers
  <2>3. reader' = [reader EXCEPT ![i] = x] /\ UNCHANGED <<asked, sent, serverVars, wire, reading>>
    BY <1>6 DEF ReadEnd
  <2> HIDE DEF x
  <2>4. /\ UNCHANGED <<asked, sent, serverVars>>
        /\ wire' \in [Calls -> Seq(Headers)]
        /\ reading' \in [Calls -> {"idle", "reading", "ok", "error"}]
    BY <2>3 DEF Typed
  <2> QED BY <1>2, <2>2, <2>3, <2>4
<1>7. CASE Expand(i)
  <2>1. reader[i].at \in Cids BY <1>0, <1>7 DEF Expand, Readers
  <2>2. Follow(Client[i], reader[i].at) \in Seq(Cids) BY <1>0, <2>1, FollowType DEF Typed
  <2> DEFINE y == [reader[i].walk EXCEPT !.stack = Follow(Client[i], reader[i].at) \o @]
             x == [walk |-> y, at |-> None]
  <2>3. Follow(Client[i], reader[i].at) \o reader[i].walk.stack \in Seq(Cids) BY <1>0, <2>2
  <2>4. x \in Readers BY <1>0, <2>3 DEF Readers, Walks
  <2>5. reader' = [reader EXCEPT ![i] =
          [walk |-> [@.walk EXCEPT !.stack = Follow(Client[i], reader[i].at) \o reader[i].walk.stack],
           at |-> None]]
    BY <1>7 DEF Expand
  <2>6. reader' = [reader EXCEPT ![i] = x] BY <2>5
  <2>7. UNCHANGED <<asked, sent, serverVars, wire, reading>> BY <1>7 DEF Expand
  <2> HIDE DEF x
  <2>8. /\ UNCHANGED <<asked, sent, serverVars>>
        /\ wire' \in [Calls -> Seq(Headers)]
        /\ reading' \in [Calls -> {"idle", "reading", "ok", "error"}]
    BY <2>7 DEF Typed
  <2> QED BY <1>2, <2>4, <2>6, <2>8
<1>8. CASE Return(i)
  BY <1>8 DEF Return, Typed, serverVars
<1> QED BY <1>1, <1>3, <1>4, <1>5, <1>6, <1>7, <1>8 DEF ClientStep

LEMMA RequestedNext ==
  ASSUME Typed, \A i \in Calls : Requested(i), [Next]_vars, NEW i \in Calls
  PROVE  Requested(i)'
<1>1. ASSUME NEW j \in Calls, Sync(j) PROVE Requested(i)'
  <2>1. PICK r \in Requests[j] :
          /\ reading[j] = "idle"
          /\ asked' = [asked EXCEPT ![j] = r.traversal]
          /\ IF EncodeRequest(r) = Error
             THEN reading' = [reading EXCEPT ![j] = "error"] /\ UNCHANGED <<sent, reader>>
             ELSE /\ reading' = [reading EXCEPT ![j] = "reading"]
                  /\ sent' = [sent EXCEPT ![j] = EncodeRequest(r)]
                  /\ reader' = [reader EXCEPT ![j].walk = Walk(r.traversal)]
    BY <1>1 DEF Sync
  <2>2. CASE i # j
    <3>1. asked'[i] = asked[i] /\ sent'[i] = sent[i] /\ reading'[i] = reading[i]
      BY <2>1, <2>2 DEF Typed
    <3> QED BY <3>1 DEF Requested
  <2>3. CASE i = j /\ EncodeRequest(r) = Error
    <3>1. sent'[i] = sent[i] /\ sent[i] = None BY <2>1, <2>3 DEF Requested
    <3> QED BY <3>1 DEF Requested
  <2>4. CASE i = j /\ EncodeRequest(r) # Error
    <3>1. asked'[i] = r.traversal /\ sent'[i] = EncodeRequest(r) /\ reading'[i] = "reading"
      BY <2>1, <2>4 DEF Typed
    <3> QED BY <2>4, <3>1 DEF Requested
  <2> QED BY <2>2, <2>3, <2>4
<1>2. ASSUME asked' = asked, sent' = sent, reading[i] # "idle" => reading'[i] # "idle"
      PROVE  Requested(i)'
  BY <1>2 DEF Requested
<1>3. ASSUME NEW n \in Nodes, ImportBytes(n) PROVE Requested(i)'
  BY <1>2, <1>3 DEF ImportBytes
<1>4. ASSUME NEW j \in Calls, ServerStep(j) \/ Stop(j) \/ Cut(j) PROVE Requested(i)'
  <2>1. asked' = asked /\ sent' = sent
    BY <1>4 DEF ServerStep, HandleStream, Traverse, WriteItem, Close, Stop, Cut
  <2>2. reading' = reading \/ reading' = [reading EXCEPT ![j] = "error"]
    BY <1>4 DEF ServerStep, HandleStream, Traverse, WriteItem, Close, Stop, Cut
  <2>3. reading[i] # "idle" => reading'[i] # "idle" BY <2>2 DEF Typed
  <2> QED BY <1>2, <2>1, <2>3
<1>5. ASSUME NEW j \in Calls, ClientStep(j) PROVE Requested(i)'
  <2>1. asked' = asked /\ sent' = sent
    BY <1>5 DEF ClientStep, Skip, Pass, ReadOneResponse, ReadEnd, Expand, Return
  <2>2. reading' = reading \/ reading' = [reading EXCEPT ![j] = "error"]
        \/ reading' = [reading EXCEPT ![j] = "ok"]
    <3>1. ReadOneResponse(j) => reading' = reading \/ reading' = [reading EXCEPT ![j] = "error"]
      BY DEF ReadOneResponse, Typed
    <3> QED BY <1>5, <3>1 DEF ClientStep, Skip, Pass, ReadEnd, Expand, Return
  <2>3. reading[i] # "idle" => reading'[i] # "idle" BY <2>2 DEF Typed
  <2> QED BY <1>2, <2>1, <2>3
<1>6. UNCHANGED vars => Requested(i)' BY <1>2 DEF vars
<1> QED BY <1>1, <1>3, <1>4, <1>5, <1>6 DEF Next

LEMMA TypesNext == TInv /\ [Next]_vars => TInv'
<1> SUFFICES ASSUME TInv, [Next]_vars PROVE TInv' OBVIOUS
<1>1. TablesTyped' /\ Linked' BY TablesNext DEF TInv
<1>2. Typed'
  <2>1. ASSUME NEW n \in Nodes, ImportBytes(n) PROVE Typed'
    BY <1>1, <2>1 DEF ImportBytes, TInv, Typed, serverVars
  <2>2. UNCHANGED vars => Typed' BY <1>1 DEF TInv, Typed, vars, serverVars
  <2> QED BY <1>1, <2>1, <2>2, TypedServer, TypedClient DEF Next
<1>3. \A i \in Calls : Requested(i)' BY RequestedNext DEF TInv
<1> QED BY <1>1, <1>2, <1>3 DEF TInv

(* Every table, stream and walk is of its type, and the three maps of a    *)
(* node's tables are in step, in every reachable state.                    *)
THEOREM TypesInductive == Spec => []TInv
BY TypesInit, TypesNext, PTL DEF Spec

(* A node has links for exactly the CIDs it has a hash for, and finds each *)
(* of them by its hash (Tables.Put).                                       *)
THEOREM Types == Spec => []TypeOK
<1>1. TInv => TypeOK
  <2> SUFFICES ASSUME TInv PROVE TypeOK OBVIOUS
  <2>1. \A i \in Calls : reader[i].at \in Cids \cup {None} BY DEF TInv, Typed, Readers
  <2>2. \A n \in Nodes, c \in Cids :
          /\ links[n][c] \in Seq(Cids) \cup {None}
          /\ (links[n][c] = None) = (hashes[n][c] = None)
          /\ hashes[n][c] # None => c \in revLinks[n][hashes[n][c]]
    BY DEF TInv, Typed, TablesTyped, Linked
  <2> QED BY <2>1, <2>2 DEF TInv, Typed, TablesTyped, TypeOK
<1> QED BY <1>1, TypesInductive, PTL

-----------------------------------------------------------------------------
(* What a client stores *)

LEMMA StoresStay ==
  ASSUME TInv, StoresWhatItAskedFor, NEW n \in Nodes, NEW c \in Cids, NEW d \in Data,
         AddAndPut(n, c, d), c.data = d \/ <<c, d>> \in Library[n]
  PROVE  StoresWhatItAskedFor'
<1>0. revLinks \in [Nodes -> [Data -> SUBSET Cids]] /\ store \in [Nodes -> SUBSET Data]
  BY DEF TInv, Typed, TablesTyped
<1>1. \A m \in Nodes : store'[m] = IF m = n THEN store[m] \cup {d} ELSE store[m]
  BY <1>0 DEF AddAndPut
<1>2. \A m \in Nodes, x \in Data : revLinks[m][x] \subseteq revLinks'[m][x]
  <2>1. revLinks' = revLinks \/ revLinks' = [revLinks EXCEPT ![n][d] = @ \cup {c}]
    BY DEF AddAndPut, Put
  <2> QED BY <1>0, <2>1
<1>3. ASSUME ExtractLinks(c, d) # Error PROVE c \in revLinks'[n][d]
  <2>1. revLinks' = [revLinks EXCEPT ![n][d] = @ \cup {c}] BY <1>3 DEF AddAndPut, Put
  <2> QED BY <1>0, <2>1
<1> SUFFICES ASSUME NEW m \in Nodes, NEW x \in store'[m]
             PROVE  \/ \E e \in Library[m] : e[2] = x
                    \/ \E b \in Cids : b.data = x /\ (b \in revLinks'[m][x] \/ ExtractLinks(b, x) = Error)
  BY DEF StoresWhatItAskedFor, ExtractLinks
<1>4. CASE x \in store[m]
  <2>1. x \in Data BY <1>0, <1>4
  <2> QED BY <1>2, <1>4, <2>1 DEF StoresWhatItAskedFor
<1>5. CASE x \notin store[m]
  <2>1. m = n /\ x = d BY <1>1, <1>5
  <2>2. CASE c.data = d BY <1>3, <2>1, <2>2
  <2>3. CASE <<c, d>> \in Library[n]
    <3>1. <<c, d>>[2] = d OBVIOUS
    <3> QED BY <2>1, <2>3, <3>1
  <2> QED BY <2>2, <2>3
<1> QED BY <1>4, <1>5

LEMMA PutStores ==
  ASSUME TInv, StoresWhatItAskedFor, NEW n \in Nodes, NEW c \in Cids, NEW h \in Data,
         Put(n, c, h, <<>>), store' = store
  PROVE  StoresWhatItAskedFor'
<1>1. \A m \in Nodes, x \in Data : revLinks[m][x] \subseteq revLinks'[m][x]
  BY DEF Put, TInv, Typed, TablesTyped
<1>2. \A m \in Nodes : store[m] \subseteq Data BY DEF TInv, Typed, TablesTyped
<1> QED BY <1>1, <1>2 DEF StoresWhatItAskedFor, ExtractLinks

(* Beyond its program's own blocks, a client stores only the data of a CID *)
(* that it recorded under that CID, whatever a server has under it, unless *)
(* the block's links could not be extracted (readOneResponse checks the    *)
(* multihash).                                                             *)
THEOREM StoresAskedFor == Spec => []StoresWhatItAskedFor
<1>1. Init => StoresWhatItAskedFor
  <2> SUFFICES ASSUME Init, NEW n \in Nodes, NEW d \in store[n]
               PROVE  \E c \in Cids : c.data = d /\ c \in revLinks[n][d]
    BY DEF StoresWhatItAskedFor
  <2>1. PICK c \in Loaded[n] : c.data = d BY DEF Init
  <2>2. c \in Cids /\ d \in Data BY <2>1, ConstantsAssumption
  <2>3. c \in revLinks[n][d] BY <2>1, <2>2 DEF Init
  <2> QED BY <2>1, <2>2, <2>3
<1>2. TInv /\ StoresWhatItAskedFor /\ [Next]_vars => StoresWhatItAskedFor'
  <2> SUFFICES ASSUME TInv, StoresWhatItAskedFor, [Next]_vars PROVE StoresWhatItAskedFor' OBVIOUS
  <2>1. UNCHANGED tables => StoresWhatItAskedFor' BY DEF tables, StoresWhatItAskedFor, ExtractLinks
  <2>2. ASSUME NEW n \in Nodes, NEW e \in Library[n], AddAndPut(n, e[1], e[2]) PROVE StoresWhatItAskedFor'
    <3>1. e[1] \in Cids /\ e[2] \in Data /\ e = <<e[1], e[2]>> BY ConstantsAssumption
    <3> QED BY <2>2, <3>1, StoresStay
  <2>3. ASSUME NEW i \in Calls, NEW c \in Cids, NEW x \in Headers,
               \/ x.data /\ c.data = x.hash /\ AddAndPut(Client[i], c, x.hash)
               \/ ~x.data /\ Put(Client[i], c, x.hash, <<>>) /\ store' = store
        PROVE  StoresWhatItAskedFor'
    <3>1. Client[i] \in Nodes /\ x.hash \in Data BY ConstantsAssumption DEF Headers
    <3>2. CASE AddAndPut(Client[i], c, x.hash) /\ c.data = x.hash BY <3>1, <3>2, StoresStay
    <3>3. CASE Put(Client[i], c, x.hash, <<>>) /\ store' = store BY <3>1, <3>3, PutStores
    <3> QED BY <2>3, <3>2, <3>3
  <2> HIDE DEF tables
  <2> QED BY <2>1, <2>2, <2>3, TableSteps DEF TInv
<1> QED BY <1>1, <1>2, TypesInductive, PTL DEF Spec

-----------------------------------------------------------------------------
(* When the two walks stay in step.  A node holds a CID when it has loaded *)
(* it, if it has links, and holds all that it links to.                    *)

Ref(c) == IF c.codec = "cbor" THEN Children[c.data] ELSE <<>>

Closed(n, S) == \A c \in S : c.codec = "cbor" =>
  c \in Loaded[n] /\ \A k \in 1 .. Len(Children[c.data]) : Children[c.data][k] \in S
Holds(n, c) == \E S \in SUBSET Cids : Closed(n, S) /\ c \in S
Held(n) == {c \in Cids : Holds(n, c)}

(* A careful request is of a root that the server holds, leaves out no     *)
(* DAG-CBOR, has all of it carry its data, and takes bare hashes only from *)
(* a server whose program imports no other block under a CID.              *)
CarefulRequest(i, r) ==
  LET t == r.traversal
      o == DecodeRequest(EncodeRequest(r)).inline
  IN /\ t.full # None =>
          /\ t.sequence = None
          /\ Holds(Server[i], t.full.root)
          /\ \A c \in Cids : c.codec = "cbor" => Includes(t.full.filter, c)
     /\ \A c \in Cids : c.codec = "cbor" => Inlined(o, c)
     /\ \/ \A c \in Cids : Inlined(o, c)
        \/ \A e \in Library[Server[i]] : e[2] = e[1].data

(* Programs import under a DAG-CBOR CID no other block that decodes.       *)
Careful ==
  /\ \A n \in Nodes : \A e \in Library[n] :
       e[1].codec = "cbor" => e[2] = e[1].data \/ Children[e[2]] = None
  /\ \A i \in Calls : \A r \in Requests[i] : EncodeRequest(r) # Error => CarefulRequest(i, r)

(* Links are those of a CID's own block, and what was loaded stays.        *)
LinksMatch ==
  /\ \A n \in Nodes, c \in Cids : links[n][c] \in {None, Ref(c)}
  /\ \A n \in Nodes : \A c \in Loaded[n] : links[n][c] # None

-----------------------------------------------------------------------------
(* Runs.  A walk of a traversal g over what node n holds goes through      *)
(* positions: a stack, the CIDs seen, and the CIDs put out so far.  What   *)
(* it puts out at an earlier position is a prefix of what it puts out at a *)
(* later one.                                                              *)

Positions(n) == [stack : Seq(Held(n)), seen : SUBSET Cids, out : Seq(Cids)]
Beginning(g) == [stack |-> <<g.root>>, seen |-> g.visited, out |-> <<>>]

StepOf(f, p) ==
  LET c == Head(p.stack)
  IN IF c \in p.seen THEN [p EXCEPT !.stack = Tail(p.stack)]
     ELSE [stack |-> Ref(c) \o Tail(p.stack), seen |-> p.seen \cup {c},
           out |-> IF Includes(f, c) THEN Append(p.out, c) ELSE p.out]

Agree(s, t) == \A m \in 1 .. Len(s) : m <= Len(t) => s[m] = t[m]

IsRun(n, g, run) ==
  /\ run \in Seq(Positions(n))
  /\ run # <<>>
  /\ run[1] = Beginning(g)
  /\ \A k \in 1 .. Len(run) : k # Len(run) =>
       run[k].stack # <<>> /\ run[k + 1] = StepOf(g.filter, run[k])
  /\ \A j, k \in 1 .. Len(run) :
       Agree(run[j].out, run[k].out) /\ (j <= k => Len(run[j].out) <= Len(run[k].out))

LEMMA HeldLinks ==
  ASSUME NEW n \in Nodes, NEW c \in Held(n)
  PROVE  /\ c \in Cids /\ Ref(c) \in Seq(Held(n))
         /\ c.codec = "cbor" => c \in Loaded[n]
<1>1. c \in Cids /\ Holds(n, c) BY DEF Held
<1>2. PICK S \in SUBSET Cids : Closed(n, S) /\ c \in S BY <1>1 DEF Holds
<1>3. CASE c.codec = "cbor"
  <2>1. c \in Loaded[n] /\ \A k \in 1 .. Len(Children[c.data]) : Children[c.data][k] \in S
    BY <1>2, <1>3 DEF Closed
  <2>2. Children[c.data] \in Seq(Cids) BY <1>1, <1>3, <2>1, ConstantsAssumption
  <2>3. S \subseteq Held(n) BY <1>2 DEF Held, Holds
  <2>4. Children[c.data] \in Seq(Held(n))
    <3> DEFINE ls == Children[c.data]
    <3>1. \A k \in 1 .. Len(ls) : ls[k] \in Held(n) BY <2>1, <2>3
    <3>2. SubSeq(ls, 1, Len(ls)) \in Seq(Held(n))
      <4> HIDE DEF ls
      <4>1. Len(ls) \in Int BY <2>2 DEF ls
      <4> QED BY <3>1, <4>1, SubSeqProperties
    <3>3. SubSeq(ls, 1, Len(ls)) = ls BY <2>2, SubSeqFull
    <3> QED BY <3>2, <3>3
  <2> QED BY <1>1, <1>3, <2>1, <2>4 DEF Ref
<1>4. CASE c.codec # "cbor" BY <1>1, <1>4, EmptySeq DEF Ref
<1> QED BY <1>3, <1>4

LEMMA StepType ==
  ASSUME NEW n \in Nodes, NEW f, NEW p \in Positions(n), p.stack # <<>>
  PROVE  /\ StepOf(f, p) \in Positions(n)
         /\ Head(p.stack) \in Held(n) /\ Head(p.stack) \in Cids /\ Tail(p.stack) \in Seq(Held(n))
         /\ StepOf(f, p).out = p.out \/ StepOf(f, p).out = Append(p.out, Head(p.stack))
<1> DEFINE c == Head(p.stack)
           t == Tail(p.stack)
<1>1. p.stack \in Seq(Held(n)) /\ p.seen \subseteq Cids /\ p.out \in Seq(Cids) BY DEF Positions
<1>2. c \in Held(n) /\ t \in Seq(Held(n)) BY <1>1, HeadTailProperties
<1>3. c \in Cids /\ Ref(c) \in Seq(Held(n)) BY <1>2, HeldLinks
<1> HIDE DEF c, t
<1>4. Ref(c) \o t \in Seq(Held(n)) BY <1>2, <1>3, ConcatProperties
<1>5. Append(p.out, c) \in Seq(Cids) BY <1>1, <1>3, AppendProperties
<1>6. StepOf(f, p) = IF c \in p.seen THEN [p EXCEPT !.stack = t]
        ELSE [stack |-> Ref(c) \o t, seen |-> p.seen \cup {c},
              out |-> IF Includes(f, c) THEN Append(p.out, c) ELSE p.out]
  BY DEF StepOf, c, t
<1>7. CASE c \in p.seen
  <2>1. StepOf(f, p) = [p EXCEPT !.stack = t] BY <1>6, <1>7
  <2>2. StepOf(f, p) \in Positions(n) /\ StepOf(f, p).out = p.out BY <1>2, <2>1 DEF Positions
  <2> QED BY <1>2, <1>3, <2>2 DEF c, t
<1>8. CASE c \notin p.seen
  <2> DEFINE o == IF Includes(f, c) THEN Append(p.out, c) ELSE p.out
  <2>1. o \in Seq(Cids) /\ (o = p.out \/ o = Append(p.out, c)) BY <1>1, <1>5
  <2>2. StepOf(f, p) = [stack |-> Ref(c) \o t, seen |-> p.seen \cup {c}, out |-> o] BY <1>6, <1>8
  <2> HIDE DEF o
  <2>3. StepOf(f, p) \in Positions(n) /\ StepOf(f, p).out = o BY <1>1, <1>3, <1>4, <2>1, <2>2 DEF Positions
  <2> QED BY <1>2, <1>3, <2>1, <2>3 DEF c, t
<1> QED BY <1>7, <1>8

(* From every position with something on the stack the walk goes on.       *)
LEMMA Advance ==
  ASSUME NEW n \in Nodes, NEW g, NEW run, IsRun(n, g, run),
         NEW j \in 1 .. Len(run), run[j].stack # <<>>
  PROVE  \E longer :
           /\ IsRun(n, g, longer)
           /\ Len(run) <= Len(longer) /\ \A k \in 1 .. Len(run) : longer[k] = run[k]
           /\ j + 1 \in 1 .. Len(longer)
           /\ longer[j + 1] = StepOf(g.filter, run[j])
<1>0. run \in Seq(Positions(n)) /\ Len(run) \in Nat BY DEF IsRun
<1>1. CASE j # Len(run)
  <2>1. run[j + 1] = StepOf(g.filter, run[j]) BY <1>1 DEF IsRun
  <2>2. j + 1 \in 1 .. Len(run) BY <1>0, <1>1
  <2> QED BY <1>0, <2>1, <2>2
<1>2. CASE j = Len(run)
  <2> DEFINE q == StepOf(g.filter, run[j])
             longer == Append(run, q)
  <2>1. run[j] \in Positions(n) BY <1>0
  <2>2. q \in Positions(n) /\ (q.out = run[j].out \/ q.out = Append(run[j].out, Head(run[j].stack)))
        /\ Head(run[j].stack) \in Cids
    BY <2>1, StepType
  <2>3. ASSUME NEW k \in 1 .. Len(run) PROVE run[k] \in Positions(n) /\ run[k].out \in Seq(Cids)
    <3>1. run[k] \in Positions(n) BY <1>0
    <3> QED BY <3>1 DEF Positions
  <2> DEFINE last == run[j].out
  <2>4. last \in Seq(Cids) /\ q.out \in Seq(Cids) BY <2>2, <2>3 DEF Positions
  <2>5. Agree(last, q.out) /\ Agree(q.out, last) /\ Len(last) <= Len(q.out)
        /\ \A m \in 1 .. Len(last) : q.out[m] = last[m]
    <3>1. CASE q.out = last BY <2>4, <3>1 DEF Agree
    <3>2. CASE q.out = Append(last, Head(run[j].stack))
      <4> DEFINE c == Head(run[j].stack)
                 o == q.out
      <4>1. o = Append(last, c) BY <3>2
      <4> HIDE DEF o, c, last
      <4>2. Len(o) = Len(last) + 1 /\ \A m \in 1 .. Len(last) : o[m] = last[m] BY <2>2, <2>4, <4>1 DEF c
      <4>3. Len(last) \in Nat BY <2>4
      <4>4. Agree(last, o) /\ Agree(o, last) /\ Len(last) <= Len(o) BY <4>2, <4>3 DEF Agree
      <4> QED BY <4>2, <4>4 DEF o, last
    <3> QED BY <2>2, <3>1, <3>2
  <2> HIDE DEF q
  <2>6. longer \in Seq(Positions(n)) /\ Len(longer) = Len(run) + 1 /\ longer[Len(run) + 1] = q
        /\ \A k \in 1 .. Len(run) : longer[k] = run[k]
    BY <1>0, <2>2
  <2> HIDE DEF longer
  <2>7. ASSUME NEW k \in 1 .. Len(run)
        PROVE  Agree(run[k].out, q.out) /\ Agree(q.out, run[k].out) /\ Len(run[k].out) <= Len(q.out)
    <3> DEFINE o == run[k].out
    <3>1. Agree(o, last) /\ Agree(last, o) /\ Len(o) <= Len(last) BY <1>0, <1>2 DEF IsRun
    <3>2. o \in Seq(Cids) BY <2>3
    <3> HIDE DEF o, last
    <3>3. Len(o) \in Nat /\ Len(last) \in Nat /\ Len(q.out) \in Nat BY <2>4, <3>2
    <3>4. Len(o) <= Len(q.out) BY <2>5, <3>1, <3>3
    <3>5. \A m \in 1 .. Len(o) : o[m] = q.out[m] BY <2>5, <3>1, <3>3 DEF Agree
    <3> QED BY <3>3, <3>4, <3>5 DEF Agree, o
  <2>8. IsRun(n, g, longer)
    <3>1. longer # <<>> /\ longer[1] = Beginning(g) BY <1>0, <2>6 DEF IsRun
    <3>2. ASSUME NEW k \in 1 .. Len(longer), k # Len(longer)
          PROVE  longer[k].stack # <<>> /\ longer[k + 1] = StepOf(g.filter, longer[k])
      <4>1. k \in 1 .. Len(run) BY <1>0, <2>6, <3>2
      <4>2. CASE k = Len(run) BY <1>2, <2>6, <4>1, <4>2 DEF q
      <4>3. CASE k # Len(run)
        <5>1. k + 1 \in 1 .. Len(run) BY <1>0, <4>1, <4>3
        <5> QED BY <2>6, <4>1, <4>3, <5>1 DEF IsRun
      <4> QED BY <4>2, <4>3
    <3>3. ASSUME NEW a \in 1 .. Len(longer), NEW b \in 1 .. Len(longer)
          PROVE  /\ Agree(longer[a].out, longer[b].out)
                 /\ a <= b => Len(longer[a].out) <= Len(longer[b].out)
      <4>1. CASE a \in 1 .. Len(run) /\ b \in 1 .. Len(run) BY <2>6, <4>1 DEF IsRun
      <4>2. CASE a \in 1 .. Len(run) /\ b = Len(run) + 1 BY <2>6, <2>7, <4>2
      <4>3. CASE a = Len(run) + 1 /\ b \in 1 .. Len(run) BY <1>0, <2>6, <2>7, <4>3
      <4>4. CASE a = Len(run) + 1 /\ b = Len(run) + 1
        <5>1. Len(q.out) \in Nat BY <2>4
        <5> QED BY <2>6, <4>4, <5>1 DEF Agree
      <4> QED BY <1>0, <2>6, <4>1, <4>2, <4>3, <4>4
    <3> QED BY <2>6, <3>1, <3>2, <3>3 DEF IsRun
  <2>9. Len(run) <= Len(longer) /\ j + 1 \in 1 .. Len(longer) BY <1>0, <1>2, <2>6
  <2>10. longer[j + 1] = StepOf(g.filter, run[j]) BY <1>2, <2>6 DEF q
  <2> QED BY <2>6, <2>8, <2>9, <2>10
<1> QED BY <1>1, <1>2

-----------------------------------------------------------------------------
(* Where a call is in its run.                                             *)

Call(i) == <<asked[i], sent[i], serving[i], sender[i], inline[i], wire[i], reading[i], reader[i]>>

Phases(i) ==
  /\ sent[i] = None => serving[i] = "waiting" /\ wire[i] = <<>>
  /\ reading[i] = "idle" => reader[i].at = None
  /\ reading[i] \in {"reading", "ok"} => sent[i] # None
  /\ serving[i] = "walking" => inline[i] = DecodeRequest(sent[i]).inline
  /\ reading[i] = "ok" => reader[i].at = None /\ reader[i].walk.stack = <<>>

(* An item says which CID it is about when it carries its data.  A bare    *)
(* hash must be that of the CID it is read for.                            *)
Fits(item, c) == ~item.data => item.hash = c.data /\ c.codec # "cbor"

(* Of the CIDs that have items, the client has read those of the first n,  *)
(* the next ones are in the stream, and the server has yet to write the    *)
(* others.                                                                 *)
Exchange(i, cids, n) ==
  /\ n + Len(wire[i]) <= Len(cids)
  /\ \A m \in 1 .. Len(wire[i]) : Fits(wire[i][m], cids[n + m])
  /\ serving[i] = "waiting" => n = 0 /\ wire[i] = <<>>
  /\ serving[i] = "walking" =>
       /\ Len(sender[i].out) = Len(cids) - n - Len(wire[i])
       /\ \A m \in 1 .. Len(sender[i].out) : sender[i].out[m] = cids[n + Len(wire[i]) + m]
  /\ serving[i] = "done" => n + Len(wire[i]) = Len(cids)

(* The server has failed and all that it wrote is read.                    *)
Lost(i) == serving[i] = "failed" /\ wire[i] = <<>>

ServerAt(i, p, n) ==
  /\ Exchange(i, p.out, n)
  /\ serving[i] = "waiting" => p = Beginning(asked[i].full)
  /\ serving[i] = "walking" =>
       /\ sender[i].walk.stack = p.stack
       /\ sender[i].walk.seen = p.seen
       /\ \A c : Includes(sender[i].walk.filter, c) <=> Includes(asked[i].full.filter, c)
       /\ p.stack # <<>> => n = 0 /\ wire[i] = <<>>
  /\ serving[i] = "done" => p.stack = <<>>

ClientAt(i, p) ==
  LET w == reader[i].walk
      at == reader[i].at
  IN /\ w.deep = TRUE
     /\ w.filter = asked[i].full.filter
     /\ w.seen = p.seen
     /\ at = None => p.stack = w.stack
     /\ at # None => /\ p.stack = Ref(at) \o w.stack
                     /\ at.codec = "cbor" => links[Client[i]][at] # None
     /\ \A c \in w.seen \ asked[i].full.visited :
          Includes(w.filter, c) => hashes[Client[i]][c] # None

(* A full traversal: both sides are on one run.                            *)
Deep(i) ==
  /\ asked[i].full # None
  /\ \E run : \E j, k \in 1 .. Len(run) :
       /\ IsRun(Server[i], asked[i].full, run)
       /\ ServerAt(i, run[k], Len(run[j].out))
       /\ ClientAt(i, run[j])

(* A sequence: both sides have what is left of it.                         *)
Flat(i) ==
  LET w == reader[i].walk
      cids == asked[i].sequence
  IN /\ asked[i].full = None
     /\ w.deep = FALSE /\ w.filter = None /\ reader[i].at = None
     /\ serving[i] = "walking" => sender[i].walk.stack = <<>>
     /\ \E n \in 0 .. Len(cids) :
          /\ Exchange(i, cids, n)
          /\ Len(w.stack) = Len(cids) - n
          /\ \A m \in 1 .. Len(w.stack) : w.stack[m] = cids[n + m]
     /\ \A c \in w.seen : hashes[Client[i]][c] # None

Course(i) == reading[i] \in {"reading", "ok"} => Lost(i) \/ Deep(i) \/ Flat(i)

WalksInv == LinksMatch /\ RecordsMatch /\ (\A i \in Calls : Phases(i) /\ Course(i))

(* What a request asks for, as each side has it.                           *)
SequenceAsked(i) ==
  /\ asked[i].full = None
  /\ asked[i].sequence \in Seq(Cids)
  /\ DecodeRequest(sent[i]).traversal.sequence = asked[i].sequence

TraversalAsked(i) ==
  LET t == DecodeRequest(sent[i]).traversal
      full == asked[i].full
  IN /\ full # None /\ full \in FullTraversals /\ asked[i].sequence = None
     /\ full.root \in Held(Server[i])
     /\ \A c \in Cids : c.codec = "cbor" => Includes(full.filter, c)
     /\ t.sequence = None /\ t.full # None
     /\ t.full.root = full.root /\ t.full.visited = full.visited
     /\ \A c : Includes(t.full.filter, c) <=> Includes(full.filter, c)

InlineAsked(i) ==
  LET o == DecodeRequest(sent[i]).inline
  IN /\ \A c \in Cids : c.codec = "cbor" => Inlined(o, c)
     /\ \/ \A c \in Cids : Inlined(o, c)
        \/ \A e \in Library[Server[i]] : e[2] = e[1].data

LEMMA WhatIsAsked ==
  ASSUME TInv, Careful, NEW i \in Calls, sent[i] # None
  PROVE  (SequenceAsked(i) \/ TraversalAsked(i)) /\ InlineAsked(i)
<1>1. PICK r \in Requests[i] :
        EncodeRequest(r) # Error /\ sent[i] = EncodeRequest(r) /\ asked[i] = r.traversal
  BY DEF TInv, Requested
<1> DEFINE q == EncodeRequest(r)
           t == DecodeRequest(q).traversal
           u == r.traversal
<1>2. CarefulRequest(i, r) BY <1>1 DEF Careful
<1>3. u \in Traversals BY RequestType
<1>4. \/ u.sequence # None /\ t.sequence = u.sequence
      \/ /\ u.sequence = None /\ t.sequence = None
         /\ u.full # None /\ t.full # None
         /\ t.full.root = u.full.root /\ t.full.visited = u.full.visited
         /\ \A c : Includes(t.full.filter, c) <=> Includes(u.full.filter, c)
  BY <1>1, RequestEncoding
<1>5. InlineAsked(i) BY <1>1, <1>2 DEF CarefulRequest, InlineAsked
<1> DEFINE cares == u.full # None =>
             /\ u.sequence = None
             /\ Holds(Server[i], u.full.root)
             /\ \A c \in Cids : c.codec = "cbor" => Includes(u.full.filter, c)
<1>6. cares BY <1>2 DEF CarefulRequest
<1> HIDE DEF t
<1>7. CASE u.sequence # None
  <2>1. u.full = None BY <1>6, <1>7
  <2>2. u.sequence \in Seq(Cids) BY <1>3, <1>7 DEF Traversals
  <2>3. t.sequence = u.sequence BY <1>4, <1>7
  <2>4. SequenceAsked(i) BY <1>1, <2>1, <2>2, <2>3 DEF SequenceAsked, t
  <2> QED BY <1>5, <2>4
<1>8. CASE u.sequence = None
  <2>1. /\ t.sequence = None /\ u.full # None /\ t.full # None
        /\ t.full.root = u.full.root /\ t.full.visited = u.full.visited
        /\ \A c : Includes(t.full.filter, c) <=> Includes(u.full.filter, c)
    BY <1>4, <1>8
  <2>2. u.full \in FullTraversals BY <1>3, <2>1 DEF Traversals
  <2>3. u.full.root \in Held(Server[i])
    <3>1. u.full.root \in Cids BY <2>2 DEF FullTraversals
    <3> QED BY <1>6, <2>1, <3>1 DEF Held
  <2>4. \A c \in Cids : c.codec = "cbor" => Includes(u.full.filter, c) BY <1>6, <2>1
  <2>5. TraversalAsked(i) BY <1>1, <1>8, <2>1, <2>2, <2>3, <2>4 DEF TraversalAsked, t
  <2> QED BY <1>5, <2>5
<1> QED BY <1>7, <1>8

(* What is recorded stays recorded.                                        *)
LEMMA RecordsGrow ==
  ASSUME Typed, [Next]_vars
  PROVE  \A n \in Nodes, c \in Cids : /\ hashes[n][c] # None => hashes'[n][c] # None
                                      /\ links[n][c] # None => links'[n][c] # None
<1> DEFINE Grow == \A n \in Nodes, c \in Cids :
             /\ hashes[n][c] # None => hashes'[n][c] # None
             /\ links[n][c] # None => links'[n][c] # None
<1>0. TablesTyped BY DEF Typed
<1>1. ASSUME NEW n \in Nodes, NEW c \in Cids, NEW h \in Data, NEW ls \in Seq(Cids), Put(n, c, h, ls)
      PROVE  Grow
  <2>1. hashes' = [hashes EXCEPT ![n][c] = h] /\ links' = [links EXCEPT ![n][c] = ls] BY <1>1 DEF Put
  <2>2. h # None /\ ls # None BY Atoms
  <2> QED BY <1>0, <2>1, <2>2 DEF TablesTyped
<1>2. ASSUME NEW n \in Nodes, NEW c \in Cids, NEW h \in Data, AddAndPut(n, c, h) PROVE Grow
  <2>1. CASE ExtractLinks(c, h) = Error BY <1>2, <2>1 DEF AddAndPut
  <2>2. CASE ExtractLinks(c, h) # Error
    <3>1. ExtractLinks(c, h) \in Seq(Cids) BY <2>2, LinksType
    <3>2. Put(n, c, h, ExtractLinks(c, h)) BY <1>2, <2>2 DEF AddAndPut
    <3> QED BY <1>1, <3>1, <3>2
  <2> QED BY <2>1, <2>2
<1>3. UNCHANGED tables => Grow BY DEF tables
<1>4. \A n \in Nodes : \A e \in Library[n] : e[1] \in Cids /\ e[2] \in Data BY ConstantsAssumption
<1>5. \A i \in Calls : Client[i] \in Nodes BY ConstantsAssumption
<1>6. \A x \in Headers : x.hash \in Data BY DEF Headers
<1>7. <<>> \in Seq(Cids) OBVIOUS
<1> HIDE DEF tables, Grow
<1>8. Grow BY <1>1, <1>2, <1>3, <1>4, <1>5, <1>6, <1>7, TableSteps
<1> QED BY <1>8 DEF Grow

-----------------------------------------------------------------------------
(* Steps of the exchange *)

LEMMA ExchangeStays ==
  ASSUME NEW i \in Calls, NEW cids \in Seq(Cids), NEW n \in Nat, Exchange(i, cids, n),
         wire'[i] = wire[i],
         \/ serving'[i] = serving[i] /\ sender'[i].out = sender[i].out
         \/ serving'[i] = "failed"
  PROVE  Exchange(i, cids, n)'
BY DEF Exchange

LEMMA ExchangeWrites ==
  ASSUME Typed, NEW i \in Calls, NEW cids \in Seq(Cids), NEW n \in Nat, Exchange(i, cids, n),
         WriteItem(i),
         ~Inlined(inline[i], Head(sender[i].out)) =>
           /\ Head(sender[i].out).codec # "cbor"
           /\ hashes[Server[i]][Head(sender[i].out)] \in {Head(sender[i].out).data, None}
  PROVE  Exchange(i, cids, n)'
<1> DEFINE out == sender[i].out
           c == Head(out)
           h == hashes[Server[i]][c]
           data == Inlined(inline[i], c)
           x == IF data THEN DataHeader(h, h \in store[Server[i]]) ELSE HashHeader(h)
           w == wire[i]
<1>1. /\ out # <<>> /\ serving[i] = "walking"
      /\ sender' = [sender EXCEPT ![i].out = Tail(@)]
      /\ wire' = [wire EXCEPT ![i] = IF h = None THEN @ ELSE Append(@, x)]
      /\ serving' = [serving EXCEPT ![i] =
           IF h = None \/ (data /\ h \notin store[Server[i]]) THEN "failed" ELSE @]
  BY DEF WriteItem
<1>2. out \in Seq(Cids) /\ w \in Seq(Headers)
  <2>1. sender[i] \in Senders BY DEF Typed
  <2> QED BY <2>1 DEF Typed, Senders
<1>3. sender'[i].out = Tail(out)
  <2>1. sender[i] \in Senders BY DEF Typed
  <2> QED BY <1>1, <2>1 DEF Typed, Senders
<1>4. ~data => h \in {c.data, None} /\ c.codec # "cbor" OBVIOUS
<1>5. h # None => Fits(x, c) BY <1>4 DEF Fits, DataHeader, HashHeader
<1>6. wire'[i] = IF h = None THEN w ELSE Append(w, x) BY <1>1 DEF Typed
<1>7. serving'[i] \in {"failed", "walking"} /\ (h = None => serving'[i] = "failed")
  BY <1>1 DEF Typed
<1> HIDE DEF x, h, data
<1>8. CASE h = None
  <2>1. wire'[i] = wire[i] /\ serving'[i] = "failed" BY <1>6, <1>7, <1>8
  <2> QED BY <2>1, ExchangeStays
<1>9. CASE h # None
  <2>1. /\ n + Len(w) <= Len(cids)
        /\ \A m \in 1 .. Len(w) : Fits(w[m], cids[n + m])
        /\ Len(out) = Len(cids) - n - Len(w)
        /\ \A m \in 1 .. Len(out) : out[m] = cids[n + Len(w) + m]
    BY <1>1 DEF Exchange
  <2> DEFINE v == wire'[i]
             rest == sender'[i].out
  <2>2. v = Append(w, x) /\ rest = Tail(out) BY <1>3, <1>6, <1>9
  <2> HIDE DEF v, rest, out, w
  <2>3. Len(out) \in Nat /\ Len(w) \in Nat /\ Len(cids) \in Nat BY <1>2
  <2>4. Len(out) >= 1 /\ c = out[1] /\ Len(rest) = Len(out) - 1
        /\ \A m \in 1 .. Len(rest) : rest[m] = out[m + 1]
    BY <1>1, <1>2, <2>2 DEF out
  <2>5. Len(v) = Len(w) + 1 /\ v[Len(w) + 1] = x /\ \A m \in 1 .. Len(w) : v[m] = w[m]
    BY <1>2, <2>2 DEF w
  <2>6. c = cids[n + Len(w) + 1]
    <3>1. 1 \in 1 .. Len(out) BY <2>3, <2>4
    <3> QED BY <2>1, <2>4, <3>1
  <2>7. n + Len(v) <= Len(cids) BY <2>1, <2>3, <2>4, <2>5
  <2>8. ASSUME NEW m \in 1 .. Len(v) PROVE Fits(v[m], cids[n + m])
    <3>1. CASE m = Len(w) + 1
      <4>1. v[m] = x /\ n + m = n + Len(w) + 1 BY <2>3, <2>5, <3>1
      <4>2. cids[n + m] = c BY <2>3, <2>6, <3>1
      <4> QED BY <1>5, <1>9, <4>1, <4>2
    <3>2. CASE m # Len(w) + 1
      <4>1. m \in 1 .. Len(w) BY <2>3, <2>5, <3>2
      <4>2. v[m] = w[m] BY <2>5, <4>1
      <4> QED BY <2>1, <4>1, <4>2
    <3> QED BY <3>1, <3>2
  <2>9. Len(rest) = Len(cids) - n - Len(v) BY <2>1, <2>3, <2>4, <2>5
  <2>10. ASSUME NEW m \in 1 .. Len(rest) PROVE rest[m] = cids[n + Len(v) + m]
    <3>1. m + 1 \in 1 .. Len(out) BY <2>3, <2>4
    <3>2. rest[m] = cids[n + Len(w) + (m + 1)] BY <2>1, <2>4, <3>1
    <3>3. n + Len(w) + (m + 1) = n + Len(v) + m BY <2>3, <2>5
    <3> QED BY <3>2, <3>3
  <2> QED BY <1>7, <2>7, <2>8, <2>9, <2>10 DEF Exchange, v, rest
<1> QED BY <1>8, <1>9

LEMMA ExchangeCloses ==
  ASSUME Typed, NEW i \in Calls, NEW cids \in Seq(Cids), NEW n \in Nat, Exchange(i, cids, n),
         Close(i)
  PROVE  Exchange(i, cids, n)'
<1>1. serving[i] = "walking" /\ sender[i].out = <<>> /\ serving'[i] = "done" /\ wire'[i] = wire[i]
  BY DEF Close, Typed
<1>2. Len(sender[i].out) = 0 BY <1>1
<1>3. wire[i] \in Seq(Headers) BY DEF Typed
<1>4. Len(wire[i]) \in Nat /\ Len(cids) \in Nat BY <1>3
<1>5. Len(sender[i].out) = Len(cids) - n - Len(wire[i]) BY <1>1 DEF Exchange
<1>6. n + Len(wire[i]) = Len(cids) BY <1>2, <1>4, <1>5
<1> QED BY <1>1, <1>6 DEF Exchange

LEMMA ExchangeReads ==
  ASSUME Typed, NEW i \in Calls, NEW cids \in Seq(Cids), NEW n \in Nat, Exchange(i, cids, n),
         wire[i] # <<>>, wire'[i] = Tail(wire[i]), serving'[i] = serving[i], sender'[i] = sender[i]
  PROVE  /\ n + 1 \in 1 .. Len(cids)
         /\ Fits(Head(wire[i]), cids[n + 1])
         /\ Exchange(i, cids, n + 1)'
<1> DEFINE w == wire[i]
           v == wire'[i]
           out == sender[i].out
<1>1. w \in Seq(Headers) /\ w # <<>> /\ v = Tail(w) BY DEF Typed
<1>2. /\ n + Len(w) <= Len(cids)
      /\ \A m \in 1 .. Len(w) : Fits(w[m], cids[n + m])
      /\ serving[i] # "waiting"
      /\ serving[i] = "walking" =>
           /\ Len(out) = Len(cids) - n - Len(w)
           /\ \A m \in 1 .. Len(out) : out[m] = cids[n + Len(w) + m]
      /\ serving[i] = "done" => n + Len(w) = Len(cids)
  BY DEF Exchange
<1>3. sender'[i].out = out OBVIOUS
<1> HIDE DEF w, v, out
<1>4. /\ Len(w) \in Nat /\ Len(cids) \in Nat /\ Len(w) >= 1 /\ Len(v) = Len(w) - 1
      /\ Head(w) = w[1] /\ \A m \in 1 .. Len(v) : v[m] = w[m + 1]
  BY <1>1
<1>5. n + 1 \in 1 .. Len(cids) BY <1>2, <1>4
<1>6. Fits(Head(w), cids[n + 1])
  <2>1. 1 \in 1 .. Len(w) BY <1>4
  <2> QED BY <1>2, <1>4, <2>1
<1>7. (n + 1) + Len(v) = n + Len(w) BY <1>4
<1>8. ASSUME NEW m \in 1 .. Len(v) PROVE Fits(v[m], cids[(n + 1) + m])
  <2>1. m + 1 \in 1 .. Len(w) /\ n + (m + 1) = (n + 1) + m BY <1>4
  <2> QED BY <1>2, <1>4, <2>1
<1>9. serving[i] = "walking" =>
        /\ Len(out) = Len(cids) - (n + 1) - Len(v)
        /\ \A m \in 1 .. Len(out) : out[m] = cids[(n + 1) + Len(v) + m]
  <2>1. Len(cids) - n - Len(w) = Len(cids) - (n + 1) - Len(v) BY <1>4
  <2> QED BY <1>2, <1>7, <2>1
<1>10. Exchange(i, cids, n + 1)'
  BY <1>2, <1>3, <1>7, <1>8, <1>9 DEF Exchange, v
<1> QED BY <1>5, <1>6, <1>10 DEF w

-----------------------------------------------------------------------------
(* Steps of other calls, and the phases of a call *)

Steps(j) == Sync(j) \/ ServerStep(j) \/ ClientStep(j) \/ Stop(j) \/ Cut(j)

LEMMA Elsewhere ==
  ASSUME Typed, NEW i \in Calls, NEW j \in Calls, i # j, Steps(j)
  PROVE  UNCHANGED Call(i)
<1>1. ASSUME NEW r \in Requests[j],
             asked' = [asked EXCEPT ![j] = r.traversal],
             IF EncodeRequest(r) = Error
             THEN reading' = [reading EXCEPT ![j] = "error"] /\ UNCHANGED <<sent, reader>>
             ELSE /\ reading' = [reading EXCEPT ![j] = "reading"]
                  /\ sent' = [sent EXCEPT ![j] = EncodeRequest(r)]
                  /\ reader' = [reader EXCEPT ![j].walk = Walk(r.traversal)],
             UNCHANGED <<serverVars, wire>>
      PROVE  UNCHANGED Call(i)
  BY <1>1 DEF Typed, Call, serverVars
<1>2. Sync(j) => UNCHANGED Call(i) BY <1>1 DEF Sync
<1>3. HandleStream(j) => UNCHANGED Call(i) BY DEF HandleStream, Typed, Call
<1>4. Traverse(j) => UNCHANGED Call(i) BY DEF Traverse, Typed, Call
<1>5. WriteItem(j) => UNCHANGED Call(i) BY DEF WriteItem, Typed, Call
<1>6. Close(j) \/ Stop(j) \/ Cut(j) => UNCHANGED Call(i) BY DEF Close, Stop, Cut, Typed, Call
<1>7. Skip(j) \/ Pass(j) \/ ReadEnd(j) \/ Expand(j) \/ Return(j) => UNCHANGED Call(i)
  BY DEF Skip, Pass, ReadEnd, Expand, Return, Typed, Call, serverVars
<1>8. ReadOneResponse(j) => UNCHANGED Call(i) BY DEF ReadOneResponse, Typed, Call, serverVars
<1> QED BY <1>2, <1>3, <1>4, <1>5, <1>6, <1>7, <1>8 DEF Steps, ServerStep, ClientStep

LEMMA OneOrOther ==
  ASSUME [Next]_vars, Typed, NEW i \in Calls
  PROVE  UNCHANGED Call(i) \/ Steps(i)
<1>1. ASSUME NEW n \in Nodes, ImportBytes(n) PROVE UNCHANGED Call(i)
  BY <1>1 DEF ImportBytes, serverVars, Call
<1>2. UNCHANGED vars => UNCHANGED Call(i) BY DEF vars, serverVars, Call
<1>3. ASSUME NEW j \in Calls, Steps(j) PROVE UNCHANGED Call(i) \/ Steps(i)
  BY <1>3, Elsewhere
<1> HIDE DEF Call
<1> QED BY <1>1, <1>2, <1>3 DEF Next, Steps

(* What a step of a client does to its call.                               *)
LEMMA ClientSteps ==
  ASSUME Typed, NEW i \in Calls, ClientStep(i)
  PROVE  /\ reading[i] = "reading"
         /\ asked'[i] = asked[i] /\ sent'[i] = sent[i] /\ serving'[i] = serving[i]
         /\ sender'[i] = sender[i] /\ inline'[i] = inline[i]
         /\ wire'[i] = wire[i] \/ ReadOneResponse(i)
         /\ reading'[i] = "ok" => Return(i)
BY DEF ClientStep, Skip, Pass, ReadOneResponse, ReadEnd, Expand, Return, Wanted, Looking, Typed, serverVars

LEMMA PhasesNext ==
  ASSUME TInv, [Next]_vars, NEW i \in Calls, Phases(i)
  PROVE  Phases(i)'
<1>0. Typed /\ Requested(i) BY DEF TInv
<1>1. CASE UNCHANGED Call(i) BY <1>1 DEF Call, Phases
<1>2. CASE Sync(i)
  <2>1. PICK r \in Requests[i] :
          /\ reading[i] = "idle"
          /\ IF EncodeRequest(r) = Error
             THEN reading' = [reading EXCEPT ![i] = "error"] /\ UNCHANGED <<sent, reader>>
             ELSE /\ reading' = [reading EXCEPT ![i] = "reading"]
                  /\ sent' = [sent EXCEPT ![i] = EncodeRequest(r)]
    BY <1>2 DEF Sync
  <2>2. UNCHANGED <<serving, sender, inline, wire>> BY <1>2 DEF Sync, serverVars
  <2>3. sent[i] = None BY <1>0, <2>1 DEF Requested
  <2>4. serving[i] = "waiting" /\ wire[i] = <<>> BY <2>3 DEF Phases
  <2>5. CASE EncodeRequest(r) = Error
    <3>1. reading'[i] = "error" /\ sent'[i] = None BY <1>0, <2>1, <2>3, <2>5 DEF Typed
    <3> QED BY <2>2, <2>4, <3>1 DEF Phases
  <2>6. CASE EncodeRequest(r) # Error
    <3>1. reading'[i] = "reading" /\ sent'[i] # None
      <4>1. EncodeRequest(r) # None BY EncodingAssumption
      <4> QED BY <1>0, <2>1, <2>6, <4>1 DEF Typed
    <3> QED BY <2>2, <2>4, <3>1 DEF Phases
  <2> QED BY <2>5, <2>6
<1>3. CASE HandleStream(i)
  <2>1. /\ serving'[i] = "walking" /\ inline'[i] = DecodeRequest(sent[i]).inline
        /\ sent[i] # None /\ UNCHANGED <<sent, wire, reading, reader>>
    BY <1>0, <1>3 DEF HandleStream, Typed
  <2> QED BY <2>1 DEF Phases
<1>4. CASE Traverse(i)
  BY <1>4 DEF Traverse, Phases
<1>5. CASE WriteItem(i) \/ Close(i) \/ Stop(i) \/ Cut(i)
  <2>1. /\ UNCHANGED <<sent, inline, reader>>
        /\ serving[i] = "walking" \/ reading[i] = "reading"
        /\ serving'[i] \in {"failed", "done", serving[i]}
        /\ reading'[i] \in {"error", reading[i]}
    BY <1>0, <1>5 DEF WriteItem, Close, Stop, Cut, Typed
  <2>2. sent[i] # None BY <2>1 DEF Phases
  <2> QED BY <2>1, <2>2 DEF Phases
<1>6. CASE ClientStep(i)
  <2>1. /\ reading[i] = "reading"
        /\ sent'[i] = sent[i] /\ serving'[i] = serving[i] /\ inline'[i] = inline[i]
        /\ reading'[i] = "ok" => Return(i)
    BY <1>0, <1>6, ClientSteps
  <2>2. sent[i] # None BY <2>1 DEF Phases
  <2>3. reading'[i] # "idle"
    BY <1>0, <1>6 DEF ClientStep, Skip, Pass, ReadOneResponse, ReadEnd, Expand, Return, Wanted, Looking, Typed
  <2>4. Return(i) => reader'[i].at = None /\ reader'[i].walk.stack = <<>> BY DEF Return
  <2> QED BY <2>1, <2>2, <2>3, <2>4 DEF Phases
<1> QED BY <1>0, <1>1, <1>2, <1>3, <1>4, <1>5, <1>6, OneOrOther DEF Steps, ServerStep

-----------------------------------------------------------------------------
(* Tables that match *)

LEMMA FollowsRef ==
  ASSUME LinksMatch, NEW n \in Nodes, NEW c \in Cids, c.codec = "cbor" => links[n][c] # None
  PROVE  Follow(n, c) = Ref(c)
<1>1. links[n][c] \in {None, Ref(c)} BY DEF LinksMatch
<1>2. c.codec # "cbor" => Ref(c) = <<>> BY DEF Ref
<1> HIDE DEF Ref
<1> QED BY <1>1, <1>2 DEF Follow

LEMMA MatchingPut ==
  ASSUME Typed, LinksMatch, RecordsMatch, [Next]_vars,
         NEW n \in Nodes, NEW c \in Cids, NEW d \in Data, Put(n, c, d, Ref(c)),
         d = c.data \/ <<c, d>> \in Library[n]
  PROVE  LinksMatch' /\ RecordsMatch'
<1>0. TablesTyped BY DEF Typed
<1>1. ASSUME NEW m \in Nodes, NEW b \in Cids PROVE links'[m][b] \in {None, Ref(b)}
  <2>1. links'[m][b] = IF m = n /\ b = c THEN Ref(c) ELSE links[m][b] BY <1>0 DEF Put, TablesTyped
  <2>2. links[m][b] \in {None, Ref(b)} BY DEF LinksMatch
  <2> HIDE DEF Ref
  <2> QED BY <2>1, <2>2
<1>2. ASSUME NEW m \in Nodes, NEW b \in Loaded[m] PROVE links'[m][b] # None
  <2>1. b \in Cids BY ConstantsAssumption
  <2> QED BY <2>1, RecordsGrow DEF LinksMatch
<1>3. ASSUME NEW m \in Nodes, NEW b \in Cids
      PROVE  hashes'[m][b] \in {b.data, None} \cup {e[2] : e \in {l \in Library[m] : l[1] = b}}
  <2> DEFINE own == {e[2] : e \in {l \in Library[m] : l[1] = b}}
  <2>1. hashes'[m][b] = IF m = n /\ b = c THEN d ELSE hashes[m][b] BY <1>0 DEF Put, TablesTyped
  <2>2. hashes[m][b] \in {b.data, None} \cup own BY DEF RecordsMatch
  <2>3. m = n /\ b = c => d \in {b.data, None} \cup own
    <3> SUFFICES ASSUME m = n, b = c, d # c.data PROVE d \in own OBVIOUS
    <3>1. <<c, d>> \in Library[n] OBVIOUS
    <3>2. <<c, d>>[1] = c /\ <<c, d>>[2] = d OBVIOUS
    <3> QED BY <3>1, <3>2
  <2> HIDE DEF own
  <2>4. hashes'[m][b] \in {b.data, None} \cup own BY <2>1, <2>2, <2>3
  <2> QED BY <2>4 DEF own
<1>4. LinksMatch' BY <1>1, <1>2 DEF LinksMatch, Ref
<1> QED BY <1>3, <1>4 DEF RecordsMatch

LEMMA MatchingTables ==
  ASSUME TInv, Careful, LinksMatch, RecordsMatch, [Next]_vars,
         \A i \in Calls : ReadOneResponse(i) => Fits(Head(wire[i]), Top(i))
  PROVE  LinksMatch' /\ RecordsMatch'
<1>0. Typed BY DEF TInv
<1>1. ASSUME NEW n \in Nodes, NEW c \in Cids, NEW d \in Data, AddAndPut(n, c, d),
             d = c.data \/ <<c, d>> \in Library[n]
      PROVE  LinksMatch' /\ RecordsMatch'
  <2>1. CASE ExtractLinks(c, d) = Error
    BY <1>1, <2>1 DEF AddAndPut, LinksMatch, RecordsMatch, Ref
  <2>2. CASE ExtractLinks(c, d) # Error
    <3>1. Put(n, c, d, ExtractLinks(c, d)) BY <1>1, <2>2 DEF AddAndPut
    <3>2. ExtractLinks(c, d) = Ref(c)
      <4>1. CASE c.codec # "cbor" BY <4>1 DEF ExtractLinks, Ref
      <4>2. CASE c.codec = "cbor"
        <5>1. Children[d] # None /\ ExtractLinks(c, d) = Children[d] BY <2>2, <4>2 DEF ExtractLinks
        <5>2. d = c.data
          <6> SUFFICES ASSUME d # c.data PROVE FALSE OBVIOUS
          <6>1. <<c, d>> \in Library[n] BY <1>1
          <6>2. <<c, d>>[1] = c /\ <<c, d>>[2] = d OBVIOUS
          <6> QED BY <4>2, <5>1, <6>1, <6>2 DEF Careful
        <5> QED BY <4>2, <5>1, <5>2 DEF Ref
      <4> QED BY <4>1, <4>2
    <3>3. Put(n, c, d, Ref(c)) BY <3>1, <3>2
    <3> QED BY <1>0, <1>1, <3>3, MatchingPut
  <2> QED BY <2>1, <2>2
<1>2. ASSUME NEW n \in Nodes, NEW c \in Cids, NEW d \in Data, Put(n, c, d, <<>>),
             d = c.data, c.codec # "cbor"
      PROVE  LinksMatch' /\ RecordsMatch'
  <2>1. Put(n, c, d, Ref(c)) BY <1>2 DEF Ref
  <2> QED BY <1>0, <1>2, <2>1, MatchingPut
<1>3. CASE UNCHANGED tables
  BY <1>3 DEF tables, LinksMatch, RecordsMatch, Ref
<1>4. ASSUME NEW n \in Nodes, NEW e \in Library[n], AddAndPut(n, e[1], e[2])
      PROVE  LinksMatch' /\ RecordsMatch'
  <2>1. e[1] \in Cids /\ e[2] \in Data /\ e = <<e[1], e[2]>> BY ConstantsAssumption
  <2> QED BY <1>1, <1>4, <2>1
<1>5. ASSUME NEW i \in Calls, ReadOneResponse(i), Top(i) \in Cids, Head(wire[i]) \in Headers,
             \/ Head(wire[i]).data /\ Top(i).data = Head(wire[i]).hash
                /\ AddAndPut(Client[i], Top(i), Head(wire[i]).hash)
             \/ ~Head(wire[i]).data /\ Put(Client[i], Top(i), Head(wire[i]).hash, <<>>)
                /\ store' = store
      PROVE  LinksMatch' /\ RecordsMatch'
  <2>1. Client[i] \in Nodes /\ Head(wire[i]).hash \in Data BY <1>5, ConstantsAssumption DEF Headers
  <2>2. CASE Head(wire[i]).data BY <1>1, <1>5, <2>1, <2>2
  <2>3. CASE ~Head(wire[i]).data
    <3>1. Head(wire[i]).hash = Top(i).data /\ Top(i).codec # "cbor" BY <1>5, <2>3 DEF Fits
    <3> QED BY <1>2, <1>5, <2>1, <2>3, <3>1
  <2> QED BY <2>2, <2>3
<1> HIDE DEF tables
<1> QED BY <1>0, <1>3, <1>4, <1>5, TableSteps

-----------------------------------------------------------------------------
(* Steps of a client on its run *)

LEMMA ClientStays ==
  ASSUME Typed, [Next]_vars, NEW i \in Calls, NEW p, ClientAt(i, p),
         asked'[i] = asked[i], reader'[i] = reader[i]
  PROVE  ClientAt(i, p)'
<1>1. Client[i] \in Nodes /\ reader[i] \in Readers BY ConstantsAssumption DEF Typed
<1>2. reader[i].at \in Cids \cup {None} /\ reader[i].walk.seen \subseteq Cids BY <1>1 DEF Readers, Walks
<1>3. \A c \in Cids : /\ hashes[Client[i]][c] # None => hashes'[Client[i]][c] # None
                      /\ links[Client[i]][c] # None => links'[Client[i]][c] # None
  BY <1>1, RecordsGrow
<1> QED BY <1>2, <1>3 DEF ClientAt, Ref

(* It passes over a CID it has seen.                                       *)
LEMMA ClientSkips ==
  ASSUME Typed, [Next]_vars, NEW i \in Calls, NEW p \in Positions(Server[i]), ClientAt(i, p),
         Skip(i), NEW q, q = StepOf(asked[i].full.filter, p)
  PROVE  ClientAt(i, q)' /\ q.out = p.out
<1> DEFINE w == reader[i].walk
           c == Top(i)
<1>1. reader[i] \in Readers /\ w \in Walks BY DEF Typed, Readers
<1>2. reader[i].at = None /\ c \in w.seen /\ w.stack # <<>> BY DEF Skip, Looking, IsSeen
<1>3. w.seen = p.seen /\ w.stack = p.stack /\ w.deep = TRUE /\ w.filter = asked[i].full.filter
      /\ \A b \in w.seen \ asked[i].full.visited : Includes(w.filter, b) => hashes[Client[i]][b] # None
  BY <1>2 DEF ClientAt
<1>4. c = Head(p.stack) BY <1>3 DEF Top
<1>5. q = [p EXCEPT !.stack = Tail(p.stack)] BY <1>2, <1>3, <1>4 DEF StepOf
<1>6. q.stack = Tail(p.stack) /\ q.seen = p.seen /\ q.out = p.out BY <1>5 DEF Positions
<1>7. /\ reader' = [reader EXCEPT ![i].walk = Taken(i)]
      /\ asked' = asked /\ hashes' = hashes
  BY DEF Skip, tables
<1> DEFINE v == reader'[i].walk
<1>8. v = Taken(i) /\ reader'[i].at = None BY <1>1, <1>2, <1>7 DEF Typed, Readers
<1>9. Taken(i) = [w EXCEPT !.stack = Tail(w.stack), !.seen = w.seen \cup {c}] BY <1>1 DEF Taken, Walks
<1>10. /\ Taken(i).deep = w.deep /\ Taken(i).filter = w.filter
       /\ Taken(i).stack = Tail(w.stack) /\ Taken(i).seen = w.seen \cup {c}
  BY <1>1, <1>9 DEF Walks
<1> HIDE DEF w, c
<1>11. /\ v.deep = TRUE /\ v.filter = asked[i].full.filter /\ v.seen = q.seen /\ v.stack = q.stack
  BY <1>2, <1>3, <1>6, <1>8, <1>10
<1>12. \A b \in v.seen \ asked[i].full.visited : Includes(v.filter, b) => hashes'[Client[i]][b] # None
  BY <1>3, <1>6, <1>7, <1>11
<1> HIDE DEF v
<1> QED BY <1>6, <1>7, <1>8, <1>11, <1>12 DEF ClientAt, v

(* It takes a CID it has not seen, whose links it looks up next.           *)
LEMMA ClientTakes ==
  ASSUME Typed, [Next]_vars, NEW i \in Calls, NEW p \in Positions(Server[i]), ClientAt(i, p),
         Looking(i), ~IsSeen(i), NEW q, q = StepOf(asked[i].full.filter, p),
         asked'[i] = asked[i], reader'[i] = [walk |-> Taken(i), at |-> Top(i)],
         Top(i).codec = "cbor" => links'[Client[i]][Top(i)] # None,
         Includes(reader[i].walk.filter, Top(i)) => hashes'[Client[i]][Top(i)] # None
  PROVE  /\ ClientAt(i, q)'
         /\ q.out = IF Includes(reader[i].walk.filter, Top(i)) THEN Append(p.out, Top(i)) ELSE p.out
<1> DEFINE w == reader[i].walk
           c == Top(i)
<1>1. reader[i] \in Readers /\ w \in Walks /\ Client[i] \in Nodes
  BY ConstantsAssumption DEF Typed, Readers
<1>2. reader[i].at = None /\ w.stack # <<>> BY DEF Looking
<1>3. w.seen = p.seen /\ w.stack = p.stack /\ w.deep = TRUE /\ w.filter = asked[i].full.filter
      /\ \A b \in w.seen \ asked[i].full.visited : Includes(w.filter, b) => hashes[Client[i]][b] # None
  BY <1>2 DEF ClientAt
<1>4. c = Head(p.stack) /\ c \notin p.seen BY <1>3 DEF Top, IsSeen
<1>5. c \in Cids BY LookingAt
<1>6. q = [stack |-> Ref(c) \o Tail(p.stack), seen |-> p.seen \cup {c},
           out |-> IF Includes(w.filter, c) THEN Append(p.out, c) ELSE p.out]
  BY <1>3, <1>4 DEF StepOf
<1> DEFINE v == reader'[i].walk
<1>7. v = Taken(i) /\ reader'[i].at = c OBVIOUS
<1>8. Taken(i) = [w EXCEPT !.stack = Tail(w.stack), !.seen = w.seen \cup {c}] BY <1>1 DEF Taken, Walks
<1>9. /\ Taken(i).deep = w.deep /\ Taken(i).filter = w.filter
      /\ Taken(i).stack = Tail(w.stack) /\ Taken(i).seen = w.seen \cup {c}
  BY <1>1, <1>8 DEF Walks
<1>10. \A b \in Cids : hashes[Client[i]][b] # None => hashes'[Client[i]][b] # None
  BY <1>1, RecordsGrow
<1>11. w.seen \subseteq Cids BY <1>1 DEF Walks
<1>12. c.codec = "cbor" => links'[Client[i]][c] # None OBVIOUS
<1>13. Includes(w.filter, c) => hashes'[Client[i]][c] # None OBVIOUS
<1>14. c # None BY <1>5, Atoms
<1> HIDE DEF w, c, v
<1>15. v.deep = TRUE /\ v.filter = asked[i].full.filter /\ v.filter = w.filter BY <1>3, <1>7, <1>9
<1>16. v.seen = q.seen /\ q.stack = Ref(c) \o v.stack BY <1>3, <1>6, <1>7, <1>9
<1>17. \A b \in v.seen \ asked[i].full.visited : Includes(v.filter, b) => hashes'[Client[i]][b] # None
  BY <1>3, <1>7, <1>9, <1>10, <1>11, <1>13, <1>15
<1>18. q.out = IF Includes(w.filter, c) THEN Append(p.out, c) ELSE p.out BY <1>6
<1> USE DEF v
<1>19. ClientAt(i, q)'
  BY <1>7, <1>12, <1>14, <1>15, <1>16, <1>17 DEF ClientAt, Ref
<1> QED BY <1>18, <1>19 DEF w, c

(* It finds the same links that the server found.                          *)
LEMMA ClientExpands ==
  ASSUME Typed, LinksMatch, [Next]_vars, NEW i \in Calls, NEW p \in Positions(Server[i]),
         ClientAt(i, p), Expand(i)
  PROVE  ClientAt(i, p)'
<1> DEFINE w == reader[i].walk
           at == reader[i].at
<1>1. reader[i] \in Readers /\ w \in Walks /\ Client[i] \in Nodes
  BY ConstantsAssumption DEF Typed, Readers
<1>2. at # None /\ at \in Cids BY <1>1 DEF Expand, Readers
<1>3. Follow(Client[i], at) = Ref(at)
  <2>1. at.codec = "cbor" => links[Client[i]][at] # None BY <1>2 DEF ClientAt
  <2> QED BY <1>1, <1>2, <2>1, FollowsRef
<1>4. reader' = [reader EXCEPT ![i] =
        [walk |-> [@.walk EXCEPT !.stack = Follow(Client[i], reader[i].at) \o reader[i].walk.stack],
         at |-> None]]
      /\ asked' = asked /\ hashes' = hashes
  BY DEF Expand, tables
<1> DEFINE v == [w EXCEPT !.stack = Ref(at) \o w.stack]
<1>5. reader'[i] = [walk |-> v, at |-> None] BY <1>1, <1>3, <1>4 DEF Typed
<1>6. v.deep = w.deep /\ v.filter = w.filter /\ v.seen = w.seen /\ v.stack = Ref(at) \o w.stack
  BY <1>1 DEF Walks
<1>7. p.stack = Ref(at) \o w.stack BY <1>2 DEF ClientAt
<1> HIDE DEF v
<1>8. reader'[i].walk = v /\ reader'[i].at = None BY <1>5
<1> QED BY <1>4, <1>6, <1>7, <1>8 DEF ClientAt

(* A full traversal's client is somewhere on a run.                        *)
OnRun(i, run, j, k) ==
  /\ IsRun(Server[i], asked[i].full, run)
  /\ ServerAt(i, run[k], Len(run[j].out))
  /\ ClientAt(i, run[j])

LEMMA DeepLooks ==
  ASSUME Typed, NEW i \in Calls, Deep(i), Looking(i)
  PROVE  \E run : \E j, k \in 1 .. Len(run) :
           /\ OnRun(i, run, j, k)
           /\ j + 1 \in 1 .. Len(run)
           /\ run[j + 1] = StepOf(asked[i].full.filter, run[j])
           /\ run[j] \in Positions(Server[i]) /\ run[k] \in Positions(Server[i])
           /\ run[j + 1] \in Positions(Server[i])
<1>0. Server[i] \in Nodes BY ConstantsAssumption
<1>1. PICK run : \E j, k \in 1 .. Len(run) : OnRun(i, run, j, k) BY DEF Deep, OnRun
<1> PICK j \in 1 .. Len(run), k \in 1 .. Len(run) : OnRun(i, run, j, k) BY <1>1
<1>2. run[j].stack # <<>> BY DEF OnRun, ClientAt, Looking
<1>3. IsRun(Server[i], asked[i].full, run) BY DEF OnRun
<1>4. PICK longer :
        /\ IsRun(Server[i], asked[i].full, longer)
        /\ Len(run) <= Len(longer) /\ \A m \in 1 .. Len(run) : longer[m] = run[m]
        /\ j + 1 \in 1 .. Len(longer)
        /\ longer[j + 1] = StepOf(asked[i].full.filter, run[j])
  BY <1>0, <1>2, <1>3, Advance
<1>5. Len(run) \in Nat /\ Len(longer) \in Nat /\ longer \in Seq(Positions(Server[i])) BY <1>3, <1>4 DEF IsRun
<1>6. j \in 1 .. Len(longer) /\ k \in 1 .. Len(longer) /\ longer[j] = run[j] /\ longer[k] = run[k]
  BY <1>4, <1>5
<1>7. OnRun(i, longer, j, k) BY <1>4, <1>6 DEF OnRun
<1>8. longer[j] \in Positions(Server[i]) /\ longer[k] \in Positions(Server[i])
      /\ longer[j + 1] \in Positions(Server[i])
  BY <1>4, <1>5, <1>6
<1> QED BY <1>4, <1>6, <1>7, <1>8

(* The CID that a client wants next is the next one that has an item.      *)
LEMMA DeepWants ==
  ASSUME Typed, NEW i \in Calls, Wanted(i), NEW run, NEW j \in 1 .. Len(run), NEW k \in 1 .. Len(run),
         OnRun(i, run, j, k), j + 1 \in 1 .. Len(run),
         run[j + 1] = StepOf(asked[i].full.filter, run[j]),
         run[j] \in Positions(Server[i]), run[k] \in Positions(Server[i])
  PROVE  /\ run[j + 1].out = Append(run[j].out, Top(i))
         /\ Len(run[j + 1].out) = Len(run[j].out) + 1
         /\ Len(run[j].out) + 1 <= Len(run[k].out) => run[k].out[Len(run[j].out) + 1] = Top(i)
         /\ Len(run[j].out) \in Nat
<1> DEFINE p == run[j]
           q == run[j + 1]
           n == Len(p.out)
<1>1. p.out \in Seq(Cids) /\ n \in Nat BY DEF Positions
<1>2. Looking(i) /\ ~IsSeen(i) /\ Includes(reader[i].walk.filter, Top(i)) BY DEF Wanted
<1>3. ClientAt(i, p) BY DEF OnRun
<1>4. p.stack = reader[i].walk.stack /\ p.seen = reader[i].walk.seen
      /\ reader[i].walk.filter = asked[i].full.filter /\ reader[i].walk.deep = TRUE
  BY <1>2, <1>3 DEF ClientAt, Looking
<1>5. Head(p.stack) = Top(i) /\ Top(i) \notin p.seen BY <1>2, <1>4 DEF Top, IsSeen
<1>6. q.out = Append(p.out, Top(i)) BY <1>2, <1>4, <1>5 DEF StepOf
<1>7. Top(i) \in Cids BY <1>2, LookingAt
<1>8. Len(q.out) = n + 1 /\ q.out[n + 1] = Top(i)
  <2> HIDE DEF p, q, n
  <2> QED BY <1>1, <1>6, <1>7 DEF n
<1>9. IsRun(Server[i], asked[i].full, run) BY DEF OnRun
<1>10. Agree(q.out, run[k].out) BY <1>9 DEF IsRun
<1>11. n + 1 <= Len(run[k].out) => run[k].out[n + 1] = Top(i)
  <2>1. n + 1 \in 1 .. Len(q.out) BY <1>1, <1>8
  <2> HIDE DEF n, q
  <2> QED BY <1>8, <1>10, <2>1 DEF Agree
<1> QED BY <1>1, <1>6, <1>8, <1>11

(* The items that it reads are about that CID.                             *)
LEMMA DeepFits ==
  ASSUME Typed, NEW i \in Calls, ReadOneResponse(i),
         NEW run, NEW j \in 1 .. Len(run), NEW k \in 1 .. Len(run),
         OnRun(i, run, j, k), j + 1 \in 1 .. Len(run),
         run[j + 1] = StepOf(asked[i].full.filter, run[j]),
         run[j] \in Positions(Server[i]), run[k] \in Positions(Server[i])
  PROVE  /\ Fits(Head(wire[i]), Top(i))
         /\ ServerAt(i, run[k], Len(run[j + 1].out))'
<1> DEFINE n == Len(run[j].out)
           cids == run[k].out
<1>1. Wanted(i) /\ wire[i] # <<>> BY DEF ReadOneResponse
<1>2. Len(run[j + 1].out) = n + 1 /\ (n + 1 <= Len(cids) => cids[n + 1] = Top(i)) /\ n \in Nat
  BY <1>1, DeepWants
<1>3. cids \in Seq(Cids) BY DEF Positions
<1>4. ServerAt(i, run[k], n) BY DEF OnRun
<1>5. Exchange(i, cids, n) BY <1>4 DEF ServerAt
<1>6. wire'[i] = Tail(wire[i]) /\ UNCHANGED <<asked, serving, sender>>
  BY DEF ReadOneResponse, Typed, serverVars
<1> HIDE DEF n, cids
<1>7. n + 1 \in 1 .. Len(cids) /\ Fits(Head(wire[i]), cids[n + 1]) /\ Exchange(i, cids, n + 1)'
  BY <1>1, <1>2, <1>3, <1>5, <1>6, ExchangeReads
<1>8. Fits(Head(wire[i]), Top(i)) BY <1>2, <1>7
<1>9. ServerAt(i, run[k], n + 1)'
  <2>1. /\ serving[i] = "waiting" => run[k] = Beginning(asked[i].full)
        /\ serving[i] = "walking" =>
             /\ sender[i].walk.stack = run[k].stack
             /\ sender[i].walk.seen = run[k].seen
             /\ \A c : Includes(sender[i].walk.filter, c) <=> Includes(asked[i].full.filter, c)
             /\ run[k].stack = <<>>
        /\ serving[i] = "done" => run[k].stack = <<>>
    BY <1>1, <1>4 DEF ServerAt
  <2> QED BY <1>6, <1>7, <2>1 DEF ServerAt, cids
<1> QED BY <1>2, <1>8, <1>9

(* Nor does the server end before the client does.                         *)
LEMMA DeepEnds ==
  ASSUME Typed, NEW i \in Calls, ReadEnd(i), Deep(i)
  PROVE  serving[i] = "failed"
<1> SUFFICES ASSUME serving[i] = "done" PROVE FALSE BY DEF ReadEnd
<1>1. Wanted(i) /\ wire[i] = <<>> BY DEF ReadEnd
<1> PICK run : \E j, k \in 1 .. Len(run) :
        /\ OnRun(i, run, j, k)
        /\ j + 1 \in 1 .. Len(run)
        /\ run[j + 1] = StepOf(asked[i].full.filter, run[j])
        /\ run[j] \in Positions(Server[i]) /\ run[k] \in Positions(Server[i])
  BY <1>1, DeepLooks DEF Wanted
<1>2. PICK j \in 1 .. Len(run), k \in 1 .. Len(run) :
        /\ OnRun(i, run, j, k)
        /\ j + 1 \in 1 .. Len(run)
        /\ run[j + 1] = StepOf(asked[i].full.filter, run[j])
        /\ run[j] \in Positions(Server[i]) /\ run[k] \in Positions(Server[i])
  OBVIOUS
<1>3. Len(run[j + 1].out) = Len(run[j].out) + 1 /\ Len(run[j].out) \in Nat BY <1>1, <1>2, DeepWants
<1>4. ServerAt(i, run[k], Len(run[j].out)) /\ IsRun(Server[i], asked[i].full, run) BY <1>2 DEF OnRun
<1>5. Len(wire[i]) = 0 BY <1>1
<1>6. Len(run[j].out) = Len(run[k].out) BY <1>3, <1>4, <1>5 DEF ServerAt, Exchange
<1>7. run[k].stack = <<>> BY <1>4 DEF ServerAt
<1>8. k = Len(run) BY <1>4, <1>7 DEF IsRun
<1>9. Len(run) \in Nat BY <1>4 DEF IsRun
<1>10. j + 1 <= k BY <1>2, <1>8, <1>9
<1>11. Len(run[j + 1].out) <= Len(run[k].out) BY <1>2, <1>4, <1>10 DEF IsRun
<1> QED BY <1>3, <1>6, <1>11

(* An item that a client accepts is recorded with its links.               *)
LEMMA Recorded ==
  ASSUME Typed, NEW i \in Calls, ReadOneResponse(i), reading'[i] # "error"
  PROVE  /\ hashes'[Client[i]][Top(i)] # None
         /\ links'[Client[i]][Top(i)] # None
<1> DEFINE c == Top(i)
           n == Client[i]
           item == Head(wire[i])
           good == item.data => item.blob /\ c.data = item.hash
           bad == ~good \/ (item.data /\ ExtractLinks(c, item.hash) = Error)
<1>1. n \in Nodes BY ConstantsAssumption
<1>2. c \in Cids /\ item \in Headers
  <2>1. Looking(i) /\ wire[i] # <<>> BY DEF ReadOneResponse, Wanted
  <2>2. wire[i] \in Seq(Headers) BY DEF Typed
  <2> QED BY <2>1, <2>2, LookingAt
<1>3. item.hash \in Data /\ item.hash # None BY <1>2, Atoms DEF Headers
<1>4. reading' = [reading EXCEPT ![i] = IF bad THEN "error" ELSE @]
      /\ IF ~good THEN UNCHANGED tables
         ELSE IF item.data THEN AddAndPut(n, c, item.hash)
         ELSE Put(n, c, item.hash, <<>>) /\ UNCHANGED store
  BY DEF ReadOneResponse
<1> HIDE DEF bad
<1>5. ~bad BY <1>4 DEF Typed
<1>6. ASSUME NEW ls \in Seq(Cids), Put(n, c, item.hash, ls)
      PROVE  hashes'[n][c] # None /\ links'[n][c] # None
  <2>1. ls # None BY Atoms
  <2>2. hashes' = [hashes EXCEPT ![n][c] = item.hash] /\ links' = [links EXCEPT ![n][c] = ls]
    BY <1>6 DEF Put
  <2> HIDE DEF c, n, item
  <2>3. hashes'[n][c] = item.hash /\ links'[n][c] = ls BY <1>1, <1>2, <2>2 DEF Typed, TablesTyped
  <2> QED BY <1>3, <2>1, <2>3
<1>7. CASE item.data
  <2>1. ExtractLinks(c, item.hash) # Error /\ AddAndPut(n, c, item.hash) BY <1>4, <1>5, <1>7 DEF bad
  <2>2. ExtractLinks(c, item.hash) \in Seq(Cids) BY <1>2, <1>3, <2>1, LinksType
  <2>3. Put(n, c, item.hash, ExtractLinks(c, item.hash)) BY <2>1 DEF AddAndPut
  <2> QED BY <1>6, <2>2, <2>3
<1>8. CASE ~item.data
  <2>1. Put(n, c, item.hash, <<>>) BY <1>4, <1>8
  <2>2. <<>> \in Seq(Cids) OBVIOUS
  <2> QED BY <1>6, <2>1, <2>2
<1> QED BY <1>7, <1>8

LEMMA ServerStays ==
  ASSUME NEW i \in Calls, NEW p, NEW n, ServerAt(i, p, n),
         asked'[i] = asked[i], serving'[i] = serving[i], sender'[i] = sender[i], wire'[i] = wire[i]
  PROVE  ServerAt(i, p, n)'
<1>1. Exchange(i, p.out, n)' BY DEF ServerAt, Exchange
<1> QED BY <1>1 DEF ServerAt, Beginning

LEMMA DeepClient ==
  ASSUME TInv, Careful, LinksMatch, [Next]_vars, NEW i \in Calls, sent[i] # None,
         Deep(i), ClientStep(i), reading'[i] # "error"
  PROVE  Deep(i)' \/ Lost(i)'
<1>0. Typed /\ Server[i] \in Nodes BY ConstantsAssumption DEF TInv
<1>1. asked'[i] = asked[i] /\ asked[i].full # None BY <1>0, ClientSteps DEF Deep
<1>2. ASSUME NEW run, NEW j \in 1 .. Len(run), NEW k \in 1 .. Len(run),
             IsRun(Server[i], asked[i].full, run), ServerAt(i, run[k], Len(run[j].out))',
             ClientAt(i, run[j])'
      PROVE  Deep(i)'
  <2>1. IsRun(Server[i], asked'[i].full, run) BY <1>1, <1>2
  <2>2. asked'[i].full # None BY <1>1
  <2> QED BY <1>2, <2>1, <2>2 DEF Deep
<1>3. ASSUME Looking(i),
             \A run : \A j, k \in 1 .. Len(run) :
               /\ OnRun(i, run, j, k)
               /\ j + 1 \in 1 .. Len(run)
               /\ run[j + 1] = StepOf(asked[i].full.filter, run[j])
               /\ run[j] \in Positions(Server[i]) /\ run[k] \in Positions(Server[i])
               /\ run[j + 1] \in Positions(Server[i])
               => ServerAt(i, run[k], Len(run[j + 1].out))' /\ ClientAt(i, run[j + 1])'
      PROVE  Deep(i)'
  <2>1. PICK run : \E j, k \in 1 .. Len(run) :
               /\ OnRun(i, run, j, k)
               /\ j + 1 \in 1 .. Len(run)
               /\ run[j + 1] = StepOf(asked[i].full.filter, run[j])
               /\ run[j] \in Positions(Server[i]) /\ run[k] \in Positions(Server[i])
               /\ run[j + 1] \in Positions(Server[i])
    BY <1>0, <1>3, DeepLooks
  <2>2. PICK j \in 1 .. Len(run), k \in 1 .. Len(run) :
               /\ OnRun(i, run, j, k)
               /\ j + 1 \in 1 .. Len(run)
               /\ run[j + 1] = StepOf(asked[i].full.filter, run[j])
               /\ run[j] \in Positions(Server[i]) /\ run[k] \in Positions(Server[i])
               /\ run[j + 1] \in Positions(Server[i])
    BY <2>1
  <2>3. ServerAt(i, run[k], Len(run[j + 1].out))' /\ ClientAt(i, run[j + 1])' BY <1>3, <2>2
  <2>4. IsRun(Server[i], asked[i].full, run) BY <2>2 DEF OnRun
  <2> QED BY <1>2, <2>2, <2>3, <2>4
<1>4. CASE Skip(i)
  <2>1. Looking(i) BY <1>4 DEF Skip
  <2>2. asked'[i] = asked[i] /\ serving'[i] = serving[i] /\ sender'[i] = sender[i] /\ wire'[i] = wire[i]
    BY <1>4 DEF Skip, serverVars
  <2>3. ASSUME NEW run, NEW j \in 1 .. Len(run), NEW k \in 1 .. Len(run),
               OnRun(i, run, j, k), run[j + 1] = StepOf(asked[i].full.filter, run[j]),
               run[j] \in Positions(Server[i])
        PROVE  ServerAt(i, run[k], Len(run[j + 1].out))' /\ ClientAt(i, run[j + 1])'
    <3>1. ServerAt(i, run[k], Len(run[j].out)) /\ ClientAt(i, run[j]) BY <2>3 DEF OnRun
    <3>2. ClientAt(i, run[j + 1])' /\ run[j + 1].out = run[j].out BY <1>0, <1>4, <2>3, <3>1, ClientSkips
    <3>3. ServerAt(i, run[k], Len(run[j].out))' BY <2>2, <3>1, ServerStays
    <3> QED BY <3>2, <3>3
  <2> QED BY <1>3, <2>1, <2>3
<1>5. CASE Pass(i)
  <2>1. Looking(i) /\ ~IsSeen(i) /\ ~Includes(reader[i].walk.filter, Top(i)) BY <1>5 DEF Pass
  <2>2. asked'[i] = asked[i] /\ serving'[i] = serving[i] /\ sender'[i] = sender[i] /\ wire'[i] = wire[i]
    BY <1>5 DEF Pass, serverVars
  <2>3. reader'[i] = [walk |-> Taken(i), at |-> Top(i)] BY <1>0, <1>5 DEF Pass, Typed
  <2>4. Top(i) \in Cids BY <1>0, <2>1, LookingAt
  <2>5. TraversalAsked(i) BY <1>1, WhatIsAsked DEF SequenceAsked
  <2>6. reader[i].walk.filter = asked[i].full.filter BY DEF Deep, ClientAt
  <2>7. Top(i).codec # "cbor" BY <2>1, <2>4, <2>5, <2>6 DEF TraversalAsked
  <2>8. ASSUME NEW run, NEW j \in 1 .. Len(run), NEW k \in 1 .. Len(run),
               OnRun(i, run, j, k), run[j + 1] = StepOf(asked[i].full.filter, run[j]),
               run[j] \in Positions(Server[i])
        PROVE  ServerAt(i, run[k], Len(run[j + 1].out))' /\ ClientAt(i, run[j + 1])'
    <3>1. ServerAt(i, run[k], Len(run[j].out)) /\ ClientAt(i, run[j]) BY <2>8 DEF OnRun
    <3>2. ClientAt(i, run[j + 1])' /\ run[j + 1].out = run[j].out
      BY <1>0, <2>1, <2>2, <2>3, <2>7, <2>8, <3>1, ClientTakes
    <3>3. ServerAt(i, run[k], Len(run[j].out))' BY <2>2, <3>1, ServerStays
    <3> QED BY <3>2, <3>3
  <2> QED BY <1>3, <2>1, <2>8
<1>6. CASE ReadOneResponse(i)
  <2>1. Wanted(i) BY <1>6 DEF ReadOneResponse
  <2>2. Looking(i) /\ ~IsSeen(i) BY <2>1 DEF Wanted
  <2>3. reader[i].walk.deep = TRUE BY DEF Deep, ClientAt
  <2>4. reader'[i] = [walk |-> Taken(i), at |-> Top(i)]
    <3>1. reader' = [reader EXCEPT ![i] = [walk |-> Taken(i), at |-> IF @.walk.deep THEN Top(i) ELSE None]]
      BY <1>6 DEF ReadOneResponse
    <3> QED BY <1>0, <2>3, <3>1 DEF Typed
  <2>5. hashes'[Client[i]][Top(i)] # None /\ links'[Client[i]][Top(i)] # None
    BY <1>0, <1>6, Recorded
  <2>6. ASSUME NEW run, NEW j \in 1 .. Len(run), NEW k \in 1 .. Len(run),
               OnRun(i, run, j, k), j + 1 \in 1 .. Len(run),
               run[j + 1] = StepOf(asked[i].full.filter, run[j]),
               run[j] \in Positions(Server[i]), run[k] \in Positions(Server[i])
        PROVE  ServerAt(i, run[k], Len(run[j + 1].out))' /\ ClientAt(i, run[j + 1])'
    <3>1. ClientAt(i, run[j]) BY <2>6 DEF OnRun
    <3>2. ClientAt(i, run[j + 1])' BY <1>0, <1>1, <2>2, <2>4, <2>5, <2>6, <3>1, ClientTakes
    <3>3. ServerAt(i, run[k], Len(run[j + 1].out))' BY <1>0, <1>6, <2>6, DeepFits
    <3> QED BY <3>2, <3>3
  <2> QED BY <1>3, <2>2, <2>6
<1>7. CASE ReadEnd(i)
  <2>1. serving[i] = "failed" BY <1>0, <1>7, DeepEnds
  <2>2. wire'[i] = <<>> /\ serving'[i] = serving[i] BY <1>7 DEF ReadEnd, serverVars
  <2> QED BY <2>1, <2>2 DEF Lost
<1>8. ASSUME Expand(i) \/ Return(i) PROVE Deep(i)'
  <2>1. asked'[i] = asked[i] /\ serving'[i] = serving[i] /\ sender'[i] = sender[i] /\ wire'[i] = wire[i]
    BY <1>8 DEF Expand, Return, serverVars
  <2>2. PICK run : \E j, k \in 1 .. Len(run) : OnRun(i, run, j, k) BY DEF Deep, OnRun
  <2>3. PICK j \in 1 .. Len(run), k \in 1 .. Len(run) : OnRun(i, run, j, k) BY <2>2
  <2>4. IsRun(Server[i], asked[i].full, run) /\ ServerAt(i, run[k], Len(run[j].out)) /\ ClientAt(i, run[j])
    BY <2>3 DEF OnRun
  <2>5. run[j] \in Positions(Server[i]) BY <2>4 DEF IsRun
  <2>6. ServerAt(i, run[k], Len(run[j].out))' BY <2>1, <2>4, ServerStays
  <2>7. Return(i) => reader'[i] = reader[i] BY DEF Return
  <2>8. ClientAt(i, run[j])' BY <1>0, <1>8, <2>1, <2>4, <2>5, <2>7, ClientStays, ClientExpands
  <2> QED BY <1>2, <2>4, <2>6, <2>8
<1> QED BY <1>4, <1>5, <1>6, <1>7, <1>8 DEF ClientStep

-----------------------------------------------------------------------------
(* Steps of a server on its run *)

(* It sends a bare hash only of a block that is the CID's own.             *)
LEMMA BareHash ==
  ASSUME TInv, Careful, RecordsMatch, NEW i \in Calls, sent[i] # None, Phases(i),
         serving[i] = "walking", NEW c \in Cids, ~Inlined(inline[i], c)
  PROVE  c.codec # "cbor" /\ hashes[Server[i]][c] \in {c.data, None}
<1> DEFINE o == DecodeRequest(sent[i]).inline
           own == {e[2] : e \in {l \in Library[Server[i]] : l[1] = c}}
<1>1. inline[i] = o BY DEF Phases
<1>2. InlineAsked(i) BY WhatIsAsked
<1>3. c.codec # "cbor" /\ \A e \in Library[Server[i]] : e[2] = e[1].data
  BY <1>1, <1>2 DEF InlineAsked
<1>4. hashes[Server[i]][c] \in {c.data, None} \cup own
  <2>1. Server[i] \in Nodes BY ConstantsAssumption
  <2> QED BY <2>1 DEF RecordsMatch
<1>5. own \subseteq {c.data} BY <1>3
<1> HIDE DEF own
<1> QED BY <1>3, <1>4, <1>5

LEMMA OutType ==
  ASSUME Typed, NEW i \in Calls
  PROVE  /\ sender[i].out \in Seq(Cids) /\ wire[i] \in Seq(Headers)
         /\ sender[i].walk \in Walks
         /\ sender[i].out # <<>> => Head(sender[i].out) \in Cids
<1>1. sender[i] \in Senders BY DEF Typed
<1>2. sender[i].out \in Seq(Cids) /\ sender[i].walk \in Walks BY <1>1 DEF Senders
<1> QED BY <1>2 DEF Typed

LEMMA ServerHandles ==
  ASSUME TInv, Careful, NEW i \in Calls, asked[i].full # None,
         NEW p, NEW n, ServerAt(i, p, n), HandleStream(i)
  PROVE  ServerAt(i, p, n)'
<1> DEFINE g == asked[i].full
           t == DecodeRequest(sent[i]).traversal
<1>1. TraversalAsked(i) BY WhatIsAsked DEF HandleStream, SequenceAsked
<1>2. t.sequence = None /\ t.full # None /\ t.full.root = g.root /\ t.full.visited = g.visited
      /\ \A c : Includes(t.full.filter, c) <=> Includes(g.filter, c)
  BY <1>1 DEF TraversalAsked
<1>3. p = Beginning(g) /\ n = 0 /\ wire[i] = <<>>
  BY DEF HandleStream, ServerAt, Exchange
<1>4. p.stack = <<g.root>> /\ p.seen = g.visited /\ p.out = <<>> BY <1>3 DEF Beginning
<1> HIDE DEF t
<1>5. /\ serving'[i] = "walking" /\ wire'[i] = <<>> /\ asked'[i] = asked[i]
      /\ sender'[i] = [walk |-> Walk(t), out |-> <<>>]
  BY <1>2, <1>3 DEF HandleStream, TInv, Typed, t
<1>6. Walk(t).stack = p.stack /\ Walk(t).seen = p.seen /\ Walk(t).filter = t.full.filter
  BY <1>2, <1>4 DEF Walk
<1> HIDE DEF g
<1>7. /\ sender'[i].walk.stack = p.stack /\ sender'[i].walk.seen = p.seen
      /\ sender'[i].walk.filter = t.full.filter /\ sender'[i].out = <<>>
  BY <1>5, <1>6
<1>8. Exchange(i, p.out, n)' BY <1>3, <1>4, <1>5, <1>7 DEF Exchange
<1> QED BY <1>2, <1>3, <1>5, <1>7, <1>8 DEF ServerAt, g

LEMMA ServerTraverses ==
  ASSUME TInv, LinksMatch, NEW i \in Calls,
         NEW p \in Positions(Server[i]), NEW n \in Nat, ServerAt(i, p, n), Traverse(i),
         NEW q, q = StepOf(asked[i].full.filter, p)
  PROVE  p.stack # <<>> /\ ServerAt(i, q, n)'
<1> DEFINE w == sender[i].walk
           c == Head(w.stack)
           out == sender[i].out
<1>0. Typed /\ Server[i] \in Nodes BY ConstantsAssumption DEF TInv
<1>1. w \in Walks /\ out \in Seq(Cids) /\ wire[i] \in Seq(Headers) BY <1>0, OutType
<1>2. w.stack # <<>> /\ serving[i] = "walking" /\ asked' = asked /\ wire' = wire /\ serving' = serving
  BY DEF Traverse
<1>3. /\ w.stack = p.stack /\ w.seen = p.seen
      /\ \A b : Includes(w.filter, b) <=> Includes(asked[i].full.filter, b)
      /\ n = 0 /\ wire[i] = <<>>
  BY <1>2 DEF ServerAt
<1>4. c = Head(p.stack) /\ c \in Held(Server[i]) BY <1>0, <1>2, <1>3, StepType
<1>5. Follow(Server[i], c) = Ref(c)
  <2>1. c \in Cids /\ (c.codec = "cbor" => c \in Loaded[Server[i]]) BY <1>0, <1>4, HeldLinks
  <2>2. c.codec = "cbor" => links[Server[i]][c] # None BY <1>0, <2>1 DEF LinksMatch
  <2> QED BY <1>0, <2>1, <2>2, FollowsRef
<1>6. out = p.out
  <2> DEFINE o == p.out
  <2>1. o \in Seq(Cids) BY DEF Positions
  <2>2. Exchange(i, o, n) BY DEF ServerAt
  <2>3. Len(wire[i]) = 0 BY <1>3
  <2>4. Len(out) = Len(o) - n - Len(wire[i])
        /\ \A m \in 1 .. Len(out) : out[m] = o[n + Len(wire[i]) + m]
    BY <1>2, <2>2 DEF Exchange
  <2> HIDE DEF o, out
  <2>5. Len(out) = Len(o) /\ \A m \in 1 .. Len(out) : out[m] = o[m] BY <1>1, <1>3, <2>1, <2>3, <2>4
  <2> QED BY <1>1, <2>1, <2>5, SeqEqual DEF o
<1> DEFINE x == IF c \in w.seen THEN [walk |-> [w EXCEPT !.stack = Tail(w.stack)], out |-> out]
                ELSE [walk |-> [w EXCEPT !.seen = w.seen \cup {c},
                                         !.stack = Follow(Server[i], c) \o Tail(w.stack)],
                      out |-> IF Includes(w.filter, c) THEN Append(out, c) ELSE out]
           v == sender'[i].walk
<1>7. sender'[i] = x BY <1>0 DEF Traverse, Typed
<1>8. q = IF c \in p.seen THEN [p EXCEPT !.stack = Tail(p.stack)]
          ELSE [stack |-> Ref(c) \o Tail(p.stack), seen |-> p.seen \cup {c},
                out |-> IF Includes(asked[i].full.filter, c) THEN Append(p.out, c) ELSE p.out]
  BY <1>4 DEF StepOf
<1>9. v.stack = q.stack /\ v.seen = q.seen /\ v.filter = w.filter /\ sender'[i].out = q.out
  <2>1. CASE c \in p.seen
    <3>1. x = [walk |-> [w EXCEPT !.stack = Tail(w.stack)], out |-> out] BY <1>3, <2>1
    <3>2. q = [p EXCEPT !.stack = Tail(p.stack)] BY <1>8, <2>1
    <3>3. q.stack = Tail(p.stack) /\ q.seen = p.seen /\ q.out = p.out BY <3>2 DEF Positions
    <3> HIDE DEF x
    <3>4. v = [w EXCEPT !.stack = Tail(w.stack)] /\ sender'[i].out = out BY <1>7, <3>1
    <3> HIDE DEF w, v, out, c
    <3>5. v.stack = Tail(w.stack) /\ v.seen = w.seen /\ v.filter = w.filter BY <1>1, <3>4 DEF Walks
    <3> QED BY <1>3, <1>6, <3>3, <3>4, <3>5
  <2>2. CASE c \notin p.seen
    <3> DEFINE o == IF Includes(w.filter, c) THEN Append(out, c) ELSE out
               u == [w EXCEPT !.seen = w.seen \cup {c}, !.stack = Follow(Server[i], c) \o Tail(w.stack)]
    <3>1. x = [walk |-> u, out |-> o] BY <1>3, <2>2
    <3>2. u.stack = Follow(Server[i], c) \o Tail(w.stack) /\ u.seen = w.seen \cup {c} /\ u.filter = w.filter
      BY <1>1 DEF Walks
    <3>3. q = [stack |-> Ref(c) \o Tail(p.stack), seen |-> p.seen \cup {c}, out |-> o]
      BY <1>3, <1>6, <1>8, <2>2
    <3> HIDE DEF x, o, u
    <3>4. v = u /\ sender'[i].out = o BY <1>7, <3>1
    <3> HIDE DEF c
    <3>5. q.stack = Ref(c) \o Tail(p.stack) /\ q.seen = p.seen \cup {c} /\ q.out = o BY <3>3
    <3> HIDE DEF w, v, c
    <3> QED BY <1>3, <1>5, <3>2, <3>4, <3>5
  <2> QED BY <2>1, <2>2
<1> HIDE DEF v, x, w, out, c
<1>10. q.out \in Seq(Cids)
  <2>1. q \in Positions(Server[i]) BY <1>0, <1>2, <1>3, StepType
  <2> QED BY <2>1 DEF Positions
<1>11. Exchange(i, q.out, n)'
  <2> DEFINE o == q.out
  <2>1. sender'[i].out = o /\ wire'[i] = <<>> /\ serving'[i] = "walking" BY <1>2, <1>3, <1>9
  <2> HIDE DEF o
  <2>2. Len(o) \in Nat BY <1>10 DEF o
  <2>3. Exchange(i, o, n)' BY <1>3, <2>1, <2>2 DEF Exchange
  <2> QED BY <2>3 DEF o
<1>12. ServerAt(i, q, n)' BY <1>2, <1>3, <1>9, <1>11 DEF ServerAt, v
<1> QED BY <1>2, <1>3, <1>12

LEMMA ServerWrites ==
  ASSUME TInv, Careful, RecordsMatch, NEW i \in Calls, sent[i] # None, Phases(i),
         NEW p \in Positions(Server[i]), NEW n \in Nat, ServerAt(i, p, n),
         WriteItem(i) \/ Close(i) \/ Stop(i)
  PROVE  ServerAt(i, p, n)'
<1>0. Typed BY DEF TInv
<1>1. p.out \in Seq(Cids) /\ Exchange(i, p.out, n) BY DEF Positions, ServerAt
<1>2. serving[i] = "walking" /\ sender[i].walk.stack = <<>> /\ asked' = asked
  BY DEF WriteItem, Close, Stop
<1>3. p.stack = <<>> /\ sender[i].walk.seen = p.seen
      /\ \A c : Includes(sender[i].walk.filter, c) <=> Includes(asked[i].full.filter, c)
  BY <1>2 DEF ServerAt
<1>4. Exchange(i, p.out, n)'
  <2>1. CASE WriteItem(i)
    <3>1. Head(sender[i].out) \in Cids BY <1>0, <2>1, OutType DEF WriteItem
    <3>2. ~Inlined(inline[i], Head(sender[i].out)) =>
            /\ Head(sender[i].out).codec # "cbor"
            /\ hashes[Server[i]][Head(sender[i].out)] \in {Head(sender[i].out).data, None}
      BY <1>2, <3>1, BareHash
    <3> QED BY <1>0, <1>1, <2>1, <3>2, ExchangeWrites
  <2>2. CASE Close(i) BY <1>0, <1>1, <2>2, ExchangeCloses
  <2>3. CASE Stop(i)
    <3>1. wire'[i] = wire[i] /\ serving'[i] = "failed" BY <1>0, <2>3 DEF Stop, Typed
    <3> QED BY <1>1, <3>1, ExchangeStays
  <2> QED BY <2>1, <2>2, <2>3
<1>5. sender'[i].walk = sender[i].walk
  <2>1. sender[i] \in Senders BY <1>0 DEF Typed
  <2> QED BY <1>0, <2>1 DEF WriteItem, Close, Stop, Typed, Senders
<1>6. serving'[i] # "waiting" BY <1>0, <1>2 DEF WriteItem, Close, Stop, Typed
<1> QED BY <1>2, <1>3, <1>4, <1>5, <1>6 DEF ServerAt

LEMMA DeepServer ==
  ASSUME TInv, Careful, LinksMatch, RecordsMatch, [Next]_vars, NEW i \in Calls, sent[i] # None,
         Phases(i), Deep(i), ServerStep(i) \/ Stop(i)
  PROVE  Deep(i)'
<1>0. Typed /\ Server[i] \in Nodes BY ConstantsAssumption DEF TInv
<1>1. PICK run : \E j, k \in 1 .. Len(run) : OnRun(i, run, j, k) BY DEF Deep, OnRun
<1>2. PICK j \in 1 .. Len(run), k \in 1 .. Len(run) : OnRun(i, run, j, k) BY <1>1
<1>3. IsRun(Server[i], asked[i].full, run) /\ ServerAt(i, run[k], Len(run[j].out)) /\ ClientAt(i, run[j])
  BY <1>2 DEF OnRun
<1>4. asked[i].full # None BY DEF Deep
<1>5. asked'[i] = asked[i] /\ reader'[i] = reader[i]
  BY DEF ServerStep, HandleStream, Traverse, WriteItem, Close, Stop
<1>6. run[j] \in Positions(Server[i]) /\ run[k] \in Positions(Server[i]) /\ Len(run) \in Nat BY <1>3 DEF IsRun
<1>7. Len(run[j].out) \in Nat
  <2>1. run[j].out \in Seq(Cids) BY <1>6 DEF Positions
  <2> QED BY <2>1
<1>8. ClientAt(i, run[j])' BY <1>0, <1>3, <1>5, ClientStays
<1>9. ASSUME ServerAt(i, run[k], Len(run[j].out))' PROVE Deep(i)'
  <2>1. IsRun(Server[i], asked'[i].full, run) /\ asked'[i].full # None BY <1>3, <1>4, <1>5
  <2> QED BY <1>8, <1>9, <2>1 DEF Deep
<1>10. HandleStream(i) => Deep(i)' BY <1>3, <1>4, <1>9, ServerHandles
<1>11. WriteItem(i) \/ Close(i) \/ Stop(i) => Deep(i)' BY <1>3, <1>6, <1>7, <1>9, ServerWrites
<1>12. CASE Traverse(i)
  <2>1. run[k].stack # <<>>
    BY <1>3, <1>6, <1>7, <1>12, ServerTraverses
  <2>2. PICK longer :
          /\ IsRun(Server[i], asked[i].full, longer)
          /\ Len(run) <= Len(longer) /\ \A m \in 1 .. Len(run) : longer[m] = run[m]
          /\ k + 1 \in 1 .. Len(longer)
          /\ longer[k + 1] = StepOf(asked[i].full.filter, run[k])
    <3> DEFINE g == asked[i].full
               n == Server[i]
    <3>1. IsRun(n, g, run) /\ n \in Nodes BY <1>0, <1>3
    <3> HIDE DEF g, n
    <3>2. \E longer :
            /\ IsRun(n, g, longer)
            /\ Len(run) <= Len(longer) /\ \A m \in 1 .. Len(run) : longer[m] = run[m]
            /\ k + 1 \in 1 .. Len(longer)
            /\ longer[k + 1] = StepOf(g.filter, run[k])
      BY <2>1, <3>1, Advance
    <3> QED BY <3>2 DEF g, n
  <2>3. Len(longer) \in Nat BY <2>2 DEF IsRun
  <2>4. j \in 1 .. Len(longer) /\ longer[j] = run[j] BY <1>6, <2>2, <2>3
  <2>5. ServerAt(i, longer[k + 1], Len(run[j].out))' BY <1>3, <1>6, <1>7, <1>12, <2>2, ServerTraverses
  <2>6. ServerAt(i, longer[k + 1], Len(longer[j].out))' /\ ClientAt(i, longer[j])' BY <1>8, <2>4, <2>5
  <2>7. IsRun(Server[i], asked'[i].full, longer) /\ asked'[i].full # None BY <1>4, <1>5, <2>2
  <2> QED BY <2>2, <2>4, <2>6, <2>7 DEF Deep
<1> QED BY <1>10, <1>11, <1>12 DEF ServerStep

-----------------------------------------------------------------------------
(* Steps of a call that asks for a sequence *)

LEMMA FlatWants ==
  ASSUME TInv, Careful, NEW i \in Calls, sent[i] # None, Flat(i)
  PROVE  /\ asked[i].sequence \in Seq(Cids)
         /\ DecodeRequest(sent[i]).traversal.sequence = asked[i].sequence
         /\ Looking(i) => ~IsSeen(i) /\ Wanted(i)
<1>1. asked[i].full = None /\ reader[i].walk.deep = FALSE /\ reader[i].walk.filter = None BY DEF Flat
<1>2. SequenceAsked(i) BY <1>1, WhatIsAsked DEF TraversalAsked
<1> QED BY <1>1, <1>2 DEF SequenceAsked, IsSeen, Wanted, Includes

(* Its items are about the CIDs at the top of the client's stack.          *)
LEMMA FlatReads ==
  ASSUME TInv, Careful, [Next]_vars, NEW i \in Calls, sent[i] # None, Flat(i), ReadOneResponse(i)
  PROVE  /\ Fits(Head(wire[i]), Top(i))
         /\ reading'[i] # "error" => Flat(i)'
<1> DEFINE w == reader[i].walk
           c == Top(i)
<1>0. Typed /\ Client[i] \in Nodes BY ConstantsAssumption DEF TInv
<1>1. PICK cids \in Seq(Cids) : cids = asked[i].sequence BY FlatWants
<1>2. PICK n \in 0 .. Len(cids) :
        /\ Exchange(i, cids, n)
        /\ Len(w.stack) = Len(cids) - n
        /\ \A m \in 1 .. Len(w.stack) : w.stack[m] = cids[n + m]
  BY <1>1 DEF Flat
<1>3. Looking(i) /\ wire[i] # <<>> BY DEF ReadOneResponse, Wanted
<1>4. c \in Cids /\ reader[i] \in Readers BY <1>0, <1>3, LookingAt DEF Typed
<1>5. w \in Walks /\ w.stack \in Seq(Cids) /\ w.stack # <<>> /\ c = Head(w.stack) /\ w.seen \subseteq Cids
  BY <1>3, <1>4 DEF Readers, Walks, Looking, Top
<1>6. n \in Nat /\ Len(cids) \in Nat BY <1>1
<1>7. /\ wire'[i] = Tail(wire[i]) /\ serving'[i] = serving[i] /\ sender'[i] = sender[i]
      /\ asked'[i] = asked[i]
  BY <1>0 DEF ReadOneResponse, Typed, serverVars
<1>8. n + 1 \in 1 .. Len(cids) /\ Fits(Head(wire[i]), cids[n + 1]) /\ Exchange(i, cids, n + 1)'
  BY <1>0, <1>2, <1>3, <1>6, <1>7, ExchangeReads
<1> DEFINE s == w.stack
<1>9. c = s[1] /\ Len(s) \in Nat /\ Len(s) >= 1 /\ Len(Tail(s)) = Len(s) - 1
      /\ \A m \in 1 .. Len(Tail(s)) : Tail(s)[m] = s[m + 1]
  <2> HIDE DEF s, c
  <2> QED BY <1>5 DEF s, c
<1>10. c = cids[n + 1]
  <2> HIDE DEF s, c
  <2>1. 1 \in 1 .. Len(s) BY <1>9
  <2> QED BY <1>2, <1>9, <2>1 DEF s
<1>11. Fits(Head(wire[i]), c) BY <1>8, <1>10
<1>12. ASSUME reading'[i] # "error" PROVE Flat(i)'
  <2> DEFINE v == reader'[i].walk
  <2>1. reader[i].walk.deep = FALSE /\ reader[i].walk.filter = None /\ asked[i].full = None
        /\ (serving[i] = "walking" => sender[i].walk.stack = <<>>)
        /\ \A b \in w.seen : hashes[Client[i]][b] # None
    BY DEF Flat
  <2>2. reader' = [reader EXCEPT ![i] = [walk |-> Taken(i), at |-> IF @.walk.deep THEN Top(i) ELSE None]]
    BY DEF ReadOneResponse
  <2>3. reader'[i] = [walk |-> Taken(i), at |-> None] BY <1>0, <2>1, <2>2 DEF Typed
  <2>4. Taken(i) = [w EXCEPT !.stack = Tail(w.stack), !.seen = w.seen \cup {c}] BY <1>5 DEF Taken, Walks
  <2>5. /\ Taken(i).deep = w.deep /\ Taken(i).filter = w.filter
        /\ Taken(i).stack = Tail(w.stack) /\ Taken(i).seen = w.seen \cup {c}
    BY <1>5, <2>4 DEF Walks
  <2>6. v = Taken(i) /\ reader'[i].at = None BY <2>3
  <2>7. hashes'[Client[i]][c] # None BY <1>0, <1>12, Recorded
  <2>8. \A b \in Cids : hashes[Client[i]][b] # None => hashes'[Client[i]][b] # None
    BY <1>0, RecordsGrow
  <2> HIDE DEF w, c, v
  <2>9. v.deep = FALSE /\ v.filter = None /\ v.stack = Tail(s) BY <2>1, <2>5, <2>6 DEF w
  <2>10. \A b \in v.seen : hashes'[Client[i]][b] # None BY <1>5, <2>1, <2>5, <2>6, <2>7, <2>8
  <2> HIDE DEF s
  <2>11. Len(v.stack) = Len(cids) - (n + 1) BY <1>2, <1>6, <1>9, <2>9 DEF s
  <2>12. ASSUME NEW m \in 1 .. Len(v.stack) PROVE v.stack[m] = cids[(n + 1) + m]
    <3>1. m + 1 \in 1 .. Len(s) /\ n + (m + 1) = (n + 1) + m BY <1>6, <1>9, <2>9
    <3>2. s[m + 1] = cids[n + (m + 1)] BY <1>2, <3>1 DEF s
    <3> QED BY <1>9, <2>9, <3>1, <3>2
  <2>13. n + 1 \in 0 .. Len(cids) BY <1>6, <1>8
  <2>14. asked'[i].sequence = cids /\ asked'[i].full = None BY <1>1, <1>7, <2>1
  <2>15. serving'[i] = "walking" => sender'[i].walk.stack = <<>> BY <1>7, <2>1
  <2> QED BY <1>8, <2>6, <2>9, <2>10, <2>11, <2>12, <2>13, <2>14, <2>15 DEF Flat, v
<1> QED BY <1>11, <1>12

LEMMA FlatClient ==
  ASSUME TInv, Careful, [Next]_vars, NEW i \in Calls, sent[i] # None,
         Flat(i), ClientStep(i), reading'[i] # "error"
  PROVE  Flat(i)' \/ Lost(i)'
<1>0. Typed /\ Client[i] \in Nodes BY ConstantsAssumption DEF TInv
<1>1. ~Skip(i) /\ ~Pass(i) BY FlatWants DEF Skip, Pass, Wanted
<1>2. ~Expand(i) BY DEF Flat, Expand
<1>3. CASE ReadOneResponse(i) BY <1>3, FlatReads
<1>4. CASE ReadEnd(i)
  <2>1. Looking(i) /\ wire[i] = <<>> BY <1>4 DEF ReadEnd, Wanted
  <2>2. serving[i] # "done"
    <3>1. PICK cids \in Seq(Cids) : cids = asked[i].sequence BY FlatWants
    <3>2. PICK n \in 0 .. Len(cids) :
            Exchange(i, cids, n) /\ Len(reader[i].walk.stack) = Len(cids) - n
      BY <3>1 DEF Flat
    <3>3. Len(wire[i]) = 0 BY <2>1
    <3>4. reader[i] \in Readers BY <1>0 DEF Typed
    <3>5. reader[i].walk.stack \in Seq(Cids) /\ reader[i].walk.stack # <<>>
      BY <2>1, <3>4 DEF Looking, Readers, Walks
    <3>6. Len(reader[i].walk.stack) # 0 BY <3>5
    <3>7. Len(cids) \in Nat BY <3>1
    <3> QED BY <3>2, <3>3, <3>6, <3>7 DEF Exchange
  <2>3. serving[i] = "failed" BY <1>4, <2>2 DEF ReadEnd
  <2>4. wire'[i] = <<>> /\ serving'[i] = serving[i] BY <1>4, <2>1 DEF ReadEnd, serverVars
  <2> QED BY <2>3, <2>4 DEF Lost
<1>5. CASE Return(i)
  <2>1. UNCHANGED <<tables, asked, sent, serverVars, wire, reader>> BY <1>5 DEF Return
  <2> QED BY <2>1 DEF Flat, Exchange, tables, serverVars
<1> QED BY <1>1, <1>2, <1>3, <1>4, <1>5 DEF ClientStep

LEMMA FlatServer ==
  ASSUME TInv, Careful, RecordsMatch, NEW i \in Calls, sent[i] # None, Phases(i),
         Flat(i), ServerStep(i) \/ Stop(i)
  PROVE  Flat(i)'
<1>0. Typed BY DEF TInv
<1>1. PICK cids \in Seq(Cids) : cids = asked[i].sequence /\ cids # None
  <2>1. asked[i].sequence \in Seq(Cids) BY FlatWants
  <2>2. asked[i].sequence # None BY <2>1, Atoms
  <2> QED BY <2>1, <2>2
<1>2. PICK n \in 0 .. Len(cids) :
        /\ Exchange(i, cids, n)
        /\ Len(reader[i].walk.stack) = Len(cids) - n
        /\ \A m \in 1 .. Len(reader[i].walk.stack) : reader[i].walk.stack[m] = cids[n + m]
  BY <1>1 DEF Flat
<1>3. n \in Nat /\ Len(cids) \in Nat BY <1>1
<1>4. UNCHANGED <<asked, reader, tables>>
  BY DEF ServerStep, HandleStream, Traverse, WriteItem, Close, Stop
<1>5. ASSUME Exchange(i, cids, n)', serving'[i] = "walking" => sender'[i].walk.stack = <<>>
      PROVE  Flat(i)'
  <2>1. asked'[i].sequence = cids BY <1>1, <1>4
  <2>2. /\ asked'[i].full = None /\ reader'[i] = reader[i]
        /\ reader[i].walk.deep = FALSE /\ reader[i].walk.filter = None /\ reader[i].at = None
        /\ \A c \in reader[i].walk.seen : hashes'[Client[i]][c] # None
    BY <1>4 DEF Flat, tables
  <2> QED BY <1>2, <1>5, <2>1, <2>2 DEF Flat
<1>6. CASE HandleStream(i)
  <2>1. DecodeRequest(sent[i]).traversal.sequence = cids BY <1>1, FlatWants
  <2>2. serving'[i] = "walking" /\ sender'[i] = [walk |-> NoWalk, out |-> cids] /\ wire'[i] = wire[i]
        /\ serving[i] = "waiting"
    BY <1>0, <1>1, <1>6, <2>1 DEF HandleStream, Typed
  <2>3. n = 0 /\ wire'[i] = <<>> BY <1>2, <2>2 DEF Exchange
  <2>4. sender'[i].out = cids /\ sender'[i].walk.stack = <<>> BY <2>2, NoWalkType
  <2>5. Exchange(i, cids, n)' BY <1>3, <2>2, <2>3, <2>4 DEF Exchange
  <2> QED BY <1>5, <2>4, <2>5
<1>7. ~Traverse(i) BY DEF Flat, Traverse
<1>8. CASE WriteItem(i) \/ Close(i) \/ Stop(i)
  <2>1. serving[i] = "walking" /\ sender[i].walk.stack = <<>> BY <1>8 DEF WriteItem, Close, Stop
  <2>2. sender'[i].walk = sender[i].walk
    <3>1. sender[i] \in Senders BY <1>0 DEF Typed
    <3> QED BY <1>0, <1>8, <3>1 DEF WriteItem, Close, Stop, Typed, Senders
  <2>3. Exchange(i, cids, n)'
    <3>1. CASE WriteItem(i)
      <4>1. Head(sender[i].out) \in Cids BY <1>0, <3>1, OutType DEF WriteItem
      <4>2. ~Inlined(inline[i], Head(sender[i].out)) =>
              /\ Head(sender[i].out).codec # "cbor"
              /\ hashes[Server[i]][Head(sender[i].out)] \in {Head(sender[i].out).data, None}
        BY <2>1, <4>1, BareHash
      <4> QED BY <1>0, <1>2, <1>3, <3>1, <4>2, ExchangeWrites
    <3>2. CASE Close(i) BY <1>0, <1>2, <1>3, <3>2, ExchangeCloses
    <3>3. CASE Stop(i)
      <4>1. wire'[i] = wire[i] /\ serving'[i] = "failed" BY <1>0, <3>3 DEF Stop, Typed
      <4> QED BY <1>2, <1>3, <4>1, ExchangeStays
    <3> QED BY <1>8, <3>1, <3>2, <3>3
  <2> QED BY <1>5, <2>1, <2>2, <2>3
<1> QED BY <1>6, <1>7, <1>8 DEF ServerStep

-----------------------------------------------------------------------------
(* The beginning of a call *)

LEMMA WhatMayBeAsked ==
  ASSUME Careful, NEW i \in Calls, NEW r \in Requests[i], EncodeRequest(r) # Error
  PROVE  LET u == r.traversal IN
         \/ u.full = None /\ u.sequence \in Seq(Cids)
         \/ u.full # None /\ u.full \in FullTraversals /\ u.full.root \in Held(Server[i])
<1> DEFINE u == r.traversal
<1>1. CarefulRequest(i, r) BY DEF Careful
<1>2. u \in Traversals BY RequestType
<1>3. u.sequence # None \/ u.full # None BY RequestEncoding
<1>4. u.full # None => u.sequence = None /\ Holds(Server[i], u.full.root) BY <1>1 DEF CarefulRequest
<1>5. CASE u.full = None
  <2>1. u.sequence \in Seq(Cids) BY <1>2, <1>3, <1>5 DEF Traversals
  <2> QED BY <1>5, <2>1
<1>6. CASE u.full # None
  <2>1. u.full \in FullTraversals BY <1>2, <1>6 DEF Traversals
  <2>2. u.full.root \in Cids BY <2>1 DEF FullTraversals
  <2>3. u.full.root \in Held(Server[i]) BY <1>4, <1>6, <2>2 DEF Held
  <2> QED BY <1>6, <2>1, <2>3
<1> QED BY <1>5, <1>6

LEMMA CallBegins ==
  ASSUME TInv, Careful, NEW i \in Calls, Phases(i), Sync(i)
  PROVE  Course(i)'
<1>0. Typed /\ Requested(i) BY DEF TInv
<1>1. PICK r \in Requests[i] :
        /\ reading[i] = "idle"
        /\ asked' = [asked EXCEPT ![i] = r.traversal]
        /\ IF EncodeRequest(r) = Error
           THEN reading' = [reading EXCEPT ![i] = "error"] /\ UNCHANGED <<sent, reader>>
           ELSE /\ reading' = [reading EXCEPT ![i] = "reading"]
                /\ sent' = [sent EXCEPT ![i] = EncodeRequest(r)]
                /\ reader' = [reader EXCEPT ![i].walk = Walk(r.traversal)]
  BY DEF Sync
<1>2. UNCHANGED <<tables, serving, sender, inline, wire>> BY DEF Sync, serverVars
<1>3. CASE EncodeRequest(r) = Error
  <2>1. reading'[i] = "error" BY <1>0, <1>1, <1>3 DEF Typed
  <2> QED BY <2>1 DEF Course
<1>4. CASE EncodeRequest(r) # Error
  <2> DEFINE u == r.traversal
             v == reader'[i].walk
  <2>1. sent[i] = None BY <1>0, <1>1 DEF Requested
  <2>2. serving'[i] = "waiting" /\ wire'[i] = <<>> /\ reader[i].at = None
    BY <1>1, <1>2, <2>1 DEF Phases
  <2>3. asked'[i] = u BY <1>0, <1>1 DEF Typed
  <2>4. v = Walk(u) /\ reader'[i].at = None
    <3>1. reader' = [reader EXCEPT ![i].walk = Walk(u)] BY <1>1, <1>4
    <3>2. reader[i] \in Readers BY <1>0 DEF Typed
    <3> QED BY <1>0, <2>2, <3>1, <3>2 DEF Typed, Readers
  <2>5. \/ u.full = None /\ u.sequence \in Seq(Cids)
        \/ u.full # None /\ u.full \in FullTraversals /\ u.full.root \in Held(Server[i])
    BY <1>4, WhatMayBeAsked
  <2>6. CASE u.full = None /\ u.sequence \in Seq(Cids)
    <3> DEFINE cids == u.sequence
    <3>1. v = [NoWalk EXCEPT !.stack = cids] BY <2>4, <2>6 DEF Walk
    <3> HIDE DEF v
    <3>2. v.deep = FALSE /\ v.filter = None /\ v.stack = cids /\ v.seen = {} BY <3>1 DEF NoWalk
    <3>3. Len(cids) \in Nat BY <2>6
    <3>4. Exchange(i, cids, 0)'
      <4> HIDE DEF cids
      <4>1. Len(wire'[i]) = 0 BY <2>2
      <4> QED BY <2>2, <3>3, <4>1 DEF Exchange
    <3>5. asked'[i].full = None /\ asked'[i].sequence = cids BY <2>3, <2>6
    <3> HIDE DEF cids
    <3>6. 0 \in 0 .. Len(cids) /\ Len(v.stack) = Len(cids) - 0
          /\ \A m \in 1 .. Len(v.stack) : v.stack[m] = cids[0 + m]
      BY <3>2, <3>3
    <3>7. Flat(i)' BY <2>2, <2>4, <3>2, <3>4, <3>5, <3>6 DEF Flat, v
    <3> QED BY <3>7 DEF Course
  <2>7. CASE u.full # None /\ u.full \in FullTraversals /\ u.full.root \in Held(Server[i])
    <3> DEFINE g == u.full
               p == Beginning(g)
               run == <<p>>
    <3>1. g.root \in Held(Server[i]) /\ g.visited \subseteq Cids BY <2>7 DEF FullTraversals
    <3>2. v = [deep |-> TRUE, stack |-> <<g.root>>, seen |-> g.visited, filter |-> g.filter]
      BY <2>4, <2>7 DEF Walk
    <3> HIDE DEF v, g
    <3>3. p.stack = <<g.root>> /\ p.seen = g.visited /\ p.out = <<>> /\ p \in Positions(Server[i])
      BY <3>1 DEF Beginning, Positions
    <3>4. v.deep = TRUE /\ v.stack = p.stack /\ v.seen = p.seen /\ v.filter = g.filter BY <3>2, <3>3
    <3>5. asked'[i].full = g BY <2>3 DEF g
    <3>6. ServerAt(i, p, 0)'
      <4>1. p = Beginning(asked'[i].full) BY <3>5
      <4>2. Exchange(i, p.out, 0)' BY <2>2, <3>3 DEF Exchange
      <4> HIDE DEF p
      <4> QED BY <2>2, <4>1, <4>2 DEF ServerAt
    <3>7. ClientAt(i, p)'
      <4>1. v.seen \ asked'[i].full.visited = {} BY <3>3, <3>4, <3>5
      <4> HIDE DEF p
      <4> QED BY <2>4, <3>4, <3>5, <4>1 DEF ClientAt, v
    <3> HIDE DEF p
    <3>8. run[1] = p /\ Len(run) = 1 /\ run \in Seq(Positions(Server[i])) /\ run # <<>> BY <3>3
    <3> HIDE DEF run
    <3>9. IsRun(Server[i], g, run)
      <4>1. Agree(p.out, p.out) BY DEF Agree
      <4>2. Len(p.out) <= Len(p.out) BY <3>3
      <4>3. \A k \in 1 .. Len(run) : k = 1 BY <3>8
      <4>4. run[1] = Beginning(g) BY <3>8 DEF p
      <4> QED BY <3>8, <4>1, <4>2, <4>3, <4>4 DEF IsRun
    <3>10. Len(run[1].out) = 0 /\ 1 \in 1 .. Len(run) BY <3>3, <3>8
    <3>11. ServerAt(i, run[1], Len(run[1].out))' /\ ClientAt(i, run[1])' BY <3>6, <3>7, <3>8, <3>10
    <3>12. asked'[i].full # None /\ IsRun(Server[i], asked'[i].full, run) BY <2>7, <3>5, <3>9 DEF g
    <3>13. Deep(i)' BY <3>10, <3>11, <3>12 DEF Deep
    <3> QED BY <3>13 DEF Course
  <2> QED BY <2>5, <2>6, <2>7
<1> QED BY <1>3, <1>4

-----------------------------------------------------------------------------
(* The walks of the two sides *)

LEMMA CourseStays ==
  ASSUME Typed, [Next]_vars, NEW i \in Calls, Course(i), UNCHANGED Call(i)
  PROVE  Course(i)'
<1>1. /\ asked'[i] = asked[i] /\ serving'[i] = serving[i] /\ sender'[i] = sender[i]
      /\ wire'[i] = wire[i] /\ reading'[i] = reading[i] /\ reader'[i] = reader[i]
  BY DEF Call
<1>2. Lost(i) => Lost(i)' BY <1>1 DEF Lost
<1>3. ASSUME Deep(i) PROVE Deep(i)'
  <2>1. PICK run : \E j, k \in 1 .. Len(run) : OnRun(i, run, j, k) BY <1>3 DEF Deep, OnRun
  <2>2. PICK j \in 1 .. Len(run), k \in 1 .. Len(run) : OnRun(i, run, j, k) BY <2>1
  <2>3. ServerAt(i, run[k], Len(run[j].out)) /\ ClientAt(i, run[j]) /\ IsRun(Server[i], asked[i].full, run)
    BY <2>2 DEF OnRun
  <2>4. ServerAt(i, run[k], Len(run[j].out))' BY <1>1, <2>3, ServerStays
  <2>5. ClientAt(i, run[j])' BY <1>1, <2>3, ClientStays
  <2>6. IsRun(Server[i], asked'[i].full, run) /\ asked'[i].full # None BY <1>1, <1>3, <2>3 DEF Deep
  <2> QED BY <2>2, <2>4, <2>5, <2>6 DEF Deep
<1>4. ASSUME Flat(i) PROVE Flat(i)'
  <2>1. Client[i] \in Nodes /\ reader[i] \in Readers BY ConstantsAssumption DEF Typed
  <2>2. reader[i].walk.seen \subseteq Cids BY <2>1 DEF Readers, Walks
  <2>3. \A c \in Cids : hashes[Client[i]][c] # None => hashes'[Client[i]][c] # None
    BY <2>1, RecordsGrow
  <2>4. PICK n \in 0 .. Len(asked[i].sequence) :
          /\ Exchange(i, asked[i].sequence, n)
          /\ Len(reader[i].walk.stack) = Len(asked[i].sequence) - n
          /\ \A m \in 1 .. Len(reader[i].walk.stack) : reader[i].walk.stack[m] = asked[i].sequence[n + m]
    BY <1>4 DEF Flat
  <2>5. Exchange(i, asked[i].sequence, n)' BY <1>1, <2>4 DEF Exchange
  <2>6. \A c \in reader'[i].walk.seen : hashes'[Client[i]][c] # None
    BY <1>1, <1>4, <2>2, <2>3 DEF Flat
  <2>7. /\ asked[i].full = None
        /\ reader[i].walk.deep = FALSE /\ reader[i].walk.filter = None /\ reader[i].at = None
        /\ serving[i] = "walking" => sender[i].walk.stack = <<>>
    BY <1>4 DEF Flat
  <2> QED BY <1>1, <2>4, <2>5, <2>6, <2>7 DEF Flat
<1> QED BY <1>1, <1>2, <1>3, <1>4 DEF Course

LEMMA CourseNext ==
  ASSUME TInv, Careful, WalksInv, [Next]_vars, NEW i \in Calls
  PROVE  Course(i)'
<1>0. Typed /\ Phases(i) /\ Course(i) /\ LinksMatch /\ RecordsMatch BY DEF TInv, WalksInv
<1>1. CASE UNCHANGED Call(i) BY <1>0, <1>1, CourseStays
<1>2. CASE Sync(i) BY <1>0, <1>2, CallBegins
<1>3. CASE Cut(i)
  <2>1. reading'[i] = "error" BY <1>0, <1>3 DEF Cut, Typed
  <2> QED BY <2>1 DEF Course
<1>4. CASE ServerStep(i) \/ Stop(i)
  <2>1. CASE reading[i] \in {"reading", "ok"}
    <3>1. sent[i] # None BY <1>0, <2>1 DEF Phases
    <3>2. ~Lost(i) BY <1>4 DEF Lost, ServerStep, HandleStream, Traverse, WriteItem, Close, Stop
    <3>3. Deep(i) \/ Flat(i) BY <1>0, <2>1, <3>2 DEF Course
    <3>4. Deep(i)' \/ Flat(i)' BY <1>0, <1>4, <3>1, <3>3, DeepServer, FlatServer
    <3> QED BY <3>4 DEF Course
  <2>2. CASE reading[i] \notin {"reading", "ok"}
    <3>1. reading' = reading
      BY <1>4 DEF ServerStep, HandleStream, Traverse, WriteItem, Close, Stop
    <3> QED BY <2>2, <3>1 DEF Course
  <2> QED BY <2>1, <2>2
<1>5. CASE ClientStep(i)
  <2>1. CASE reading'[i] = "error" BY <2>1 DEF Course
  <2>2. CASE reading'[i] # "error"
    <3>1. reading[i] = "reading" /\ serving'[i] = serving[i]
          /\ (wire'[i] = wire[i] \/ ReadOneResponse(i))
      BY <1>0, <1>5, ClientSteps
    <3>2. sent[i] # None BY <1>0, <3>1 DEF Phases
    <3>3. CASE Lost(i)
      <4>1. ~ReadOneResponse(i) BY <3>3 DEF Lost, ReadOneResponse
      <4>2. Lost(i)' BY <3>1, <3>3, <4>1 DEF Lost
      <4> QED BY <4>2 DEF Course
    <3>4. CASE Deep(i)
      <4>1. Deep(i)' \/ Lost(i)' BY <1>0, <1>5, <2>2, <3>2, <3>4, DeepClient
      <4> QED BY <4>1 DEF Course
    <3>5. CASE Flat(i)
      <4>1. Flat(i)' \/ Lost(i)' BY <1>5, <2>2, <3>2, <3>5, FlatClient
      <4> QED BY <4>1 DEF Course
    <3> QED BY <1>0, <3>1, <3>3, <3>4, <3>5 DEF Course
  <2> QED BY <2>1, <2>2
<1> QED BY <1>0, <1>1, <1>2, <1>3, <1>4, <1>5, OneOrOther DEF Steps

(* No item is read for another's.                                          *)
LEMMA ItemsFit ==
  ASSUME TInv, Careful, WalksInv, [Next]_vars, NEW i \in Calls, ReadOneResponse(i)
  PROVE  Fits(Head(wire[i]), Top(i))
<1>0. Typed /\ Phases(i) /\ Course(i) BY DEF TInv, WalksInv
<1>1. reading[i] = "reading" /\ wire[i] # <<>> /\ Looking(i) BY DEF ReadOneResponse, Wanted, Looking
<1>2. sent[i] # None /\ ~Lost(i) BY <1>0, <1>1 DEF Phases, Lost
<1>3. CASE Deep(i)
  <2>1. PICK run : \E j, k \in 1 .. Len(run) :
               /\ OnRun(i, run, j, k)
               /\ j + 1 \in 1 .. Len(run)
               /\ run[j + 1] = StepOf(asked[i].full.filter, run[j])
               /\ run[j] \in Positions(Server[i]) /\ run[k] \in Positions(Server[i])
    BY <1>0, <1>1, <1>3, DeepLooks
  <2> QED BY <1>0, <2>1, DeepFits
<1>4. CASE Flat(i) BY <1>2, <1>4, FlatReads
<1> QED BY <1>0, <1>1, <1>2, <1>3, <1>4 DEF Course

LEMMA WalksInit == Init => WalksInv
<1> SUFFICES ASSUME Init PROVE WalksInv OBVIOUS
<1>1. ASSUME NEW n \in Nodes, NEW c \in Cids
      PROVE  /\ hashes[n][c] \in {c.data, None}
             /\ links[n][c] \in {None, Ref(c)}
             /\ c \in Loaded[n] => links[n][c] # None
  <2>1. hashes[n][c] = (IF c \in Loaded[n] THEN c.data ELSE None)
        /\ links[n][c] = (IF c \in Loaded[n] THEN ExtractLinks(c, c.data) ELSE None)
    BY DEF Init
  <2>2. CASE c \in Loaded[n]
    <3>1. c.data \in Data BY ConstantsAssumption
    <3>2. ExtractLinks(c, c.data) = Ref(c)
      BY <2>2, ConstantsAssumption DEF ExtractLinks, Ref
    <3>3. Ref(c) \in Seq(Cids)
      <4>1. c.codec = "cbor" => Children[c.data] \in Seq(Cids) BY <2>2, <3>1, ConstantsAssumption
      <4> QED BY <4>1 DEF Ref
    <3>4. Ref(c) # None BY <3>3, Atoms
    <3> HIDE DEF Ref
    <3> QED BY <2>1, <2>2, <3>2, <3>4
  <2>3. CASE c \notin Loaded[n] BY <2>1, <2>3
  <2> QED BY <2>2, <2>3
<1>2. \A n \in Nodes : Loaded[n] \subseteq Cids BY ConstantsAssumption
<1>3. LinksMatch BY <1>1, <1>2 DEF LinksMatch
<1>4. RecordsMatch BY <1>1 DEF RecordsMatch
<1>5. ASSUME NEW i \in Calls PROVE Phases(i) /\ Course(i)
  <2>1. /\ sent[i] = None /\ serving[i] = "waiting" /\ wire[i] = <<>>
        /\ reading[i] = "idle" /\ reader[i] = [walk |-> NoWalk, at |-> None]
    BY DEF Init
  <2> QED BY <2>1 DEF Phases, Course
<1> QED BY <1>3, <1>4, <1>5 DEF WalksInv

LEMMA WalksNext == TInv /\ Careful /\ WalksInv /\ [Next]_vars => WalksInv'
<1> SUFFICES ASSUME TInv, Careful, WalksInv, [Next]_vars PROVE WalksInv' OBVIOUS
<1>1. \A i \in Calls : ReadOneResponse(i) => Fits(Head(wire[i]), Top(i)) BY ItemsFit
<1>2. LinksMatch' /\ RecordsMatch' BY <1>1, MatchingTables DEF WalksInv
<1>3. \A i \in Calls : Phases(i)' BY PhasesNext DEF WalksInv
<1>4. \A i \in Calls : Course(i)' BY CourseNext
<1> QED BY <1>2, <1>3, <1>4 DEF WalksInv

(* Where requests are careful, every call that has found no error is with  *)
(* its server on one run of the walk it asked for, or has lost the server  *)
(* and read all there is.                                                  *)
THEOREM WalksInductive == ASSUME Careful PROVE Spec => []WalksInv
BY Careful, WalksInit, WalksNext, TypesInductive, PTL DEF Spec

(* What a node records for a CID is the hash of that CID's own block, and  *)
(* what it stores is what it asked for (readFullSyncResponse,              *)
(* readOneResponse), where servers hold what they serve and DAG-CBOR comes *)
(* with its data.                                                          *)
THEOREM TablesStayRight == ASSUME Careful PROVE Spec => []TablesFit
<1>1. WalksInv /\ StoresWhatItAskedFor => TablesFit BY DEF WalksInv, TablesFit
<1> QED BY <1>1, WalksInductive, StoresAskedFor, PTL

(* A response that was written to its end and read without an error is     *)
(* read to its end, and every CID of the walk is recorded, although the    *)
(* two sides walk different tables.                                        *)
THEOREM WalksInStep == ASSUME Careful PROVE Spec => []InStep
<1>1. TInv /\ WalksInv => InStep
  <2> SUFFICES ASSUME TInv, WalksInv, NEW i \in Calls, reading[i] = "ok", serving[i] = "done"
               PROVE  LET w == reader[i].walk
                          asOf == IF asked[i].full # None THEN asked[i].full.visited ELSE {}
                      IN /\ wire[i] = <<>>
                         /\ \A c \in w.seen \ asOf : Includes(w.filter, c) => hashes[Client[i]][c] # None
    BY DEF InStep
  <2>0. Typed /\ Phases(i) /\ Course(i) BY DEF TInv, WalksInv
  <2>1. reader[i].at = None /\ reader[i].walk.stack = <<>> BY <2>0 DEF Phases
  <2>2. wire[i] \in Seq(Headers) BY <2>0 DEF Typed
  <2>3. Len(wire[i]) \in Nat /\ (Len(wire[i]) = 0 => wire[i] = <<>>) BY <2>2
  <2>4. CASE Deep(i)
    <3>1. PICK run : \E j, k \in 1 .. Len(run) : OnRun(i, run, j, k) BY <2>4 DEF Deep, OnRun
    <3>2. PICK j \in 1 .. Len(run), k \in 1 .. Len(run) : OnRun(i, run, j, k) BY <3>1
    <3>3. ServerAt(i, run[k], Len(run[j].out)) /\ ClientAt(i, run[j]) /\ IsRun(Server[i], asked[i].full, run)
      BY <3>2 DEF OnRun
    <3>4. run[j].stack = <<>> /\ run[k].stack = <<>> BY <2>1, <3>3 DEF ServerAt, ClientAt
    <3>5. j = Len(run) /\ k = Len(run) BY <3>3, <3>4 DEF IsRun
    <3>6. Len(run[j].out) + Len(wire[i]) = Len(run[j].out) BY <3>3, <3>5 DEF ServerAt, Exchange
    <3>7. Len(run[j].out) \in Nat
      <4>1. run[j] \in Positions(Server[i]) BY <3>3 DEF IsRun
      <4>2. run[j].out \in Seq(Cids) BY <4>1 DEF Positions
      <4> QED BY <4>2
    <3>8. Len(wire[i]) = 0
      <4> DEFINE n == Len(run[j].out)
      <4>1. n \in Nat /\ n + Len(wire[i]) = n BY <3>6, <3>7
      <4> HIDE DEF n
      <4> QED BY <2>3, <4>1
    <3>9. \A c \in reader[i].walk.seen \ asked[i].full.visited :
            Includes(reader[i].walk.filter, c) => hashes[Client[i]][c] # None
      BY <3>3 DEF ClientAt
    <3> QED BY <2>3, <2>4, <3>8, <3>9 DEF Deep
  <2>5. CASE Flat(i)
    <3>1. PICK n \in 0 .. Len(asked[i].sequence) :
            Exchange(i, asked[i].sequence, n) /\ Len(reader[i].walk.stack) = Len(asked[i].sequence) - n
      BY <2>5 DEF Flat
    <3>2. Len(reader[i].walk.stack) = 0 BY <2>1
    <3> DEFINE l == Len(asked[i].sequence)
    <3>3. n \in Int /\ l = n + 0 /\ n + Len(wire[i]) = l
      <4>1. n + Len(wire[i]) = l /\ 0 = l - n BY <3>1, <3>2 DEF Exchange
      <4>2. asked[i] \in Traversals \cup {None} /\ asked[i].full = None BY <2>0, <2>5 DEF Typed, Flat
      <4> QED BY <3>1, <4>1
    <3>4. Len(wire[i]) = 0 BY <2>3, <3>3
    <3> QED BY <2>3, <2>5, <3>4 DEF Flat
  <2>6. ~Lost(i) BY DEF Lost
  <2> QED BY <2>0, <2>4, <2>5, <2>6 DEF Course
<1> QED BY <1>1, WalksInductive, TypesInductive, PTL

-----------------------------------------------------------------------------
(* Clients that ask for the data of every CID need no careful servers      *)

CarriesData(n) == \A i \in Calls : Client[i] = n =>
  \A r \in Requests[i] : EncodeRequest(r) # Error =>
    \A c \in Cids : Inlined(DecodeRequest(EncodeRequest(r)).inline, c)

(* A node's records are of a CID's own block, or its program's.            *)
RecordsOf(n) == \A c \in Cids :
  hashes[n][c] \in {c.data, None} \cup {e[2] : e \in {l \in Library[n] : l[1] = c}}

AllData(i) == \A m \in 1 .. Len(wire[i]) : wire[i][m].data

DataInv ==
  /\ \A i \in Calls : Phases(i) /\ (CarriesData(Client[i]) => AllData(i))
  /\ \A n \in Nodes : CarriesData(n) => RecordsOf(n)

LEMMA DataInit == Init => DataInv
<1> SUFFICES ASSUME Init PROVE DataInv OBVIOUS
<1>1. ASSUME NEW i \in Calls PROVE Phases(i) /\ AllData(i)
  <2>1. /\ sent[i] = None /\ serving[i] = "waiting" /\ wire[i] = <<>>
        /\ reading[i] = "idle" /\ reader[i] = [walk |-> NoWalk, at |-> None]
    BY DEF Init
  <2> QED BY <2>1 DEF Phases, AllData
<1>2. ASSUME NEW n \in Nodes, NEW c \in Cids PROVE hashes[n][c] \in {c.data, None}
  BY DEF Init
<1> QED BY <1>1, <1>2 DEF DataInv, RecordsOf

LEMMA DataIsWritten ==
  ASSUME TInv, NEW i \in Calls, Phases(i), AllData(i), CarriesData(Client[i]), WriteItem(i)
  PROVE  AllData(i)'
<1>0. Typed /\ Requested(i) BY DEF TInv
<1> DEFINE c == Head(sender[i].out)
           h == hashes[Server[i]][c]
           has == h \in store[Server[i]]
<1>1. serving[i] = "walking" /\ sender[i].out # <<>> BY DEF WriteItem
<1>2. sent[i] # None /\ inline[i] = DecodeRequest(sent[i]).inline BY <1>1 DEF Phases
<1>3. PICK r \in Requests[i] : EncodeRequest(r) # Error /\ sent[i] = EncodeRequest(r)
  BY <1>0, <1>2 DEF Requested
<1>4. c \in Cids
  <2>1. sender[i].out \in Seq(Cids) BY <1>0 DEF Typed, Senders
  <2> QED BY <1>1, <2>1
<1>5. Inlined(inline[i], c) BY <1>2, <1>3, <1>4 DEF CarriesData
<1>6. wire[i] \in Seq(Headers) /\ DOMAIN wire = Calls BY <1>0 DEF Typed
<1>7. wire'[i] = wire[i] \/ wire'[i] = Append(wire[i], DataHeader(h, has))
  BY <1>5, <1>6 DEF WriteItem
<1>8. DataHeader(h, has).data = TRUE BY DEF DataHeader
<1> DEFINE item == DataHeader(h, has)
<1> HIDE DEF c, h, has, item
<1>9. CASE wire'[i] = Append(wire[i], item)
  <2>1. /\ Len(wire'[i]) = Len(wire[i]) + 1 /\ Len(wire[i]) \in Nat
        /\ \A m \in 1 .. Len(wire[i]) : wire'[i][m] = wire[i][m]
        /\ wire'[i][Len(wire[i]) + 1] = item
    BY <1>6, <1>9
  <2>2. \A m \in 1 .. Len(wire'[i]) : m \in 1 .. Len(wire[i]) \/ m = Len(wire[i]) + 1 BY <2>1
  <2>3. item.data BY <1>8 DEF item
  <2>4. ASSUME NEW m \in 1 .. Len(wire'[i]) PROVE wire'[i][m].data
    <3>1. CASE m \in 1 .. Len(wire[i])
      <4>1. wire[i][m].data BY <3>1 DEF AllData
      <4> QED BY <2>1, <3>1, <4>1
    <3>2. CASE m = Len(wire[i]) + 1
      <4>1. wire'[i][m] = item BY <2>1, <3>2
      <4> QED BY <2>3, <4>1
    <3> QED BY <2>2, <2>4, <3>1, <3>2
  <2> QED BY <2>4 DEF AllData
<1>10. CASE wire'[i] = wire[i] BY <1>10 DEF AllData
<1> QED BY <1>7, <1>9, <1>10 DEF item

LEMMA DataIsRead ==
  ASSUME TInv, NEW i \in Calls, AllData(i), ReadOneResponse(i)
  PROVE  AllData(i)' /\ Head(wire[i]).data
<1>1. wire \in [Calls -> Seq(Headers)] BY DEF TInv, Typed
<1>2. wire[i] # <<>> /\ wire'[i] = Tail(wire[i]) BY <1>1 DEF ReadOneResponse
<1>3. /\ Len(wire[i]) \in Nat /\ Len(wire'[i]) = Len(wire[i]) - 1 /\ Len(wire[i]) # 0
      /\ \A m \in 1 .. Len(wire'[i]) : wire'[i][m] = wire[i][m + 1]
      /\ Head(wire[i]) = wire[i][1]
  BY <1>1, <1>2
<1>4. \A m \in 1 .. Len(wire'[i]) : m + 1 \in 1 .. Len(wire[i]) BY <1>3
<1>5. 1 \in 1 .. Len(wire[i]) BY <1>3
<1> QED BY <1>3, <1>4, <1>5 DEF AllData

LEMMA DataTravels ==
  ASSUME TInv, [Next]_vars, NEW i \in Calls, Phases(i), CarriesData(Client[i]), AllData(i)
  PROVE  AllData(i)'
<1>0. Typed BY DEF TInv
<1>1. wire'[i] = wire[i] => AllData(i)' BY DEF AllData
<1>2. UNCHANGED Call(i) => wire'[i] = wire[i] BY DEF Call
<1>3. Sync(i) \/ HandleStream(i) \/ Traverse(i) \/ Close(i) \/ Stop(i) \/ Cut(i) => wire'[i] = wire[i]
  BY DEF Sync, HandleStream, Traverse, Close, Stop, Cut
<1>4. ClientStep(i) => wire'[i] = wire[i] \/ ReadOneResponse(i) BY <1>0, ClientSteps
<1> HIDE DEF Call
<1> QED BY <1>0, <1>1, <1>2, <1>3, <1>4, OneOrOther, DataIsWritten, DataIsRead DEF Steps, ServerStep

LEMMA DataIsRecorded ==
  ASSUME TInv, DataInv, [Next]_vars, NEW n \in Nodes, CarriesData(n)
  PROVE  RecordsOf(n)'
<1>0. Typed /\ RecordsOf(n) /\ hashes \in [Nodes -> [Cids -> Data \cup {None}]]
  BY DEF TInv, DataInv, Typed, TablesTyped
<1>1. CASE hashes'[n] = hashes[n] BY <1>0, <1>1 DEF RecordsOf
<1>2. ASSUME NEW m \in Nodes, NEW c \in Cids, NEW d \in Data, AddAndPut(m, c, d),
             d = c.data \/ <<c, d>> \in Library[m]
      PROVE  RecordsOf(n)'
  <2>1. CASE hashes' = hashes BY <1>1, <2>1
  <2>2. CASE hashes' = [hashes EXCEPT ![m][c] = d]
    <3> SUFFICES ASSUME NEW b \in Cids
                 PROVE  hashes'[n][b] \in {b.data, None} \cup {e[2] : e \in {l \in Library[n] : l[1] = b}}
      BY DEF RecordsOf
    <3> DEFINE own == {e[2] : e \in {l \in Library[n] : l[1] = b}}
    <3>1. hashes'[n][b] = IF n = m /\ b = c THEN d ELSE hashes[n][b] BY <1>0, <2>2
    <3>2. hashes[n][b] \in {b.data, None} \cup own BY <1>0 DEF RecordsOf
    <3>3. n = m /\ b = c /\ d # c.data => d \in own
      <4> SUFFICES ASSUME n = m, b = c, d # c.data PROVE d \in own OBVIOUS
      <4>1. <<c, d>> \in Library[n] BY <1>2
      <4>2. <<c, d>>[1] = c /\ <<c, d>>[2] = d OBVIOUS
      <4> QED BY <4>1, <4>2
    <3> HIDE DEF own
    <3>4. hashes'[n][b] \in {b.data, None} \cup own BY <3>1, <3>2, <3>3
    <3> QED BY <3>4 DEF own
  <2> QED BY <1>2, <2>1, <2>2 DEF AddAndPut, Put
<1>3. UNCHANGED tables => hashes'[n] = hashes[n] BY DEF tables
<1>4. ASSUME NEW m \in Nodes, NEW e \in Library[m], AddAndPut(m, e[1], e[2]) PROVE RecordsOf(n)'
  <2>1. e[1] \in Cids /\ e[2] \in Data /\ e = <<e[1], e[2]>> BY ConstantsAssumption
  <2> QED BY <1>2, <1>4, <2>1
<1>5. ASSUME NEW i \in Calls, ReadOneResponse(i), Top(i) \in Cids, Head(wire[i]) \in Headers,
             \/ Head(wire[i]).data /\ Top(i).data = Head(wire[i]).hash
                /\ AddAndPut(Client[i], Top(i), Head(wire[i]).hash)
             \/ ~Head(wire[i]).data /\ Put(Client[i], Top(i), Head(wire[i]).hash, <<>>)
                /\ store' = store
      PROVE  RecordsOf(n)'
  <2>1. Client[i] \in Nodes /\ Head(wire[i]).hash \in Data BY <1>5, ConstantsAssumption DEF Headers
  <2>2. CASE Head(wire[i]).data BY <1>2, <1>5, <2>1, <2>2
  <2>3. CASE ~Head(wire[i]).data
    <3>1. Client[i] # n
      <4> SUFFICES ASSUME Client[i] = n PROVE FALSE OBVIOUS
      <4>1. AllData(i) BY DEF DataInv
      <4> QED BY <1>5, <2>3, <4>1, DataIsRead
    <3>2. Put(Client[i], Top(i), Head(wire[i]).hash, <<>>) BY <1>5, <2>3
    <3>3. hashes'[n] = hashes[n] BY <1>0, <3>1, <3>2 DEF Put
    <3> QED BY <1>1, <3>3
  <2> QED BY <2>2, <2>3
<1> HIDE DEF tables
<1> QED BY <1>0, <1>1, <1>3, <1>4, <1>5, TableSteps

(* A client that asks for every CID's data records nothing wrong, whatever *)
(* its servers hold, import or fail to send, and whether or not the two    *)
(* walks stay in step: readOneResponse checks data against the CID.        *)
THEOREM CheckedDataIsRight == Spec => [](\A n \in Nodes : CarriesData(n) => RecordsOf(n))
<1>1. TInv /\ DataInv /\ [Next]_vars => DataInv'
  <2> SUFFICES ASSUME TInv, DataInv, [Next]_vars PROVE DataInv' OBVIOUS
  <2>1. ASSUME NEW i \in Calls
        PROVE  Phases(i)' /\ (CarriesData(Client[i]) => AllData(i)')
    BY PhasesNext, DataTravels DEF DataInv
  <2>2. ASSUME NEW n \in Nodes, CarriesData(n) PROVE RecordsOf(n)' BY <2>2, DataIsRecorded
  <2> QED BY <2>1, <2>2 DEF DataInv, CarriesData
<1>2. DataInv => (\A n \in Nodes : CarriesData(n) => RecordsOf(n)) BY DEF DataInv
<1> QED BY <1>1, <1>2, DataInit, TypesInductive, PTL DEF Spec

-----------------------------------------------------------------------------
(* Calls go on *)

ServerHasWork(i) == serving[i] = "walking" \/ (serving[i] = "waiting" /\ sent[i] # None)

(* The client need not wait for an item, has one, or none will come.       *)
ClientHasWork(i) ==
  \/ reader[i].at # None \/ reader[i].walk.stack = <<>>
  \/ IsSeen(i) \/ ~Includes(reader[i].walk.filter, Top(i))
  \/ wire[i] # <<>> \/ serving[i] \in {"done", "failed"}

WorkIsLeft == \A i \in Calls : reading[i] = "reading" => ServerHasWork(i) \/ ClientHasWork(i)

(* A walk goes on from v to w: to another CID, or with less to look at.    *)
Further(v, w) ==
  /\ v.seen \subseteq w.seen
  /\ v.seen # w.seen \/ (v.stack # <<>> /\ w.stack = Tail(v.stack))

(* The server: its walk, then its items, then the end.                     *)
ServerNears(i) ==
  \/ serving[i] = "waiting" /\ serving'[i] = "walking"
  \/ serving[i] = "walking" /\ serving'[i] \in {"done", "failed"}
  \/ serving'[i] = serving[i] /\ sender[i].walk.stack # <<>> /\ Further(sender[i].walk, sender'[i].walk)
  \/ /\ serving'[i] = serving[i] /\ sender'[i].walk = sender[i].walk
     /\ sender[i].out # <<>> /\ sender'[i].out = Tail(sender[i].out)

(* The client: a CID, then its links; the stack grows only by the links of *)
(* a CID that was not seen before.                                         *)
ClientNears(i) ==
  \/ reading'[i] \in {"ok", "error"}
  \/ reader[i].at # None /\ reader'[i].at = None /\ reader'[i].walk.seen = reader[i].walk.seen
  \/ /\ reader[i].at = None /\ Further(reader[i].walk, reader'[i].walk)
     /\ reader'[i].walk.seen = reader[i].walk.seen => reader'[i].at = None

Nears == \A i \in Calls :
  /\ ServerStep(i) => ServerNears(i)
  /\ ClientStep(i) => ClientNears(i)
  /\ reading[i] = "reading" =>
       ServerStep(i) \/ ClientStep(i) \/ UNCHANGED <<sender[i], reader[i]>>


(* A walk over a sequence has no filter.                                   *)
Plain(i) == reader[i].walk.deep \/ reader[i].walk.filter = None

LEMMA PlainNext ==
  ASSUME TInv, [Next]_vars, NEW i \in Calls, Plain(i)
  PROVE  Plain(i)'
<1>0. Typed /\ reader[i] \in Readers /\ reader[i].walk \in Walks BY DEF TInv, Typed, Readers
<1> DEFINE w == reader[i].walk
<1>1. CASE reader'[i] = reader[i] BY <1>1 DEF Plain
<1>2. CASE Sync(i)
  <2>1. PICK r \in Requests[i] :
          IF EncodeRequest(r) = Error THEN reader' = reader
          ELSE reader' = [reader EXCEPT ![i].walk = Walk(r.traversal)]
    BY <1>2 DEF Sync
  <2>2. EncodeRequest(r) = Error => reader'[i] = reader[i] BY <2>1
  <2>3. CASE EncodeRequest(r) # Error
    <3>1. reader'[i].walk = Walk(r.traversal) BY <1>0, <2>1, <2>3 DEF Typed, Readers
    <3>2. Walk(r.traversal).deep \/ Walk(r.traversal).filter = None BY DEF Walk, NoWalk
    <3> QED BY <3>1, <3>2 DEF Plain
  <2> QED BY <1>1, <2>2, <2>3
<1>3. ASSUME NEW v, v.deep = w.deep, v.filter = w.filter, reader'[i].walk = v PROVE Plain(i)'
  BY <1>3 DEF Plain
<1>4. Taken(i).deep = w.deep /\ Taken(i).filter = w.filter BY <1>0 DEF Taken, Walks
<1>5. CASE Skip(i) \/ Pass(i) \/ ReadOneResponse(i) \/ ReadEnd(i)
  <2>1. \/ reader' = [reader EXCEPT ![i].walk = Taken(i)]
        \/ \E at : reader' = [reader EXCEPT ![i] = [walk |-> Taken(i), at |-> at]]
    BY <1>5 DEF Skip, Pass, ReadOneResponse, ReadEnd
  <2>2. reader'[i].walk = Taken(i) BY <1>0, <2>1 DEF Typed, Readers
  <2> QED BY <1>3, <1>4, <2>2
<1>6. CASE Expand(i)
  <2> DEFINE v == [w EXCEPT !.stack = Follow(Client[i], reader[i].at) \o w.stack]
  <2>1. reader' = [reader EXCEPT ![i] = [walk |-> v, at |-> None]] BY <1>6 DEF Expand
  <2>2. v.deep = w.deep /\ v.filter = w.filter BY <1>0 DEF Walks
  <2> HIDE DEF v
  <2>3. reader'[i].walk = v BY <1>0, <2>1 DEF Typed
  <2> QED BY <1>3, <2>2, <2>3
<1>7. CASE ServerStep(i) \/ Stop(i) \/ Cut(i) \/ Return(i)
  BY <1>1, <1>7 DEF ServerStep, HandleStream, Traverse, WriteItem, Close, Stop, Cut, Return
<1>8. UNCHANGED Call(i) => reader'[i] = reader[i] BY DEF Call
<1> HIDE DEF Call
<1> QED BY <1>0, <1>1, <1>2, <1>5, <1>6, <1>7, <1>8, OneOrOther DEF Steps, ClientStep

LEMMA SomeWorkIsLeft ==
  ASSUME Typed, NEW i \in Calls, Phases(i), reading[i] = "reading"
  PROVE  ServerHasWork(i) \/ ClientHasWork(i)
<1>1. sent[i] # None BY DEF Phases
<1>2. serving[i] \in {"waiting", "walking", "done", "failed"} BY DEF Typed
<1> QED BY <1>1, <1>2 DEF ServerHasWork, ClientHasWork

LEMMA ServerGoesFurther ==
  ASSUME Typed, NEW i \in Calls, ServerStep(i)
  PROVE  ServerNears(i)
<1>0. sender[i] \in Senders /\ sender[i].walk \in Walks BY DEF Typed, Senders
<1>1. CASE HandleStream(i) BY <1>1 DEF HandleStream, Typed, ServerNears
<1>2. CASE Traverse(i)
  <2> DEFINE w == sender[i].walk
             c == Head(w.stack)
             f == Follow(Server[i], c) \o Tail(w.stack)
             out == IF Includes(w.filter, c) THEN Append(sender[i].out, c) ELSE sender[i].out
  <2>1. /\ w.stack # <<>> /\ serving' = serving
        /\ sender' = [sender EXCEPT ![i] =
             IF c \in w.seen THEN [walk |-> [w EXCEPT !.stack = Tail(w.stack)], out |-> sender[i].out]
             ELSE [walk |-> [w EXCEPT !.seen = w.seen \cup {c}, !.stack = f], out |-> out]]
    BY <1>2 DEF Traverse
  <2> HIDE DEF f, out, c
  <2>2. CASE c \in w.seen
    <3>1. sender'[i].walk = [w EXCEPT !.stack = Tail(w.stack)] BY <2>1, <2>2 DEF Typed
    <3>2. sender'[i].walk.seen = w.seen /\ sender'[i].walk.stack = Tail(w.stack) BY <1>0, <3>1 DEF Walks
    <3> QED BY <2>1, <3>2 DEF ServerNears, Further
  <2>3. CASE c \notin w.seen
    <3>1. sender'[i].walk = [w EXCEPT !.seen = w.seen \cup {c}, !.stack = f] BY <2>1, <2>3 DEF Typed
    <3>2. sender'[i].walk.seen = w.seen \cup {c} BY <1>0, <3>1 DEF Walks
    <3> QED BY <2>1, <2>3, <3>2 DEF ServerNears, Further
  <2> QED BY <2>2, <2>3
<1>3. CASE WriteItem(i)
  <2>1. /\ serving[i] = "walking" /\ serving'[i] \in {"walking", "failed"} /\ sender[i].out # <<>>
        /\ sender' = [sender EXCEPT ![i].out = Tail(@)]
    BY <1>3 DEF WriteItem, Typed
  <2>2. sender'[i].walk = sender[i].walk /\ sender'[i].out = Tail(sender[i].out)
    BY <1>0, <2>1 DEF Typed, Senders
  <2> QED BY <2>1, <2>2 DEF ServerNears
<1>4. CASE Close(i) BY <1>4 DEF Close, Typed, ServerNears
<1> QED BY <1>1, <1>2, <1>3, <1>4 DEF ServerStep

LEMMA ClientGoesFurther ==
  ASSUME Typed, NEW i \in Calls, Plain(i), ClientStep(i)
  PROVE  ClientNears(i)
<1>0. reader[i] \in Readers /\ reader[i].walk \in Walks BY DEF Typed, Readers
<1> DEFINE w == reader[i].walk
<1>1. Taken(i).seen = w.seen \cup {Top(i)} /\ Taken(i).stack = Tail(w.stack) /\ Taken(i).deep = w.deep
  BY <1>0 DEF Taken, Walks
<1>2. CASE Skip(i)
  <2>1. /\ reader[i].at = None /\ w.stack # <<>> /\ Top(i) \in w.seen
        /\ reader' = [reader EXCEPT ![i].walk = Taken(i)]
    BY <1>2 DEF Skip, Looking, IsSeen
  <2>2. reader'[i].walk = Taken(i) /\ reader'[i].at = None BY <1>0, <2>1 DEF Typed, Readers
  <2> QED BY <1>1, <2>1, <2>2 DEF ClientNears, Further
<1>3. ASSUME NEW at, reader[i].at = None, w.stack # <<>>, ~IsSeen(i), at # None => w.deep,
             reader' = [reader EXCEPT ![i] = [walk |-> Taken(i), at |-> at]]
      PROVE  ClientNears(i)
  <2>1. reader'[i].walk = Taken(i) /\ reader'[i].at = at BY <1>3 DEF Typed
  <2>2. at # None => Top(i) \notin w.seen BY <1>3 DEF IsSeen
  <2> QED BY <1>1, <1>3, <2>1, <2>2 DEF ClientNears, Further
<1>4. CASE Pass(i)
  <2>1. Looking(i) /\ ~IsSeen(i) /\ reader' = [reader EXCEPT ![i] = [walk |-> Taken(i), at |-> Top(i)]]
        /\ ~Includes(w.filter, Top(i))
    BY <1>4 DEF Pass
  <2>2. w.deep BY <2>1 DEF Plain, Includes
  <2> QED BY <1>3, <2>1, <2>2 DEF Looking
<1>5. CASE ReadOneResponse(i) \/ ReadEnd(i)
  <2>1. /\ Looking(i) /\ ~IsSeen(i)
        /\ reader' = [reader EXCEPT ![i] = [walk |-> Taken(i), at |-> IF w.deep THEN Top(i) ELSE None]]
    BY <1>5 DEF ReadOneResponse, ReadEnd, Wanted
  <2> QED BY <1>3, <2>1 DEF Looking
<1>6. CASE Expand(i)
  <2> DEFINE v == [w EXCEPT !.stack = Follow(Client[i], reader[i].at) \o w.stack]
  <2>1. reader[i].at # None /\ reader' = [reader EXCEPT ![i] = [walk |-> v, at |-> None]]
    BY <1>6 DEF Expand
  <2>2. v.seen = w.seen BY <1>0 DEF Walks
  <2> HIDE DEF v
  <2>3. reader'[i].walk = v /\ reader'[i].at = None BY <2>1 DEF Typed
  <2> QED BY <2>1, <2>2, <2>3 DEF ClientNears
<1>7. CASE Return(i) BY <1>7 DEF Return, Typed, ClientNears
<1> QED BY <1>2, <1>4, <1>5, <1>6, <1>7 DEF ClientStep


(* A call goes on until it returns, whatever its server has, lacks, imports *)
(* or fails to send: the server or the client has something to do, and what *)
(* either does takes it to a CID that it has not seen, of which there are   *)
(* only those in use, or leaves it less to look at; no other step takes     *)
(* either back (FullTraversal, readFullSyncResponse, Accept's deferred      *)
(* Close).                                                                  *)
THEOREM CallsKeepGoing == Spec => []WorkIsLeft /\ [][Nears]_vars
<1> DEFINE Going == \A i \in Calls : Phases(i) /\ Plain(i)
<1>1. Init => Going
  <2> SUFFICES ASSUME Init, NEW i \in Calls PROVE Phases(i) /\ Plain(i) OBVIOUS
  <2>1. reader[i] = [walk |-> NoWalk, at |-> None] /\ sent[i] = None /\ serving[i] = "waiting"
        /\ wire[i] = <<>> /\ reading[i] = "idle"
    BY DEF Init
  <2> QED BY <2>1 DEF Phases, Plain, NoWalk
<1>2. TInv /\ Going /\ [Next]_vars => Going'
  BY PhasesNext, PlainNext
<1>3. TInv /\ Going => WorkIsLeft
  BY SomeWorkIsLeft DEF TInv, WorkIsLeft
<1>4. TInv /\ Going /\ [Next]_vars => Nears
  <2> SUFFICES ASSUME TInv, Going, [Next]_vars, NEW i \in Calls
               PROVE  /\ ServerStep(i) => ServerNears(i)
                      /\ ClientStep(i) => ClientNears(i)
                      /\ reading[i] = "reading" =>
                           ServerStep(i) \/ ClientStep(i) \/ UNCHANGED <<sender[i], reader[i]>>
    BY DEF Nears
  <2>1. Typed BY DEF TInv
  <2>2. reading[i] = "reading" => ~Sync(i) BY DEF Sync
  <2>3. UNCHANGED Call(i) \/ Stop(i) \/ Cut(i) => UNCHANGED <<sender[i], reader[i]>>
    BY DEF Call, Stop, Cut
  <2>4. UNCHANGED Call(i) \/ Steps(i) BY <2>1, OneOrOther
  <2> HIDE DEF Call
  <2> QED BY <2>1, <2>2, <2>3, <2>4, ServerGoesFurther, ClientGoesFurther DEF Steps
<1> HIDE DEF Going
<1> QED BY <1>1, <1>2, <1>3, <1>4, TypesInductive, PTL DEF Spec


=============================================================================
