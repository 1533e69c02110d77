-------------------------------- MODULE Tlog --------------------------------
(***************************************************************************)
(* The transparency log of tlogiroh: operators that append, publish and    *)
(* announce, witnesses that check and countersign (Witness.Run), clients   *)
(* that gather countersignatures until their policy is met (Client.Watch), *)
(* and the gossip topic and document replicas between them.                *)
(*                                                                         *)
(* Several operators may hold the same signing key: this is the "twin" of  *)
(* the repository's tests and demo, the way a split view arises.           *)
(*                                                                         *)
(* Abstractions.  A tree head (size and root hash) is the sequence of the  *)
(* entries it commits to: the hash is injective.  A signed note is its     *)
(* checkpoint and the set of witnesses whose signature lines it carries;   *)
(* the operator's signature is on every note of the model.  Any other      *)
(* message does not open, and all that a reader does is to forget the      *)
(* parked note of that text, if there is one.                              *)
(***************************************************************************)
EXTENDS Naturals, Sequences, FiniteSets

CONSTANTS
  Operators,   \* processes that hold the log's signing key
  Witnesses,   \* the witness keys every client's policy knows
  Clients,     \* watching clients
  K,           \* countersignatures the policy asks for
  Entries,     \* entry contents
  Feed,        \* bound: the logs each operator may be given to append
  PublishEmpty, \* bound: the operators that publish before they append
  Origins,     \* origin lines
  LogOrigin,   \* the origin the readers follow
  OriginOf,    \* the origin each operator publishes under
  Follows,     \* the operator whose document each reader replicates
  Restarting,  \* the readers that may stop and start again
  Unopened,    \* the checkpoints of whose text messages come that do not open
  Redelivery,  \* may gossip deliver a note to a reader more than once?
  None         \* no head, nothing yielded, nothing saved

Readers == Witnesses \cup Clients

\* A witness outside Stable forgets its head when it restarts.
Stable == Witnesses \ Restarting

Trees == Seq(Entries)
Checkpoints == [origin : Origins, tree : Trees]
Notes == [cp : Checkpoints, sigs : SUBSET Witnesses]
Equivocations == [first : Checkpoints, second : Checkpoints]

ASSUME ConstantsAssumption ==
  /\ IsFiniteSet(Witnesses)
  /\ Witnesses \cap Clients = {}
  /\ Restarting \subseteq Readers
  /\ K \in Nat
  /\ Feed \in [Operators -> SUBSET Trees]
  /\ PublishEmpty \subseteq Operators
  /\ LogOrigin \in Origins
  /\ OriginOf \in [Operators -> Origins]
  /\ Follows \in [Readers -> Operators]
  /\ Redelivery \in BOOLEAN
  /\ None \notin Trees
  /\ None \notin Notes

VARIABLES
  log,       \* entries each operator has appended
  timeline,  \* trees each operator has published: tiles and checkpoint in its document
  notes,     \* notes ever broadcast on the topic
  proofs,    \* equivocation proofs ever broadcast on the topic
  got,       \* notes gossip will not deliver (again) to a reader
  replica,   \* trees whose tiles a reader's source can read
  whead,     \* witness: head tree, or None
  wpending,  \* witness: parked notes, one for each checkpoint text
  flooded,   \* reader: proofs it has rebroadcast
  chead,     \* client: the head's note (headMsg), or None
  cpending,  \* client: parked notes, one for each checkpoint text
  yielded,   \* client: the tree last yielded by Watch, or None
  saving,    \* client: Watch's consumer runs and has yet to save the head
  saved,     \* client: the head file
  evicted    \* history: the checkpoints whose note a reader parked and forgot
             \* for a message that does not open

operatorVars == <<log, timeline>>
topicVars == <<notes, proofs, got>>
witnessVars == <<whead, wpending>>
clientVars == <<chead, cpending, yielded, saving, saved>>
vars == <<log, timeline, notes, proofs, got, replica, whead, wpending,
          flooded, chead, cpending, yielded, saving, saved, evicted>>

-----------------------------------------------------------------------------
(* Trees and notes *)

\* s is an initial part of t: what a consistency proof between them shows.
Extends(t, s) ==
  /\ Len(s) <= Len(t)
  /\ \A i \in 1 .. Len(s) : s[i] = t[i]

Comparable(s, t) == Extends(s, t) \/ Extends(t, s)

Note(origin, tree, sigs) ==
  [cp |-> [origin |-> origin, tree |-> tree], sigs |-> sigs]

\* mergeSignedNotes: the signature lines of two notes with the same text.
Merge(n, m) == [cp |-> n.cp, sigs |-> n.sigs \cup m.sigs]

\* pending[text] = n, and delete(pending, text).
Unpark(parked, n) == {p \in parked : p.cp # n.cp}
\* Variation: parks the text without its message.
ParkText(parked, n) == Unpark(parked, n) \cup {n.cp}

Park(parked, n) == Unpark(parked, n) \cup {n}

\* Policy.Open accepts n; with a right origin it can only lack witnesses.
MeetsThreshold(n) == Cardinality(n.sigs) >= K

-----------------------------------------------------------------------------
(* The comparison of a checkpoint's tree with a reader's head, shared by    *)
(* Witness.cosign and Client.update.                                        *)

IsRollback(head, tree) == head # None /\ Len(tree) < Len(head)

IsFork(head, tree) == head # None /\ Len(tree) = Len(head) /\ tree # head

\* Only growth from a non-empty head is checked with a proof.
NeedsProof(head, tree) ==
  head # None /\ Len(head) > 0 /\ Len(tree) > Len(head)

\* tlog.ProveTree fails: some tile of the tree is missing from the source, or
\* does not authenticate against the tree's hash.
IsStale(r, head, tree) == NeedsProof(head, tree) /\ tree \notin replica[r]

\* tlog.CheckTree fails: the tree does not contain the head's.
IsInconsistent(r, head, tree) ==
  /\ NeedsProof(head, tree)
  /\ tree \in replica[r]
  /\ ~ Extends(tree, head)

\* Variations: equal sizes are taken for equal trees; smaller trees are not
\* refused.
AcceptsEqualSize(r, head, tree) ==
  \/ head = None
  \/ head # None /\ Len(tree) = Len(head)
  \/ /\ head # None
     /\ Len(tree) > Len(head)
     /\ Len(head) = 0 \/ (tree \in replica[r] /\ Extends(tree, head))
AcceptsRollback(r, head, tree) ==
  \/ head = None
  \/ tree = head
  \/ head # None /\ Len(tree) < Len(head)
  \/ /\ head # None
     /\ Len(tree) > Len(head)
     /\ Len(head) = 0 \/ (tree \in replica[r] /\ Extends(tree, head))

Accepts(r, head, tree) ==
  \/ head = None
  \/ tree = head
  \/ /\ head # None
     /\ Len(tree) > Len(head)
     /\ Len(head) = 0 \/ (tree \in replica[r] /\ Extends(tree, head))

\* Both notes are of the readers' log, of equal sizes and unequal hashes.
VerifyEquivocation(e) ==
  /\ e.first.origin = LogOrigin
  /\ e.second.origin = LogOrigin
  /\ Len(e.first.tree) = Len(e.second.tree)
  /\ e.first.tree # e.second.tree

\* What a reader with this head accuses the operator with.
Accusation(head, n) ==
  [first |-> [origin |-> LogOrigin, tree |-> head], second |-> n.cp]

-----------------------------------------------------------------------------
Init ==
  /\ log = [o \in Operators |-> <<>>]
  /\ timeline = [o \in Operators |-> {}]
  /\ notes = {}
  /\ proofs = {}
  /\ got = [r \in Readers |-> {}]
  /\ replica = [r \in Readers |-> {}]
  /\ whead = [w \in Witnesses |-> None]
  /\ wpending = [w \in Witnesses |-> {}]
  /\ flooded = [r \in Readers |-> {}]
  /\ chead = [c \in Clients |-> None]
  /\ cpending = [c \in Clients |-> {}]
  /\ yielded = [c \in Clients |-> None]
  /\ saving = [c \in Clients |-> FALSE]
  /\ saved = [c \in Clients |-> None]
  /\ evicted = [r \in Readers |-> {}]

(* Operator *)

\* Operator.Append
AppendEntry(o) == \E e \in Entries :
  /\ \E feed \in Feed[o] : Extends(feed, Append(log[o], e))
  /\ log' = [log EXCEPT ![o] = Append(@, e)]
  /\ UNCHANGED <<timeline, topicVars, replica, flooded, witnessVars, clientVars, evicted>>

\* Operator.Publish: the new tiles and the checkpoint enter the document.
Publish(o) ==
  /\ log[o] # <<>> \/ o \in PublishEmpty
  /\ timeline' = [timeline EXCEPT ![o] = @ \cup {log[o]}]
  /\ UNCHANGED <<log, topicVars, replica, flooded, witnessVars, clientVars, evicted>>

\* t is the tree of the latest of the checkpoints in trees.
IsLatest(t, trees) == t \in trees /\ \A u \in trees : Len(u) <= Len(t)

\* Operator.Announce: the latest signed checkpoint, with no countersignature.
Announce(o) == \E t \in timeline[o] :
  /\ IsLatest(t, timeline[o])
  /\ notes' = notes \cup {Note(OriginOf[o], t, {})}
  /\ UNCHANGED <<operatorVars, proofs, got, replica, flooded, witnessVars, clientVars, evicted>>

(* Document replication and gossip *)

\* The tiles of one more published tree reach the reader's source.
SyncReplica(r) == \E t \in timeline[Follows[r]] \ replica[r] :
  /\ replica' = [replica EXCEPT ![r] = @ \cup {t}]
  /\ UNCHANGED <<operatorVars, topicVars, flooded, witnessVars, clientVars, evicted>>

\* Without redelivery, gossip gives a reader a note once, and never its own.
Heard(r, ns) == IF Redelivery THEN got ELSE [got EXCEPT ![r] = @ \cup ns]

(* Witness *)

\* cosign succeeds: the head moves and the countersigned note is broadcast.
Cosign(w, n, delivered) ==
  LET cosigned == [n EXCEPT !.sigs = @ \cup {w}] IN
  /\ n.cp.origin = LogOrigin
  /\ Accepts(w, whead[w], n.cp.tree)
  /\ whead' = [whead EXCEPT ![w] = n.cp.tree]
  /\ wpending' = [wpending EXCEPT ![w] = Unpark(@, n)]
  /\ notes' = notes \cup {cosigned}
  /\ got' = Heard(w, delivered \cup {cosigned})
  /\ UNCHANGED <<proofs, flooded>>

\* Variation: a stale note is dropped.
WitnessDropStale(w, n, delivered) ==
  /\ n.cp.origin = LogOrigin
  /\ IsStale(w, whead[w], n.cp.tree)
  /\ wpending' = [wpending EXCEPT ![w] = Unpark(@, n)]
  /\ got' = Heard(w, delivered)
  /\ UNCHANGED <<whead, notes, proofs, flooded>>

\* errSourceStale: the note waits for the next retry.
WitnessPark(w, n, delivered) ==
  /\ n.cp.origin = LogOrigin
  /\ IsStale(w, whead[w], n.cp.tree)
  /\ wpending' = [wpending EXCEPT ![w] = Park(@, n)]
  /\ got' = Heard(w, delivered)
  /\ UNCHANGED <<whead, notes, proofs, flooded>>

\* Variations: the proof is not flooded; the origin is not looked at.
WitnessAccuseSilently(w, n, delivered) ==
  /\ n.cp.origin = LogOrigin
  /\ IsFork(whead[w], n.cp.tree)
  /\ wpending' = [wpending EXCEPT ![w] = Unpark(@, n)]
  /\ got' = Heard(w, delivered)
  /\ UNCHANGED <<whead, notes, proofs, flooded>>
WitnessAccuseAnyOrigin(w, n, delivered) ==
  /\ IsFork(whead[w], n.cp.tree)
  /\ wpending' = [wpending EXCEPT ![w] = Unpark(@, n)]
  /\ flooded' = [flooded EXCEPT ![w] = @ \cup {Accusation(whead[w], n)}]
  /\ proofs' = proofs \cup {Accusation(whead[w], n)}
  /\ got' = Heard(w, delivered)
  /\ UNCHANGED <<whead, notes>>

\* EquivocationError: the proof is flooded.
WitnessAccuse(w, n, delivered) ==
  LET e == Accusation(whead[w], n) IN
  /\ n.cp.origin = LogOrigin
  /\ IsFork(whead[w], n.cp.tree)
  /\ wpending' = [wpending EXCEPT ![w] = Unpark(@, n)]
  /\ flooded' = [flooded EXCEPT ![w] = @ \cup {e}]
  /\ proofs' = proofs \cup {e}
  /\ got' = Heard(w, delivered)
  /\ UNCHANGED <<whead, notes>>

\* Any other error: the note is dropped.
WitnessDrop(w, n, delivered) ==
  /\ \/ n.cp.origin # LogOrigin
     \/ IsRollback(whead[w], n.cp.tree)
     \/ IsInconsistent(w, whead[w], n.cp.tree)
  /\ wpending' = [wpending EXCEPT ![w] = Unpark(@, n)]
  /\ got' = Heard(w, delivered)
  /\ UNCHANGED <<whead, notes, proofs, flooded>>

WitnessProcess(w, n, delivered) ==
  /\ \/ Cosign(w, n, delivered)
     \/ WitnessPark(w, n, delivered)
     \/ WitnessAccuse(w, n, delivered)
     \/ WitnessDrop(w, n, delivered)
  /\ UNCHANGED <<operatorVars, replica, clientVars, evicted>>

WitnessReceive(w) == \E n \in notes \ got[w] : WitnessProcess(w, n, {n})

WitnessRetry(w) == \E n \in wpending[w] : WitnessProcess(w, n, {})

\* A message with the text of a parked note does not open: it is an error like
\* any other, and the text's note is no longer pending.
WitnessReceiveUnopened(w) == \E n \in wpending[w] :
  /\ n.cp \in Unopened
  /\ wpending' = [wpending EXCEPT ![w] = Unpark(@, n)]
  /\ evicted' = [evicted EXCEPT ![w] = @ \cup {n.cp}]
  /\ UNCHANGED <<operatorVars, topicVars, replica, whead, flooded, clientVars>>

\* A new process with the same key: the head was only in memory.
WitnessRestart(w) ==
  /\ w \in Restarting
  /\ whead' = [whead EXCEPT ![w] = None]
  /\ wpending' = [wpending EXCEPT ![w] = {}]
  /\ flooded' = [flooded EXCEPT ![w] = {}]
  /\ UNCHANGED <<operatorVars, topicVars, replica, clientVars, evicted>>

(* Client *)

TreeOf(n) == IF n = None THEN None ELSE n.cp.tree

HeadTree(c) == TreeOf(chead[c])

\* update: equal checkpoints pool their signatures, a longer one replaces.
NewHead(c, n) == IF HeadTree(c) = n.cp.tree THEN Merge(chead[c], n) ELSE n

\* Update succeeds; Watch yields the checkpoint unless it was the last one.
ClientAccept(c, n, delivered) ==
  /\ n.cp.origin = LogOrigin
  /\ MeetsThreshold(n)
  /\ Accepts(c, HeadTree(c), n.cp.tree)
  /\ chead' = [chead EXCEPT ![c] = NewHead(c, n)]
  /\ cpending' = [cpending EXCEPT ![c] = Unpark(@, n)]
  /\ yielded' = [yielded EXCEPT ![c] = n.cp.tree]
  /\ saving' = [saving EXCEPT ![c] = yielded[c] # n.cp.tree]
  /\ got' = Heard(c, delivered)
  /\ UNCHANGED <<proofs, flooded>>

\* ErrWitnessThreshold or errSourceStale: the merged note waits.
ClientPark(c, n, delivered) ==
  /\ n.cp.origin = LogOrigin
  /\ ~ MeetsThreshold(n) \/ IsStale(c, HeadTree(c), n.cp.tree)
  /\ cpending' = [cpending EXCEPT ![c] = Park(@, n)]
  /\ got' = Heard(c, delivered)
  /\ UNCHANGED <<chead, yielded, saving, proofs, flooded>>

\* EquivocationError: the proof is flooded and the error yielded.
ClientAccuse(c, n, delivered) ==
  LET e == Accusation(HeadTree(c), n) IN
  /\ n.cp.origin = LogOrigin
  /\ MeetsThreshold(n)
  /\ IsFork(HeadTree(c), n.cp.tree)
  /\ cpending' = [cpending EXCEPT ![c] = Unpark(@, n)]
  /\ flooded' = [flooded EXCEPT ![c] = @ \cup {e}]
  /\ proofs' = proofs \cup {e}
  /\ got' = Heard(c, delivered)
  /\ UNCHANGED <<chead, yielded, saving>>

\* Any other error: the note is dropped.
ClientDrop(c, n, delivered) ==
  /\ \/ n.cp.origin # LogOrigin
     \/ /\ MeetsThreshold(n)
        /\ \/ IsRollback(HeadTree(c), n.cp.tree)
           \/ IsInconsistent(c, HeadTree(c), n.cp.tree)
  /\ cpending' = [cpending EXCEPT ![c] = Unpark(@, n)]
  /\ got' = Heard(c, delivered)
  /\ UNCHANGED <<chead, yielded, saving, proofs, flooded>>

\* Watch does nothing else while its consumer runs.
ClientProcess(c, n, delivered) ==
  /\ ~ saving[c]
  /\ \/ ClientAccept(c, n, delivered)
     \/ ClientPark(c, n, delivered)
     \/ ClientAccuse(c, n, delivered)
     \/ ClientDrop(c, n, delivered)
  /\ UNCHANGED <<operatorVars, notes, replica, witnessVars, saved, evicted>>

\* Variation: notes are parked by their size.
WithParkedOfSize(c, n) ==
  [n EXCEPT !.sigs = @ \cup UNION {p.sigs : p \in {q \in cpending[c] : Len(q.cp.tree) = Len(n.cp.tree)}}]

\* A delivered note is merged with the parked one of the same text, if any.
WithParked(c, n) ==
  [n EXCEPT !.sigs = @ \cup UNION {p.sigs : p \in {q \in cpending[c] : q.cp = n.cp}}]

ClientReceive(c) == \E n \in notes \ got[c] :
  ClientProcess(c, WithParked(c, n), {n})

ClientRetry(c) == \E n \in cpending[c] : ClientProcess(c, n, {})

\* The signature lines of the message are merged with those of the parked note,
\* which then does not open either.
ClientReceiveUnopened(c) == \E n \in cpending[c] :
  /\ n.cp \in Unopened
  /\ ~ saving[c]
  /\ cpending' = [cpending EXCEPT ![c] = Unpark(@, n)]
  /\ evicted' = [evicted EXCEPT ![c] = @ \cup {n.cp}]
  /\ UNCHANGED <<operatorVars, topicVars, replica, witnessVars, flooded, chead, yielded, saving, saved>>

\* The loop over Watch persists HeadNote after each yielded checkpoint.
ClientSave(c) ==
  /\ saving[c]
  /\ saved' = [saved EXCEPT ![c] = chead[c]]
  /\ saving' = [saving EXCEPT ![c] = FALSE]
  /\ UNCHANGED <<operatorVars, topicVars, replica, flooded, witnessVars, chead, cpending, yielded, evicted>>

\* Variation: the document's latest checkpoint is taken as it is.
ClientSyncUnchecked(c) == \E t \in replica[c] :
  LET n == Note(OriginOf[Follows[c]], t, {}) IN
  /\ IsLatest(t, replica[c])
  /\ chead' = [chead EXCEPT ![c] = n]
  /\ UNCHANGED <<operatorVars, topicVars, replica, flooded, witnessVars, cpending, yielded, saving, saved, evicted>>

\* Client.Sync: Update with the document's latest checkpoint, which carries
\* the operator's signature alone.
ClientSync(c) == \E t \in replica[c] :
  LET n == Note(OriginOf[Follows[c]], t, {}) IN
  /\ IsLatest(t, replica[c])
  /\ n.cp.origin = LogOrigin
  /\ MeetsThreshold(n)
  /\ Accepts(c, HeadTree(c), t)
  /\ chead' = [chead EXCEPT ![c] = NewHead(c, n)]
  /\ UNCHANGED <<operatorVars, topicVars, replica, flooded, witnessVars, cpending, yielded, saving, saved, evicted>>

\* Variation: the head file is not read back.
ClientRestartForgets(c) ==
  /\ c \in Restarting
  /\ chead' = [chead EXCEPT ![c] = None]
  /\ cpending' = [cpending EXCEPT ![c] = {}]
  /\ yielded' = [yielded EXCEPT ![c] = None]
  /\ saving' = [saving EXCEPT ![c] = FALSE]
  /\ flooded' = [flooded EXCEPT ![c] = {}]
  /\ UNCHANGED <<operatorVars, topicVars, replica, witnessVars, saved, evicted>>

\* A new process restores the head file with SetHead before it watches.
ClientRestart(c) ==
  /\ c \in Restarting
  /\ saved[c] # None => saved[c].cp.origin = LogOrigin /\ MeetsThreshold(saved[c])
  /\ chead' = [chead EXCEPT ![c] = saved[c]]
  /\ cpending' = [cpending EXCEPT ![c] = {}]
  /\ yielded' = [yielded EXCEPT ![c] = None]
  /\ saving' = [saving EXCEPT ![c] = FALSE]
  /\ flooded' = [flooded EXCEPT ![c] = {}]
  /\ UNCHANGED <<operatorVars, topicVars, replica, witnessVars, saved, evicted>>

(* Both readers: a proof from the topic is checked and passed on once. *)
ReceiveProof(r) == \E e \in proofs \ flooded[r] :
  /\ r \in Clients => ~ saving[r]
  /\ VerifyEquivocation(e)
  /\ flooded' = [flooded EXCEPT ![r] = @ \cup {e}]
  /\ UNCHANGED <<operatorVars, topicVars, replica, witnessVars, clientVars, evicted>>

Next ==
  \/ \E o \in Operators : AppendEntry(o) \/ Publish(o) \/ Announce(o)
  \/ \E r \in Readers : SyncReplica(r) \/ ReceiveProof(r)
  \/ \E w \in Witnesses :
       \/ WitnessReceive(w) \/ WitnessRetry(w)
       \/ WitnessReceiveUnopened(w) \/ WitnessRestart(w)
  \/ \E c \in Clients :
       \/ ClientReceive(c) \/ ClientRetry(c) \/ ClientReceiveUnopened(c)
       \/ ClientSave(c) \/ ClientSync(c) \/ ClientRestart(c)

Spec == Init /\ [][Next]_vars

-----------------------------------------------------------------------------
TypeOK ==
  /\ log \in [Operators -> Trees]
  /\ timeline \in [Operators -> SUBSET Trees]
  /\ notes \subseteq Notes
  /\ proofs \subseteq Equivocations
  /\ got \in [Readers -> SUBSET Notes]
  /\ replica \in [Readers -> SUBSET Trees]
  /\ whead \in [Witnesses -> Trees \cup {None}]
  /\ wpending \in [Witnesses -> SUBSET Notes]
  /\ flooded \in [Readers -> SUBSET Equivocations]
  /\ chead \in [Clients -> Notes \cup {None}]
  /\ cpending \in [Clients -> SUBSET Notes]
  /\ yielded \in [Clients -> Trees \cup {None}]
  /\ saving \in [Clients -> BOOLEAN]
  /\ saved \in [Clients -> Notes \cup {None}]
  /\ evicted \in [Readers -> SUBSET Checkpoints]

-----------------------------------------------------------------------------
(* Safety *)

\* Some broadcast note of the log carries w's signature on this tree.
SignedBy(w, tree) ==
  \E n \in notes : w \in n.sigs /\ n.cp = [origin |-> LogOrigin, tree |-> tree]

\* K witnesses have signed the tree: any client may come to accept it.
Certified(tree) == Cardinality({w \in Witnesses : SignedBy(w, tree)}) >= K

\* The quorum condition: two sets of K witnesses share one that kept its head.
QuorumsMeet == 2 * K > Cardinality(Witnesses) + Cardinality(Witnesses \cap Restarting)

\* Split-view resistance.  Whatever the holders of the operator's key sign, in
\* whatever order notes arrive and witnesses restart, two trees that K
\* witnesses signed are never parts of two histories (Witness.cosign).
NoSplitView == QuorumsMeet =>
  \A m, n \in notes :
    Certified(m.cp.tree) /\ Certified(n.cp.tree) => Comparable(m.cp.tree, n.cp.tree)

\* A stable witness has a head, and it contains every tree it ever signed: it
\* never signs two histories, nor forgets one (Witness.cosign).
SignaturesAreBehindHead == \A w \in Stable, n \in notes :
  w \in n.sigs => whead[w] # None /\ Extends(whead[w], n.cp.tree)

\* The head file never gets ahead of the history in memory, so that a restart
\* at any point brings back an earlier part of the same history (runWatch).
SavedIsBehindHead == \A c \in Clients :
  saved[c] # None => chead[c] # None /\ Extends(chead[c].cp.tree, saved[c].cp.tree)

\* Both checkpoints of a flooded proof were published for this log by holders
\* of its key, and they fork: an honest operator is never accused, even when
\* the same key signs another log (VerifyEquivocation, the origin checks).
ProofsAreGenuine == \A e \in proofs :
  /\ VerifyEquivocation(e)
  /\ \A cp \in {e.first, e.second} : \E o \in Operators :
       OriginOf[o] = cp.origin /\ cp.tree \in timeline[o]

\* A head moves only to a tree that contains it, or back to the head file (of a
\* witness: to none) in a step in which the reader restarts, never further; a
\* head file moves only forward (Cosign, Update, SetHead).
OnlyExtend ==
  /\ \A w \in Witnesses : whead[w] # None =>
       \/ whead'[w] # None /\ Extends(whead'[w], whead[w])
       \/ WitnessRestart(w)
  /\ \A c \in Clients : chead[c] # None =>
       \/ chead'[c] # None /\ Extends(chead'[c].cp.tree, chead[c].cp.tree)
       \/ ClientRestart(c)
  /\ \A c \in Clients :
       saved[c] # None => saved'[c] # None /\ Extends(saved'[c].cp.tree, saved[c].cp.tree)

HeadsOnlyExtend == [][OnlyExtend]_vars

-----------------------------------------------------------------------------
(* Refinement *)

\* The clients together read one append-only log.  It takes at least one
\* countersignature, and the quorum condition.
CertifiedTrees ==
  {t \in {n.cp.tree : n \in {m \in notes : m.sigs # {}}} : Certified(t)}

Log == INSTANCE OneLog WITH
  certified <- CertifiedTrees,
  head <- [c \in Clients |-> TreeOf(chead[c])],
  kept <- [c \in Clients |-> TreeOf(saved[c])]

ReadsOneLog == Log!Spec

-----------------------------------------------------------------------------
(* Liveness *)

\* Gossip delivers, replicas are synced periodically (resyncLoop), parked
\* notes are retried by the ticker, and a consumer of Watch goes on.  Nothing
\* is asked of the operators.
Fairness ==
  /\ \A r \in Readers : WF_vars(SyncReplica(r)) /\ WF_vars(ReceiveProof(r))
  /\ \A w \in Witnesses : WF_vars(WitnessReceive(w)) /\ WF_vars(WitnessRetry(w))
  /\ \A c \in Clients :
       WF_vars(ClientReceive(c)) /\ WF_vars(ClientRetry(c)) /\ WF_vars(ClientSave(c))

FairSpec == Spec /\ Fairness

\* The trees operators may come to publish.
Publishable == UNION {{SubSeq(f, 1, i) : i \in 1 .. Len(f)} : f \in UNION {Feed[o] : o \in Operators}}

Announced(t) == \E n \in notes : n.cp = [origin |-> LogOrigin, tree |-> t]

\* A note of t, or of a longer tree, was parked by one of the readers and
\* forgotten for a message with its text that does not open.
Lost(readers, t) == \E r \in readers : \E cp \in evicted[r] : Len(cp.tree) >= Len(t)

\* Every checkpoint that is announced and published where the readers look is
\* cosigned, gathered, accepted, yielded and saved by every client, or one at
\* least as long is, though gossip delivers each note once, a replica may lag
\* behind the notes and a twin may announce another branch (Run, Watch and
\* their retries).  A message that does not open is all that can keep it from
\* that, and only while the note of that tree or a longer one is parked.
AnnouncedIsSaved == \A c \in Clients, t \in Publishable :
  (Announced(t) /\ \A r \in Readers : t \in timeline[Follows[r]]) ~>
    \/ saved[c] # None /\ Len(saved[c].cp.tree) >= Len(t)
    \/ Lost(Witnesses \cup {c}, t)

\* "Turn split views into verifiable Equivocation proofs that are flooded over
\* gossip" (README): once two trees of one size are announced, every reader
\* comes to hold a proof, unless a parked note of that size, or a longer one,
\* was forgotten for a message that does not open.
ForksAreProved == \A s, t \in Publishable :
  (Announced(s) /\ Announced(t) /\ Len(s) = Len(t) /\ s # t) ~>
    \/ \A r \in Readers : flooded[r] # {}
    \/ Lost(Readers, s)

=============================================================================
