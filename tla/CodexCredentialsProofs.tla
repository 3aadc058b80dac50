----------------------- MODULE CodexCredentialsProofs -----------------------
(***************************************************************************)
(* The safety of CodexCredentials for any number of runs, handlers, tries, *)
(* operations and faults: a live lease is never stolen, a write that was   *)
(* acknowledged or fenced never lands, a settled run keeps no lease, and a *)
(* rotation that is the stored credential is remembered by its run.        *)
(*                                                                         *)
(* What has to hold of a write or of a call is stated over the bucket B,   *)
(* the journals R and the operation count N it is judged in, so that the   *)
(* same lemma serves the state before and the state after a step.          *)
(***************************************************************************)
EXTENDS CodexCredentials, TLAPS

Idents == Runs \X Nat \X Nat

Writes ==
  [obj : {"lease", "auth"}, id : Idents, gen : Nat,
   effect : {"take", "expire", "rotate", "keep"}, fence : BOOLEAN]

Receipts == [id : Idents, gen : Nat] \cup {NoReceipt}

Objects ==
  [gen : Nat, by : Writes \cup {NoWrite}, owner : Runs \cup {None}, alive : BOOLEAN,
   receipt : Receipts]

Operations == [n : Nat, kind : Kinds \cup {None}, seq : Nat, mutation : Writes \cup {NoWrite}]

Journals ==
  [live : BOOLEAN, pending : BOOLEAN, restored : BOOLEAN, receipt : Receipts,
   op : Operations, heldGen : Nat]

Buckets == [{"lease", "auth"} -> Objects]

AllJournals == [Runs -> Journals]

Goals == {None, "acquire", "renew", "rotate", "release", "retire", "recoverRelease",
          "take", "expire", "keep"}

Places == {"idle", "acquire", "renew", "persist", "prepare", "save", "confirm", "ack",
           "readAuth", "finish", "resolve", "resolveLease", "retry", "fenceRead",
           "fenceSave", "fenceAck", "check", "releaseRead"}

Calls ==
  [pc : Places, tick : BOOLEAN, run : Runs \cup {None}, kind : Kinds \cup {None}, n : Nat,
   seq : Nat, phase : {"main", "unwind", "last"}, todo : Writes \cup {NoWrite}, goal : Goals,
   ok : BOOLEAN, receipt : Receipts, leaseGen : Nat, base : Nat, proof : Nat, tries : Nat,
   snapGen : Nat, rotated : BOOLEAN]

CredentialsTypeOK ==
  /\ objects \in Buckets
  /\ runs \in AllJournals
  /\ calls \in [Handlers -> Calls]
  /\ net \subseteq Writes
  /\ ops \in Nat
  /\ faults \in Nat

-----------------------------------------------------------------------------
(* The inductive invariant *)

Named(q, R) == R[q.id[1]].op.mutation.id = q.id

Dead(q, B) == q.gen < B[q.obj].gen

Holds(c, B) == B["lease"].owner = c /\ B["lease"].alive

Current(w, R) == R[w.run].op.n = w.n

(* A write of the lease is prepared against a generation its run owns, or  *)
(* that has expired; the credential is only rotated or kept.               *)
Sound(q, B) ==
  /\ q.effect \in {"take", "expire"} => q.obj = "lease"
  /\ q.effect = "rotate" => q.obj = "auth"
  /\ q.gen <= B[q.obj].gen
  /\ q.obj = "lease" /\ q.gen = B["lease"].gen /\ B["lease"].alive => B["lease"].owner = q.id[1]

(* A mutation whose sequence its journal has passed or is at.              *)
Numbered(q, R, N) ==
  /\ q.id[2] \in 1..N
  /\ q.id[2] = R[q.id[1]].op.n => q.id[3] <= R[q.id[1]].op.seq

(* A write that was sent is the journalled mutation or the fence of it, or *)
(* its generation has passed.                                              *)
Fenced(q, B, R) ==
  LET m == R[q.id[1]].op.mutation IN
  /\ ~Named(q, R) => Dead(q, B)
  /\ Named(q, R) =>
       /\ q.obj = m.obj /\ q.gen = m.gen /\ q.effect \in {m.effect, "keep"}
       /\ q.obj = "lease" /\ q.effect = "keep" /\ m.effect = "expire" /\ q.gen = B["lease"].gen
            => ~B["lease"].alive

SentOK(q, B, R, N) == Sound(q, B) /\ Numbered(q, R, N) /\ Fenced(q, B, R)

Preparing(w) == w.pc = "prepare"
Answering(w) == w.pc \in {"save", "confirm", "ack"}
Fencing(w) == w.pc \in {"fenceRead", "fenceSave", "fenceAck"}
Listed(w) == w.pc = "retry" /\ w.todo # NoWrite
Sending(w) == Answering(w) \/ Fencing(w) \/ Listed(w)

(* The shape of a call, which no other actor can change.                   *)
Shape(w) ==
  /\ Preparing(w) \/ Sending(w) =>
       /\ w.todo \in Writes
       /\ w.todo.id[1] = w.run /\ w.todo.id[2] = w.n
  /\ Preparing(w) \/ Answering(w) =>
       /\ w.todo.effect # "keep"
       /\ w.goal = "acquire" => w.todo.effect = "take"
       /\ w.goal = "rotate" <=> w.todo.effect = "rotate"
       /\ w.goal = "retire" => w.todo.effect = "expire"
  /\ w.pc = "confirm" => w.todo.effect = "take"
  /\ w.pc \in {"prepare", "save"} => w.ok
  /\ w.pc \in {"retry", "fenceRead", "fenceSave"} => w.receipt = NoReceipt
  /\ Listed(w) \/ w.pc = "fenceRead" => w.todo.effect = w.goal
  /\ w.pc = "fenceSave" => w.todo.effect \in {"expire", "keep"}
  /\ Listed(w) \/ w.pc \in {"fenceRead", "fenceSave"} =>
       w.goal \in (IF w.todo.obj = "auth" THEN {"rotate"} ELSE {"take", "expire"})

(* A lease generation a call holds or has confirmed.                       *)
OwnGen(g, c, B) ==
  /\ g <= B["lease"].gen
  /\ g # 0 /\ g = B["lease"].gen /\ B["lease"].alive => B["lease"].owner = c

(* A proof of retirement is as good as its sequence is recent.             *)
ProofOK(w, B, R) ==
  LET op == R[w.run].op IN
  Current(w, R) =>
    /\ w.proof <= op.seq \/ w.proof = NoProof
    /\ w.proof = op.seq => op.mutation = NoWrite /\ ~Holds(w.run, B)

(* The sequence a resolution started from.                                 *)
BaseOK(s, w, R) ==
  LET op == R[w.run].op IN
  Current(w, R) => s <= op.seq /\ (s = op.seq => op.mutation = NoWrite)

(* The release that is to prove retirement: once its generation has        *)
(* passed, its run does not hold the lease.                                *)
RetireOK(w, B, R) ==
  /\ w.pc = "resolveLease" => BaseOK(w.base, w, R)
  /\ w.pc = "prepare" /\ w.goal = "retire" =>
       /\ w.todo.id[3] # 0 /\ BaseOK(w.todo.id[3] - 1, w, R)
       /\ Current(w, R) /\ R[w.run].op.seq = w.todo.id[3] - 1 /\ Dead(w.todo, B)
            => ~Holds(w.run, B)
  /\ w.pc \in {"save", "ack"} /\ w.goal = "retire" /\ Named(w.todo, R) /\ Dead(w.todo, B)
       => ~Holds(w.run, B)

(* What a call knows of the stored credential's receipt.                   *)
ReceiptOK(w, B, R) ==
  LET found == B["auth"].receipt IN
  Named(w.todo, R) /\ found # NoReceipt /\ found.id[1] = w.run =>
    /\ w.pc = "ack" /\ w.goal = "rotate" => (w.ok <=> found.id = w.todo.id)
    /\ w.pc = "fenceAck" =>
         /\ found.id = w.todo.id => w.receipt = found
         /\ w.receipt # NoReceipt => w.receipt = found

(* What holds wherever a call is.                                          *)
Core(w, B, R, N) ==
  /\ w.run \in Runs /\ w.n # 0 /\ w.n <= N
  /\ OwnGen(w.leaseGen, w.run, B) /\ w.snapGen <= B["auth"].gen
  /\ ProofOK(w, B, R)

(* A fence remembers the effect of the mutation it is for.                 *)
GoalOK(w, R) ==
  w.pc = "fenceSave" /\ Named(w.todo, R) => R[w.todo.id[1]].op.mutation.effect = w.goal

CallOK(w, B, R, N) ==
  w.pc # "idle" =>
    /\ Core(w, B, R, N) /\ Shape(w)
    /\ w.pc = "ack" /\ w.goal = "acquire" /\ w.ok => OwnGen(w.base, w.run, B)
    /\ Preparing(w) => Sound(w.todo, B)
    /\ Sending(w) => SentOK(w.todo, B, R, N)
    /\ w.pc \in {"confirm", "ack", "fenceAck"} => Dead(w.todo, B)
    /\ RetireOK(w, B, R) /\ GoalOK(w, R)
    /\ Sending(w) => ReceiptOK(w, B, R)

RunOK(c, B, R, N) ==
  LET op == R[c].op IN
  /\ op.n <= N /\ op.seq <= MaxSequence
  /\ op.n = 0 => op = NoOp
  /\ op.mutation # NoWrite =>
       /\ op.mutation.id = <<c, op.n, op.seq>>
       /\ op.mutation.effect # "keep" /\ Sound(op.mutation, B)
  /\ R[c].heldGen <= B["auth"].gen
  /\ op # NoOp /\ ~R[c].live => op.kind = "cleanup"
  /\ op = NoOp /\ ~R[c].live => ~Holds(c, B)

(* The lease's last writer, and the journal of the stored rotation.        *)
BucketOK(B, R, N) ==
  LET found == B["auth"].receipt
      m     == R[found.id[1]].op.mutation
  IN  /\ B["lease"].gen = 0 => ~B["lease"].alive
      /\ B["lease"].by.effect = "take" => B["lease"].owner = B["lease"].by.id[1]
      /\ found # NoReceipt =>
           /\ found.gen < B["auth"].gen
           /\ Numbered(found, R, N)
           /\ Named(found, R) => m.effect = "rotate" /\ m.gen = found.gen
           /\ ~Named(found, R) => R[found.id[1]].receipt = found

Rotating(h) == calls[h].pc = "save" /\ calls[h].todo.effect = "rotate"

(* A rotation about to be sent has not been sent before.                   *)
SendsOnce ==
  \A h \in Handlers : Rotating(h) =>
    /\ auth.receipt.id # calls[h].todo.id
    /\ \A q \in net : q.effect = "rotate" => q.id # calls[h].todo.id
    /\ \A g \in Handlers : Rotating(g) /\ g # h => calls[g].todo.id # calls[h].todo.id

CredentialsInv ==
  /\ CredentialsTypeOK
  /\ BucketOK(objects, runs, ops)
  /\ \A c \in Runs : RunOK(c, objects, runs, ops)
  /\ \A h \in Handlers : CallOK(calls[h], objects, runs, ops)
  /\ \A q \in net : SentOK(q, objects, runs, ops)
  /\ SendsOnce

-----------------------------------------------------------------------------
(* Types *)

LEMMA EmptyIdent ==
  ASSUME NEW i \in Idents PROVE i # << >>
BY DEF Idents

LEMMA IdentOf ==
  ASSUME NEW c \in Runs, NEW n \in Nat, NEW s \in Nat
  PROVE  /\ <<c, n, s>> \in Idents
         /\ <<c, n, s>>[1] = c /\ <<c, n, s>>[2] = n /\ <<c, n, s>>[3] = s
BY DEF Idents

LEMMA IdentParts ==
  ASSUME NEW i \in Idents
  PROVE  /\ i[1] \in Runs /\ i[2] \in Nat /\ i[3] \in Nat /\ i = <<i[1], i[2], i[3]>>
BY DEF Idents

LEMMA NoWriteIsNone ==
  ASSUME NEW q \in Writes PROVE q # NoWrite /\ q.id # NoWrite.id
BY EmptyIdent DEF Writes, NoWrite, None

LEMMA NoOpFields ==
  NoOp.n = 0 /\ NoOp.seq = 0 /\ NoOp.mutation = NoWrite /\ NoOp \in Operations
BY DEF NoOp, Operations

LEMMA NoReceiptIsNone ==
  ASSUME NEW r \in Receipts, r # NoReceipt PROVE r.id \in Idents /\ r.gen \in Nat
BY DEF Receipts

(* What each kind of write leaves.                                         *)
LEMMA StoredFacts ==
  ASSUME NEW o \in Objects, NEW q \in Writes
  PROVE  /\ stored(o, q) \in Objects
         /\ stored(o, q).gen = o.gen + 1
         /\ stored(o, q).by = q
         /\ q.effect = "take" => stored(o, q).owner = q.id[1]
         /\ q.effect = "expire" => ~stored(o, q).alive
         /\ q.effect \in {"rotate", "keep"} => stored(o, q).alive = o.alive
         /\ q.effect \in {"take", "expire"} => stored(o, q).owner = q.id[1]
         /\ q.effect \in {"rotate", "keep"} =>
              stored(o, q).owner = IF q.effect = "keep" /\ o.gen = 0 THEN q.id[1] ELSE o.owner
         /\ q.effect = "rotate" => stored(o, q).receipt = [id |-> q.id, gen |-> q.gen]
         /\ q.effect # "rotate" => stored(o, q).receipt = o.receipt
<1> DEFINE next == [o EXCEPT !.gen = @ + 1, !.by = q]
<1>1. /\ q.id[1] \in Runs /\ q.id \in Idents /\ q.gen \in Nat
      /\ q.effect \in {"take", "expire", "rotate", "keep"}
  BY IdentParts DEF Writes
<1>2. /\ next \in Objects /\ next.gen = o.gen + 1 /\ next.by = q
      /\ next.owner = o.owner /\ next.alive = o.alive /\ next.receipt = o.receipt
  <2>1. o.gen + 1 \in Nat BY DEF Objects
  <2>2. next \in Objects BY <2>1 DEF Objects
  <2>3. next.gen = o.gen + 1 /\ next.by = q BY DEF Objects
  <2>4. next.owner = o.owner /\ next.receipt = o.receipt BY DEF Objects
  <2>5. next.alive = o.alive BY Zenon DEF Objects
  <2> QED BY <2>2, <2>3, <2>4, <2>5
<1>3. CASE q.effect = "take"
  <2>1. stored(o, q) = [next EXCEPT !.owner = q.id[1], !.alive = TRUE]
    BY <1>3 DEF stored
  <2> HIDE DEF next
  <2> QED BY <1>1, <1>2, <1>3, <2>1 DEF Objects
<1>4. CASE q.effect = "expire"
  <2>1. stored(o, q) = [next EXCEPT !.owner = q.id[1], !.alive = FALSE]
    BY <1>4 DEF stored
  <2> HIDE DEF next
  <2> QED BY <1>1, <1>2, <1>4, <2>1 DEF Objects
<1>5. CASE q.effect = "rotate"
  <2>1. stored(o, q) = [next EXCEPT !.receipt = [id |-> q.id, gen |-> q.gen]]
    BY <1>5 DEF stored
  <2> HIDE DEF next
  <2> QED BY <1>1, <1>2, <1>5, <2>1 DEF Objects, Receipts
<1>6. CASE q.effect = "keep"
  <2>1. stored(o, q) = IF o.gen = 0 THEN [next EXCEPT !.owner = q.id[1]] ELSE next
    BY <1>6 DEF stored
  <2> HIDE DEF next
  <2> QED BY <1>1, <1>2, <1>6, <2>1 DEF Objects
<1> QED BY <1>1, <1>3, <1>4, <1>5, <1>6

-----------------------------------------------------------------------------
(* How the bucket moves *)

(* The lease keeps its generation and may expire, or moves on to the next  *)
(* one, held then by no run but one whose journal names a write of the     *)
(* previous generation that is not a release.                              *)
LeaseMoves(B, C, R) ==
  LET old == B["lease"]
      new == C["lease"]
  IN  /\ new.gen = old.gen =>
           new.owner = old.owner /\ new.by = old.by /\ (new.alive => old.alive)
      /\ new.gen # old.gen =>
           /\ new.gen = old.gen + 1
           /\ new.by.effect = "take" => new.owner = new.by.id[1]
           /\ \A c \in Runs : Holds(c, C) =>
                R[c].op.mutation # NoWrite /\ R[c].op.mutation.effect # "expire"

(* The credential's receipt is kept, or is that of a journalled rotation.  *)
AuthMoves(B, C, R) ==
  LET old == B["auth"]
      new == C["auth"]
      m   == R[new.receipt.id[1]].op.mutation
  IN  /\ new.gen \in {old.gen, old.gen + 1}
      /\ new.receipt # old.receipt =>
           /\ new.gen = old.gen + 1
           /\ new.receipt # NoReceipt
           /\ Named(new.receipt, R) /\ m \in Writes
           /\ m.obj = "auth" /\ m.effect = "rotate" /\ m.gen = old.gen
           /\ new.receipt.gen = old.gen

landing(B, q) == [B EXCEPT ![q.obj] = stored(@, q)]

LEMMA LandingMoves ==
  ASSUME NEW B \in Buckets, NEW R \in AllJournals, NEW N \in Nat, NEW q \in Writes,
         SentOK(q, B, R, N), B[q.obj].gen = q.gen,
         \A c \in Runs : RunOK(c, B, R, N), BucketOK(B, R, N),
         NEW C, C = landing(B, q)
  PROVE  /\ C \in Buckets /\ LeaseMoves(B, C, R) /\ AuthMoves(B, C, R)
         /\ Named(q, R) /\ Dead(q, C)
         /\ C["auth"].receipt # B["auth"].receipt => q.effect = "rotate" /\ C["auth"].receipt.id = q.id
         /\ q.effect = "rotate" => C["auth"].receipt = [id |-> q.id, gen |-> q.gen]
         /\ B["lease"].alive => C["lease"].owner = B["lease"].owner
         /\ \A o \in {"lease", "auth"} : C[o].gen # B[o].gen => C[o].by = q
<1> DEFINE c == q.id[1]
           m == R[c].op.mutation
           s == stored(B[q.obj], q)
<1>1. /\ q.obj \in {"lease", "auth"} /\ q.id \in Idents /\ q.gen \in Nat
      /\ q.effect \in {"take", "expire", "rotate", "keep"} /\ c \in Runs
  BY IdentParts DEF Writes
<1>2. B[q.obj] \in Objects /\ B["lease"] \in Objects /\ B["auth"] \in Objects
  BY <1>1 DEF Buckets
<1>3. C[q.obj] = s /\ \A o \in {"lease", "auth"} : o # q.obj => C[o] = B[o]
  BY <1>1 DEF Buckets, landing
<1>4. C \in Buckets
  BY <1>1, <1>2, StoredFacts DEF Buckets, landing
<1>5. B[q.obj].gen \in Nat
  BY <1>2 DEF Objects
<1>6. Named(q, R) /\ q.obj = m.obj /\ q.gen = m.gen /\ q.effect \in {m.effect, "keep"}
  BY <1>5 DEF SentOK, Fenced, Dead
<1>7. m \in Writes /\ m # NoWrite
  <2>1. m.id = q.id BY <1>6 DEF Named
  <2>2. m \in Writes \cup {NoWrite} BY <1>1 DEF AllJournals, Journals, Operations
  <2> QED BY <2>1, <2>2, NoWriteIsNone
<1>s. /\ s.gen = B[q.obj].gen + 1 /\ s.by = q
      /\ q.effect \in {"take", "expire"} => s.owner = c
      /\ q.effect = "expire" => ~s.alive
      /\ q.effect = "keep" => s.alive = B[q.obj].alive
      /\ q.effect = "keep" => s.owner = IF B[q.obj].gen = 0 THEN c ELSE B[q.obj].owner
      /\ q.effect = "rotate" => s.receipt = [id |-> q.id, gen |-> q.gen]
      /\ q.effect # "rotate" => s.receipt = B[q.obj].receipt
  <2>1. s.gen = B[q.obj].gen + 1 /\ s.by = q
    BY <1>2, StoredFacts
  <2>2. /\ q.effect \in {"take", "expire"} => s.owner = c
        /\ q.effect = "rotate" => s.receipt = [id |-> q.id, gen |-> q.gen]
        /\ q.effect # "rotate" => s.receipt = B[q.obj].receipt
    BY <1>2, StoredFacts
  <2>3. q.effect = "expire" => ~s.alive
    BY <1>2, StoredFacts
  <2>4. q.effect \in {"rotate", "keep"} => s.alive = B[q.obj].alive
    BY <1>2, StoredFacts, Zenon
  <2>5. q.effect \in {"rotate", "keep"} =>
          s.owner = IF q.effect = "keep" /\ B[q.obj].gen = 0 THEN c ELSE B[q.obj].owner
    BY <1>2, StoredFacts, Zenon
  <2> QED BY <2>1, <2>2, <2>3, <2>4, <2>5
<1> HIDE DEF c, m, s
<1>8. Dead(q, C)
  BY <1>3, <1>5, <1>s DEF Dead
<1>9. CASE q.obj = "lease"
  <2>1. C["auth"] = B["auth"] /\ C["lease"] = s
    BY <1>3, <1>9
  <2>2. q.effect # "rotate"
    BY <1>9 DEF SentOK, Sound
  <2>3. B["lease"].alive => B["lease"].owner = c
    BY <1>9 DEF SentOK, Sound, c
  <2>4. s.gen = B["lease"].gen + 1 /\ s.by = q
    BY <1>9, <1>s
  <2>5. q.effect = "take" => s.owner = c
    BY <1>9, <1>s
  <2>6. q.effect = "expire" => ~s.alive /\ s.owner = c
    BY <1>9, <1>s
  <2>7. q.effect = "keep" => s.alive = B["lease"].alive /\ s.owner \in {c, B["lease"].owner}
    BY <1>9, <1>s
  <2>8. ASSUME s.alive PROVE s.owner = c /\ m.effect # "expire"
    <3>1. CASE q.effect = "take"
      BY <3>1, <2>5, <1>6
    <3>2. CASE q.effect = "expire"
      BY <3>2, <2>6, <2>8
    <3>3. CASE q.effect = "keep"
      <4>1. B["lease"].alive
        BY <3>3, <2>7, <2>8
      <4>2. m.effect # "expire"
        BY <4>1, <3>3, <1>6, <1>9 DEF SentOK, Fenced, m, c
      <4> QED BY <4>1, <4>2, <3>3, <2>3, <2>7
    <3> QED BY <3>1, <3>2, <3>3, <2>2, <1>1
  <2>9. LeaseMoves(B, C, R)
    <3>1. C["lease"].gen = B["lease"].gen + 1 /\ C["lease"].gen # B["lease"].gen
      BY <2>1, <2>4, <1>5, <1>9
    <3>2. C["lease"].by.effect = "take" => C["lease"].owner = C["lease"].by.id[1]
      BY <2>1, <2>4, <2>5 DEF c
    <3>3. ASSUME NEW d \in Runs, Holds(d, C)
          PROVE  R[d].op.mutation # NoWrite /\ R[d].op.mutation.effect # "expire"
      BY <3>3, <2>1, <2>8, <1>7 DEF Holds, m
    <3> QED BY <3>1, <3>2, <3>3 DEF LeaseMoves
  <2>10. AuthMoves(B, C, R)
    BY <2>1 DEF AuthMoves
  <2>11. B["lease"].alive => C["lease"].owner = B["lease"].owner
    BY <2>1, <2>2, <2>3, <2>5, <2>6, <2>7, <1>1
  <2> QED BY <1>4, <1>6, <1>8, <2>1, <2>2, <2>4, <2>9, <2>10, <2>11
<1>10. CASE q.obj = "auth"
  <2>1. C["lease"] = B["lease"] /\ C["auth"] = s
    BY <1>3, <1>10
  <2>2. s.gen = B["auth"].gen + 1 /\ s.by = q
    BY <1>10, <1>s
  <2>3. q.effect # "rotate" => s.receipt = B["auth"].receipt
    BY <1>10, <1>s
  <2>4. q.effect = "rotate" => s.receipt = [id |-> q.id, gen |-> q.gen]
    BY <1>10, <1>s
  <2>5. LeaseMoves(B, C, R)
    BY <2>1 DEF LeaseMoves
  <2>6. ASSUME q.effect = "rotate"
        PROVE  /\ s.receipt.id = q.id /\ s.receipt.gen = q.gen /\ s.receipt # NoReceipt
               /\ Named(s.receipt, R) /\ m.effect = "rotate" /\ R[s.receipt.id[1]].op.mutation = m
    <3>1. s.receipt.id = q.id /\ s.receipt.gen = q.gen
      BY <2>4, <2>6
    <3>2. s.receipt # NoReceipt
      BY <3>1, <1>1, EmptyIdent DEF NoReceipt
    <3> QED BY <3>1, <3>2, <2>6, <1>6 DEF Named, m, c
  <2>7. AuthMoves(B, C, R)
    BY <2>1, <2>2, <2>3, <2>6, <1>6, <1>7, <1>10 DEF AuthMoves
  <2> QED BY <1>4, <1>6, <1>8, <2>1, <2>2, <2>3, <2>4, <2>5, <2>6, <2>7
<1> QED BY <1>1, <1>9, <1>10

-----------------------------------------------------------------------------
(* What a move of the bucket preserves *)

LEMMA GensGrow ==
  ASSUME NEW B \in Buckets, NEW C \in Buckets, NEW R, LeaseMoves(B, C, R), AuthMoves(B, C, R),
         NEW o \in {"lease", "auth"}
  PROVE  B[o].gen \in Nat /\ C[o].gen \in {B[o].gen, B[o].gen + 1}
<1>1. B["lease"].gen \in Nat /\ B["auth"].gen \in Nat
  BY DEF Buckets, Objects
<1>2. C["lease"].gen \in {B["lease"].gen, B["lease"].gen + 1}
  BY DEF LeaseMoves
<1>3. C["auth"].gen \in {B["auth"].gen, B["auth"].gen + 1}
  BY DEF AuthMoves
<1> QED BY <1>1, <1>2, <1>3

LEMMA SoundMoves ==
  ASSUME NEW B \in Buckets, NEW C \in Buckets, NEW R, LeaseMoves(B, C, R), AuthMoves(B, C, R),
         NEW q \in Writes
  PROVE  /\ Sound(q, B) => Sound(q, C)
         /\ Dead(q, B) => Dead(q, C)
<1>1. q.obj \in {"lease", "auth"} /\ q.gen \in Nat
  BY DEF Writes
<1>2. B[q.obj].gen \in Nat /\ C[q.obj].gen \in {B[q.obj].gen, B[q.obj].gen + 1}
  BY <1>1, GensGrow
<1>3. Dead(q, B) => Dead(q, C)
  BY <1>1, <1>2 DEF Dead
<1>4. ASSUME Sound(q, B) PROVE Sound(q, C)
  <2>1. q.gen <= C[q.obj].gen
    BY <1>1, <1>2, <1>4 DEF Sound
  <2>2. ASSUME q.obj = "lease", q.gen = C["lease"].gen, C["lease"].alive
        PROVE  C["lease"].owner = q.id[1]
    <3>1. C["lease"].gen = B["lease"].gen
      BY <1>1, <1>2, <1>4, <2>2 DEF Sound
    <3> QED BY <3>1, <1>4, <2>2 DEF LeaseMoves, Sound
  <2> QED BY <1>4, <2>1, <2>2 DEF Sound
<1> QED BY <1>3, <1>4

LEMMA SentMoves ==
  ASSUME NEW B \in Buckets, NEW C \in Buckets, NEW R, LeaseMoves(B, C, R), AuthMoves(B, C, R),
         NEW N \in Nat, NEW q \in Writes, SentOK(q, B, R, N)
  PROVE  SentOK(q, C, R, N)
<1> DEFINE m == R[q.id[1]].op.mutation
<1>1. q.gen \in Nat
  BY DEF Writes
<1>2. Sound(q, C) /\ (Dead(q, B) => Dead(q, C)) /\ Sound(q, B)
  BY SoundMoves DEF SentOK
<1>3. ASSUME Named(q, R), q.obj = "lease", q.effect = "keep", m.effect = "expire",
             q.gen = C["lease"].gen
      PROVE  ~C["lease"].alive
  <2>1. B["lease"].gen \in Nat /\ C["lease"].gen \in {B["lease"].gen, B["lease"].gen + 1}
    BY GensGrow
  <2>2. C["lease"].gen = B["lease"].gen
    BY <1>1, <1>2, <1>3, <2>1 DEF Sound
  <2>3. ~B["lease"].alive
    BY <1>3, <2>2 DEF SentOK, Fenced
  <2> QED BY <2>2, <2>3 DEF LeaseMoves
<1>4. Fenced(q, C, R)
  BY <1>2, <1>3 DEF SentOK, Fenced
<1> QED BY <1>2, <1>4 DEF SentOK

(* A run without a pending mutation that does not hold the lease does not  *)
(* come to hold it.                                                        *)
LEMMA HoldsMoves ==
  ASSUME NEW B \in Buckets, NEW C \in Buckets, NEW R, LeaseMoves(B, C, R), NEW c \in Runs,
         ~Holds(c, B) \/ B["lease"].gen # C["lease"].gen,
         R[c].op.mutation = NoWrite \/ R[c].op.mutation.effect = "expire"
  PROVE  ~Holds(c, C)
BY DEF LeaseMoves, Holds

LEMMA OwnGenMoves ==
  ASSUME NEW B \in Buckets, NEW C \in Buckets, NEW R, LeaseMoves(B, C, R), AuthMoves(B, C, R),
         NEW g \in Nat, NEW c, OwnGen(g, c, B)
  PROVE  OwnGen(g, c, C)
<1>1. B["lease"].gen \in Nat /\ C["lease"].gen \in {B["lease"].gen, B["lease"].gen + 1}
  BY GensGrow
<1>2. g <= C["lease"].gen
  BY <1>1 DEF OwnGen
<1>3. ASSUME g # 0, g = C["lease"].gen, C["lease"].alive PROVE C["lease"].owner = c
  <2>1. C["lease"].gen = B["lease"].gen
    BY <1>1, <1>3 DEF OwnGen
  <2> QED BY <1>3, <2>1 DEF OwnGen, LeaseMoves
<1> QED BY <1>2, <1>3 DEF OwnGen

LEMMA CoreMoves ==
  ASSUME NEW B \in Buckets, NEW C \in Buckets, NEW R, LeaseMoves(B, C, R), AuthMoves(B, C, R),
         NEW N \in Nat, NEW w \in Calls, Core(w, B, R, N)
  PROVE  Core(w, C, R, N)
<1>1. w.leaseGen \in Nat /\ w.snapGen \in Nat /\ w.run \in Runs
  BY DEF Calls, Core
<1>2. OwnGen(w.leaseGen, w.run, C)
  BY <1>1, OwnGenMoves DEF Core
<1>3. w.snapGen <= C["auth"].gen
  <2>1. B["auth"].gen \in Nat /\ C["auth"].gen \in {B["auth"].gen, B["auth"].gen + 1}
    BY GensGrow
  <2> QED BY <1>1, <2>1 DEF Core
<1>4. ProofOK(w, C, R)
  BY <1>1, HoldsMoves DEF Core, ProofOK
<1> QED BY <1>2, <1>3, <1>4 DEF Core

LEMMA CallMoves ==
  ASSUME NEW B \in Buckets, NEW C \in Buckets, NEW R \in AllJournals, LeaseMoves(B, C, R),
         AuthMoves(B, C, R), NEW N \in Nat, NEW w \in Calls, CallOK(w, B, R, N)
  PROVE  CallOK(w, C, R, N)
<1> SUFFICES ASSUME w.pc # "idle" PROVE CallOK(w, C, R, N)
  BY DEF CallOK
<1>1. Core(w, B, R, N) /\ Shape(w) /\ w.run \in Runs
  BY DEF CallOK, Core
<1>2. Core(w, C, R, N)
  BY <1>1, CoreMoves
<1>3. w.pc = "ack" /\ w.goal = "acquire" /\ w.ok => OwnGen(w.base, w.run, C)
  <2>1. w.base \in Nat
    BY DEF Calls
  <2> QED BY <2>1, OwnGenMoves DEF CallOK
<1>4. Preparing(w) \/ Sending(w) =>
        w.todo \in Writes /\ w.todo.id[1] = w.run /\ w.todo.id[2] = w.n
  BY <1>1 DEF Shape
<1>5. Preparing(w) => Sound(w.todo, C)
  BY <1>4, SoundMoves DEF CallOK
<1>6. Sending(w) => SentOK(w.todo, C, R, N)
  BY <1>4, SentMoves DEF CallOK
<1>7. w.pc \in {"confirm", "ack", "fenceAck"} => Dead(w.todo, C) /\ Dead(w.todo, B)
  BY <1>4, SoundMoves DEF CallOK, Sending, Answering, Fencing
<1>8. RetireOK(w, C, R)
  <2>1. w.pc = "resolveLease" => BaseOK(w.base, w, R)
    BY DEF CallOK, RetireOK
  <2>2. ASSUME w.pc = "prepare", w.goal = "retire"
        PROVE  /\ w.todo.id[3] # 0 /\ BaseOK(w.todo.id[3] - 1, w, R)
               /\ Current(w, R) /\ R[w.run].op.seq = w.todo.id[3] - 1 /\ Dead(w.todo, C)
                    => ~Holds(w.run, C)
    <3>1. w.todo.id[3] # 0 /\ BaseOK(w.todo.id[3] - 1, w, R)
      BY <2>2 DEF CallOK, RetireOK
    <3>2. ASSUME Current(w, R), R[w.run].op.seq = w.todo.id[3] - 1, Dead(w.todo, C)
          PROVE  ~Holds(w.run, C)
      <4>1. R[w.run].op.mutation = NoWrite
        BY <3>1, <3>2 DEF BaseOK
      <4>2. w.todo \in Writes /\ w.todo.obj = "lease"
        BY <1>1, <1>4, <2>2 DEF Preparing, Shape, CallOK, Sound
      <4>3. B["lease"].gen = C["lease"].gen => ~Holds(w.run, B)
        BY <4>2, <2>2, <3>2 DEF CallOK, RetireOK, Dead
      <4> QED BY <4>1, <4>3, <1>1, HoldsMoves
    <3> QED BY <3>1, <3>2
  <2>3. ASSUME w.pc \in {"save", "ack"}, w.goal = "retire", Named(w.todo, R), Dead(w.todo, C)
        PROVE  ~Holds(w.run, C)
    <3>1. w.todo \in Writes /\ w.todo.id[1] = w.run /\ w.todo.effect = "expire" /\ Sending(w)
      BY <1>1, <1>4, <2>3 DEF Sending, Answering, Shape
    <3>2. w.todo.obj = "lease" /\ R[w.run].op.mutation.effect = "expire"
      BY <3>1, <2>3 DEF CallOK, SentOK, Sound, Fenced
    <3>3. B["lease"].gen = C["lease"].gen => ~Holds(w.run, B)
      BY <3>2, <2>3 DEF CallOK, RetireOK, Dead
    <3> QED BY <3>2, <3>3, <1>1, HoldsMoves
  <2> QED BY <2>1, <2>2, <2>3 DEF RetireOK
<1>9. ASSUME Sending(w) PROVE ReceiptOK(w, C, R)
  <2> DEFINE new == C["auth"].receipt
  <2>1. CASE new = B["auth"].receipt
    BY <2>1, <1>9 DEF CallOK, ReceiptOK
  <2>2. CASE new # B["auth"].receipt
    <3>1. SUFFICES ASSUME Named(w.todo, R), new.id[1] = w.run, w.pc \in {"ack", "fenceAck"}
                   PROVE  FALSE
      BY DEF ReceiptOK
    <3>2. R[w.run].op.mutation.obj = "auth" /\ R[w.run].op.mutation.gen = B["auth"].gen
      BY <2>2, <3>1 DEF AuthMoves
    <3>3. w.todo.obj = "auth" /\ w.todo.gen = B["auth"].gen
      BY <3>1, <3>2, <1>4, <1>9 DEF CallOK, SentOK, Fenced
    <3>4. B["auth"].gen \in Nat
      BY GensGrow
    <3> QED BY <3>1, <3>3, <3>4, <1>7 DEF Dead
  <2> QED BY <2>1, <2>2
<1> QED BY <1>1, <1>2, <1>3, <1>5, <1>6, <1>7, <1>8, <1>9 DEF CallOK

LEMMA RunMoves ==
  ASSUME NEW B \in Buckets, NEW C \in Buckets, NEW R \in AllJournals, LeaseMoves(B, C, R),
         AuthMoves(B, C, R), NEW N \in Nat, NEW c \in Runs, RunOK(c, B, R, N)
  PROVE  RunOK(c, C, R, N)
<1>1. R[c].op.mutation \in Writes \cup {NoWrite} /\ R[c].heldGen \in Nat
  BY DEF AllJournals, Journals, Operations
<1>2. R[c].op.mutation # NoWrite => Sound(R[c].op.mutation, C)
  BY <1>1, SoundMoves DEF RunOK
<1>3. R[c].heldGen <= C["auth"].gen
  <2>1. B["auth"].gen \in Nat /\ C["auth"].gen \in {B["auth"].gen, B["auth"].gen + 1}
    BY GensGrow
  <2> QED BY <1>1, <2>1 DEF RunOK
<1>4. R[c].op = NoOp /\ ~R[c].live => ~Holds(c, C)
  BY HoldsMoves, NoOpFields DEF RunOK
<1> QED BY <1>2, <1>3, <1>4 DEF RunOK

LEMMA BucketMoves ==
  ASSUME NEW B \in Buckets, NEW C \in Buckets, NEW R \in AllJournals, LeaseMoves(B, C, R),
         AuthMoves(B, C, R), NEW N \in Nat, \A c \in Runs : RunOK(c, B, R, N),
         BucketOK(B, R, N)
  PROVE  BucketOK(C, R, N)
<1> DEFINE found == C["auth"].receipt
           c == found.id[1]
           m == R[c].op.mutation
<1>1. B["lease"].gen \in Nat /\ B["auth"].gen \in Nat /\ C["auth"].gen \in {B["auth"].gen, B["auth"].gen + 1}
  BY GensGrow
<1>2. C["lease"].gen = 0 => ~C["lease"].alive
  BY <1>1 DEF LeaseMoves, BucketOK
<1>3. C["lease"].by.effect = "take" => C["lease"].owner = C["lease"].by.id[1]
  BY DEF LeaseMoves, BucketOK
<1>4. ASSUME found # NoReceipt
      PROVE  /\ found.gen < C["auth"].gen
             /\ Numbered(found, R, N)
             /\ Named(found, R) => m.effect = "rotate" /\ m.gen = found.gen
             /\ ~Named(found, R) => R[c].receipt = found
  <2>1. C["auth"] \in Objects
    BY DEF Buckets
  <2>2. found.id \in Idents /\ found.gen \in Nat /\ c \in Runs
    BY <1>4, <2>1, NoReceiptIsNone, IdentParts DEF Objects
  <2>3. CASE found = B["auth"].receipt
    <3>1. /\ found.gen < B["auth"].gen /\ Numbered(found, R, N)
          /\ Named(found, R) => m.effect = "rotate" /\ m.gen = found.gen
          /\ ~Named(found, R) => R[c].receipt = found
      BY <1>4, <2>3 DEF BucketOK
    <3> HIDE DEF m, c, found
    <3>2. found.gen < C["auth"].gen
      BY <1>1, <2>2, <3>1
    <3> QED BY <3>1, <3>2
  <2>4. CASE found # B["auth"].receipt
    <3>1. /\ C["auth"].gen = B["auth"].gen + 1 /\ Named(found, R) /\ m \in Writes
          /\ m.effect = "rotate" /\ m.gen = B["auth"].gen /\ found.gen = B["auth"].gen
      BY <2>4 DEF AuthMoves
    <3>2. m.id = <<c, R[c].op.n, R[c].op.seq>> /\ m # NoWrite
      BY <3>1, <2>2, NoWriteIsNone DEF RunOK
    <3>3. R[c].op.n \in Nat /\ R[c].op.seq \in Nat /\ R[c].op.n # 0 /\ R[c].op.n <= N
      <4>1. R[c].op.n \in Nat /\ R[c].op.seq \in Nat
        BY <2>2 DEF AllJournals, Journals, Operations
      <4>2. R[c].op.n <= N /\ (R[c].op.n = 0 => R[c].op = NoOp)
        BY <2>2 DEF RunOK
      <4>3. R[c].op # NoOp
        BY <3>2, NoOpFields
      <4> QED BY <4>1, <4>2, <4>3
    <3>4. found.id[2] = R[c].op.n /\ found.id[3] = R[c].op.seq
      <4>1. found.id = <<c, R[c].op.n, R[c].op.seq>>
        BY <3>1, <3>2 DEF Named
      <4> HIDE DEF c, found
      <4> QED BY <4>1
    <3>5. Numbered(found, R, N)
      <4> HIDE DEF found, m
      <4>1. found.id[2] \in 1..N /\ found.id[3] <= R[c].op.seq
        <5> HIDE DEF c
        <5> QED BY <3>3, <3>4
      <4> QED BY <4>1 DEF Numbered
    <3> HIDE DEF m, c, found
    <3>6. found.gen < C["auth"].gen
      BY <1>1, <3>1
    <3> QED BY <3>1, <3>5, <3>6
  <2> QED BY <2>3, <2>4
<1> HIDE DEF m, c, found
<1> QED BY <1>2, <1>3, <1>4 DEF BucketOK, m, c, found

-----------------------------------------------------------------------------
(* How the journals move, and what that preserves *)

(* An operation ends or begins without a pending mutation; it prepares the *)
(* mutation of its next sequence when it has none, and clears one whose    *)
(* generation has passed.                                                  *)
OpMoves(c, op, new, B, N) ==
  /\ new.n # op.n => new.n \in {0, N + 1} /\ op.mutation = NoWrite /\ new.mutation = NoWrite
  /\ new.n = op.n /\ new.seq = op.seq =>
       new.mutation = op.mutation \/ (new.mutation = NoWrite /\ Dead(op.mutation, B))
  /\ new.n = op.n /\ new.seq # op.seq =>
       /\ new.seq = op.seq + 1 /\ new.seq <= MaxSequence /\ op.mutation = NoWrite
       /\ new.mutation.id = <<c, op.n, new.seq>>

JournalMoves(R, S, B, N) == \A c \in Runs : OpMoves(c, R[c].op, S[c].op, B, N)

LEMMA NumberedJournal ==
  ASSUME NEW B, NEW R \in AllJournals, NEW S \in AllJournals, NEW N \in Nat, NEW M \in {N, N + 1},
         JournalMoves(R, S, B, N), NEW q, q.id \in Idents, Numbered(q, R, N)
  PROVE  LET c == q.id[1] IN
         /\ Numbered(q, S, M)
         /\ Named(q, S) => Named(q, R) /\ S[c].op.mutation = R[c].op.mutation
         /\ Named(q, R) /\ ~Named(q, S) => Dead(R[c].op.mutation, B)
<1> DEFINE c   == q.id[1]
           op  == R[c].op
           new == S[c].op
<1>1. c \in Runs /\ q.id[2] \in Nat /\ q.id[3] \in Nat /\ q.id = <<c, q.id[2], q.id[3]>>
  BY IdentParts
<1>2. op \in Operations /\ new \in Operations
  BY <1>1 DEF AllJournals, Journals
<1> HIDE DEF c, op, new
<1>3. op.n \in Nat /\ new.n \in Nat /\ op.seq \in Nat /\ new.seq \in Nat
  BY <1>2 DEF Operations
<1>4. q.id[2] \in 1..N /\ (q.id[2] = op.n => q.id[3] <= op.seq)
  BY DEF Numbered, op, c
<1>5. Named(q, R) <=> op.mutation.id = q.id
  BY DEF Named, op, c
<1>6. Named(q, S) <=> new.mutation.id = q.id
  BY DEF Named, new, c
<1>7. q.id # NoWrite.id
  BY EmptyIdent DEF NoWrite
<1>8. CASE new.n # op.n
  <2>1. new.n \in {0, N + 1} /\ op.mutation = NoWrite /\ new.mutation = NoWrite
    BY <1>1, <1>8 DEF JournalMoves, OpMoves, op, new
  <2>2. Numbered(q, S, M)
    <3>1. q.id[2] # new.n /\ q.id[2] \in 1..M
      BY <1>1, <1>4, <2>1
    <3> QED BY <3>1 DEF Numbered, new, c
  <2> QED BY <2>1, <2>2, <1>5, <1>6, <1>7 DEF op, new, c
<1>9. CASE new.n = op.n /\ new.seq = op.seq
  <2>1. new.mutation = op.mutation \/ (new.mutation = NoWrite /\ Dead(op.mutation, B))
    BY <1>1, <1>9 DEF JournalMoves, OpMoves, op, new
  <2>2. Numbered(q, S, M)
    <3>1. q.id[2] \in 1..M /\ (q.id[2] = new.n => q.id[3] <= new.seq)
      BY <1>1, <1>3, <1>4, <1>9
    <3> QED BY <3>1 DEF Numbered, new, c
  <2> QED BY <2>1, <2>2, <1>5, <1>6, <1>7 DEF op, new, c
<1>10. CASE new.n = op.n /\ new.seq # op.seq
  <2>1. new.seq = op.seq + 1 /\ op.mutation = NoWrite /\ new.mutation.id = <<c, op.n, new.seq>>
    BY <1>1, <1>10 DEF JournalMoves, OpMoves, op, new
  <2>2. Numbered(q, S, M)
    <3>1. q.id[2] \in 1..M /\ (q.id[2] = new.n => q.id[3] <= new.seq)
      BY <1>1, <1>3, <1>4, <1>10, <2>1
    <3> QED BY <3>1 DEF Numbered, new, c
  <2>3. new.mutation.id # q.id
    <3>1. ASSUME new.mutation.id = q.id PROVE FALSE
      <4>1. q.id[2] = op.n /\ q.id[3] = new.seq
        BY <2>1, <3>1
      <4> QED BY <4>1, <1>3, <1>4, <2>1
    <3> QED BY <3>1
  <2> QED BY <2>1, <2>2, <2>3, <1>5, <1>6, <1>7 DEF op, new, c
<1> QED BY <1>8, <1>9, <1>10 DEF c

LEMMA SentJournal ==
  ASSUME NEW B \in Buckets, NEW R \in AllJournals, NEW S \in AllJournals, NEW N \in Nat,
         NEW M \in {N, N + 1}, JournalMoves(R, S, B, N), NEW q \in Writes, SentOK(q, B, R, N)
  PROVE  LET c == q.id[1] IN
         /\ SentOK(q, B, S, M)
         /\ Named(q, S) => Named(q, R) /\ S[c].op.mutation = R[c].op.mutation
<1>1. q.id \in Idents
  BY DEF Writes
<1> DEFINE c == q.id[1]
<1>2. /\ Numbered(q, S, M)
      /\ Named(q, S) => Named(q, R) /\ S[c].op.mutation = R[c].op.mutation
      /\ Named(q, R) /\ ~Named(q, S) => Dead(R[c].op.mutation, B)
  BY <1>1, NumberedJournal DEF SentOK
<1>3. ~Named(q, S) => Dead(q, B)
  BY <1>2 DEF SentOK, Fenced, Dead
<1>4. Fenced(q, B, S)
  BY <1>2, <1>3 DEF SentOK, Fenced
<1> QED BY <1>2, <1>4 DEF SentOK

LEMMA CurrentJournal ==
  ASSUME NEW B, NEW R \in AllJournals, NEW S \in AllJournals, NEW N \in Nat,
         JournalMoves(R, S, B, N), NEW w \in Calls, w.run \in Runs, w.n # 0, w.n <= N,
         Current(w, S)
  PROVE  LET op  == R[w.run].op
             new == S[w.run].op
         IN  /\ Current(w, R) /\ op.seq \in Nat /\ new.seq \in {op.seq, op.seq + 1}
             /\ new.seq # op.seq => new.seq <= MaxSequence
             /\ new.seq = op.seq /\ op.mutation = NoWrite => new.mutation = NoWrite
<1> DEFINE op  == R[w.run].op
           new == S[w.run].op
<1>1. op \in Operations /\ new \in Operations /\ w.n \in Nat
  BY DEF AllJournals, Journals, Calls
<1>2. new.n = w.n
  BY DEF Current
<1>3. new.n # op.n => new.n \in {0, N + 1}
  BY DEF JournalMoves, OpMoves
<1>4. new.n = op.n
  BY <1>1, <1>2, <1>3
<1>5. /\ new.seq = op.seq => new.mutation = op.mutation \/ new.mutation = NoWrite
      /\ new.seq # op.seq => new.seq = op.seq + 1 /\ new.seq <= MaxSequence
  BY <1>4 DEF JournalMoves, OpMoves
<1>6. op.seq \in Nat
  BY <1>1 DEF Operations
<1> HIDE DEF op, new
<1> QED BY <1>2, <1>4, <1>5, <1>6 DEF Current, op, new

LEMMA CoreJournal ==
  ASSUME NEW B \in Buckets, NEW R \in AllJournals, NEW S \in AllJournals, NEW N \in Nat,
         NEW M \in {N, N + 1}, JournalMoves(R, S, B, N), NEW w \in Calls, Core(w, B, R, N)
  PROVE  Core(w, B, S, M)
<1>1. w.run \in Runs /\ w.n \in Nat /\ w.n # 0 /\ w.n <= N /\ w.n <= M /\ w.proof \in Nat
  BY DEF Core, Calls
<1>2. ASSUME Current(w, S)
      PROVE  /\ w.proof <= S[w.run].op.seq \/ w.proof = NoProof
             /\ w.proof = S[w.run].op.seq => S[w.run].op.mutation = NoWrite /\ ~Holds(w.run, B)
  <2> DEFINE s == R[w.run].op.seq
             t == S[w.run].op.seq
  <2>1. /\ Current(w, R) /\ s \in Nat /\ t \in {s, s + 1}
        /\ t # s => t <= MaxSequence
        /\ t = s /\ R[w.run].op.mutation = NoWrite => S[w.run].op.mutation = NoWrite
    BY <1>1, <1>2, CurrentJournal
  <2>2. /\ w.proof <= s \/ w.proof = NoProof
        /\ w.proof = s => R[w.run].op.mutation = NoWrite /\ ~Holds(w.run, B)
    BY <2>1 DEF Core, ProofOK
  <2> HIDE DEF s, t
  <2>3. w.proof <= t \/ w.proof = NoProof
    BY <2>1, <2>2, <1>1
  <2>4. w.proof = t => t = s
    BY <2>1, <2>2, <1>1, CredentialsAssumption DEF NoProof
  <2> QED BY <2>1, <2>2, <2>3, <2>4 DEF s, t
<1> QED BY <1>1, <1>2 DEF Core, ProofOK

LEMMA BaseJournal ==
  ASSUME NEW B, NEW R \in AllJournals, NEW S \in AllJournals, NEW N \in Nat,
         JournalMoves(R, S, B, N), NEW w \in Calls, w.run \in Runs, w.n # 0, w.n <= N,
         NEW s \in Nat, BaseOK(s, w, R), Current(w, S)
  PROVE  /\ Current(w, R) /\ s <= S[w.run].op.seq
         /\ s = S[w.run].op.seq => S[w.run].op.mutation = NoWrite /\ s = R[w.run].op.seq
<1> DEFINE r == R[w.run].op.seq
           t == S[w.run].op.seq
<1>1. /\ Current(w, R) /\ r \in Nat /\ t \in {r, r + 1}
      /\ t = r /\ R[w.run].op.mutation = NoWrite => S[w.run].op.mutation = NoWrite
  BY CurrentJournal
<1>2. s <= r /\ (s = r => R[w.run].op.mutation = NoWrite)
  BY <1>1 DEF BaseOK
<1> HIDE DEF r, t
<1>3. s <= t /\ (s = t => t = r)
  BY <1>1, <1>2
<1> QED BY <1>1, <1>2, <1>3 DEF r, t

LEMMA CallJournal ==
  ASSUME NEW B \in Buckets, NEW R \in AllJournals, NEW S \in AllJournals, NEW N \in Nat,
         NEW M \in {N, N + 1}, JournalMoves(R, S, B, N), NEW w \in Calls, CallOK(w, B, R, N)
  PROVE  CallOK(w, B, S, M)
<1> SUFFICES ASSUME w.pc # "idle" PROVE CallOK(w, B, S, M)
  BY DEF CallOK
<1>1. Core(w, B, R, N) /\ Shape(w) /\ w.run \in Runs /\ w.n # 0 /\ w.n <= N
  BY DEF CallOK, Core
<1>2. Core(w, B, S, M)
  BY <1>1, CoreJournal
<1>3. Preparing(w) \/ Sending(w) => w.todo \in Writes /\ w.todo.id[1] = w.run /\ w.todo.id \in Idents
  BY <1>1 DEF Shape, Writes
<1>4. Sending(w) =>
        /\ SentOK(w.todo, B, S, M)
        /\ Named(w.todo, S) =>
             Named(w.todo, R) /\ S[w.todo.id[1]].op.mutation = R[w.todo.id[1]].op.mutation
  BY <1>3, SentJournal DEF CallOK
<1>5. RetireOK(w, B, S)
  <2>1. ASSUME w.pc = "resolveLease" PROVE BaseOK(w.base, w, S)
    <3>1. w.base \in Nat /\ BaseOK(w.base, w, R)
      BY <2>1 DEF CallOK, RetireOK, Calls
    <3> QED BY <3>1, <1>1, BaseJournal DEF BaseOK
  <2>2. ASSUME w.pc = "prepare", w.goal = "retire"
        PROVE  /\ w.todo.id[3] # 0 /\ BaseOK(w.todo.id[3] - 1, w, S)
               /\ Current(w, S) /\ S[w.run].op.seq = w.todo.id[3] - 1 /\ Dead(w.todo, B)
                    => ~Holds(w.run, B)
    <3> DEFINE s == w.todo.id[3] - 1
    <3>1. w.todo.id[3] # 0 /\ BaseOK(s, w, R)
      BY <2>2 DEF CallOK, RetireOK
    <3>2. s \in Nat
      BY <3>1, <2>2, <1>3, IdentParts DEF Preparing
    <3> HIDE DEF s
    <3>3. Current(w, S) =>
            /\ Current(w, R) /\ s <= S[w.run].op.seq
            /\ s = S[w.run].op.seq => S[w.run].op.mutation = NoWrite /\ s = R[w.run].op.seq
      BY <3>1, <3>2, <1>1, BaseJournal
    <3>4. BaseOK(s, w, S)
      BY <3>3 DEF BaseOK
    <3>5. Current(w, R) /\ R[w.run].op.seq = s /\ Dead(w.todo, B) => ~Holds(w.run, B)
      BY <2>2 DEF CallOK, RetireOK, s
    <3> QED BY <3>1, <3>3, <3>4, <3>5 DEF s
  <2>3. ASSUME w.pc \in {"save", "ack"}, w.goal = "retire", Named(w.todo, S), Dead(w.todo, B)
        PROVE  ~Holds(w.run, B)
    <3>1. Named(w.todo, R)
      BY <2>3, <1>4 DEF Sending, Answering
    <3> QED BY <2>3, <3>1 DEF CallOK, RetireOK
  <2> QED BY <2>1, <2>2, <2>3 DEF RetireOK
<1>6. Sending(w) => ReceiptOK(w, B, S)
  BY <1>4 DEF CallOK, ReceiptOK
<1>7. GoalOK(w, S)
  BY <1>4 DEF CallOK, GoalOK, Sending, Fencing
<1> QED BY <1>1, <1>2, <1>4, <1>5, <1>6, <1>7 DEF CallOK

LEMMA BucketJournal ==
  ASSUME NEW B \in Buckets, NEW R \in AllJournals, NEW S \in AllJournals, NEW N \in Nat,
         NEW M \in {N, N + 1}, JournalMoves(R, S, B, N), BucketOK(B, R, N),
         LET found == B["auth"].receipt IN
           found # NoReceipt /\ ~Named(found, S) => S[found.id[1]].receipt = found
  PROVE  BucketOK(B, S, M)
<1> DEFINE found == B["auth"].receipt
           c == found.id[1]
<1>1. ASSUME found # NoReceipt
      PROVE  /\ found.gen < B["auth"].gen
             /\ Numbered(found, S, M)
             /\ Named(found, S) => S[c].op.mutation.effect = "rotate" /\ S[c].op.mutation.gen = found.gen
  <2>1. B["auth"] \in Objects
    BY DEF Buckets
  <2>2. found.id \in Idents
    BY <1>1, <2>1, NoReceiptIsNone DEF Objects
  <2>3. /\ found.gen < B["auth"].gen /\ Numbered(found, R, N)
        /\ Named(found, R) => R[c].op.mutation.effect = "rotate" /\ R[c].op.mutation.gen = found.gen
    BY <1>1 DEF BucketOK
  <2>4. Numbered(found, S, M) /\ (Named(found, S) => Named(found, R) /\ S[c].op.mutation = R[c].op.mutation)
    <3> HIDE DEF found
    <3> QED BY <2>2, <2>3, NumberedJournal DEF c
  <2> QED BY <2>3, <2>4
<1> HIDE DEF found, c
<1> QED BY <1>1 DEF BucketOK, found, c

-----------------------------------------------------------------------------
(* The next record of a call *)

LEMMA NoCallFields ==
  /\ NoCall \in Calls /\ NoCall.pc = "idle" /\ NoCall.leaseGen = 0 /\ NoCall.snapGen = 0
  /\ NoCall.proof = NoProof /\ NoCall.receipt = NoReceipt
BY CredentialsAssumption DEF NoCall, Calls, Places, Goals, Receipts, NoReceipt, NoProof

LEMMA WrittenFields ==
  ASSUME NEW w \in Calls
  PROVE  LET v == written(w) IN
         /\ v \in Calls /\ v.pc = w.pc /\ v.run = w.run /\ v.n = w.n
         /\ v.leaseGen = w.leaseGen /\ v.proof = w.proof /\ v.snapGen = w.snapGen
         /\ v.seq = w.seq /\ v.todo = NoWrite /\ v.tries = w.tries
BY DEF written, Calls, Goals

LEMMA SettledFields ==
  ASSUME NEW w \in Calls
  PROVE  LET v == settledCall(w) IN
         /\ v \in Calls /\ v.pc = w.pc /\ v.run = w.run /\ v.n = w.n
         /\ v.leaseGen = w.leaseGen /\ v.proof = NoProof /\ v.snapGen = 0 /\ v.seq = w.seq
         /\ v.ok
<1> DEFINE u == written(w)
<1>1. u \in Calls /\ u.pc = w.pc /\ u.run = w.run /\ u.n = w.n /\ u.leaseGen = w.leaseGen /\ u.seq = w.seq
  BY WrittenFields
<1>2. u.ok
  BY DEF written, Calls
<1>3. NoProof \in Nat
  BY CredentialsAssumption DEF NoProof
<1> HIDE DEF u
<1> DEFINE v == [u EXCEPT !.proof = NoProof, !.tries = 0, !.snapGen = 0, !.rotated = FALSE]
<1>4. v \in Calls
  BY <1>1, <1>3 DEF Calls
<1>5. /\ v.pc = u.pc /\ v.run = u.run /\ v.n = u.n /\ v.leaseGen = u.leaseGen /\ v.seq = u.seq
      /\ v.proof = NoProof /\ v.snapGen = 0
  BY <1>1 DEF Calls
<1>6. v.ok
  BY <1>1, <1>2 DEF Calls
<1> HIDE DEF v
<1>7. settledCall(w) = v
  BY DEF settledCall, u, v
<1> QED BY <1>1, <1>4, <1>5, <1>6, <1>7

(* The state as it stands before a step.                                   *)
Stable(B, R, N) ==
  /\ B \in Buckets /\ R \in AllJournals /\ N \in Nat
  /\ BucketOK(B, R, N)
  /\ \A c \in Runs : RunOK(c, B, R, N)

LEMMA CoreKept ==
  ASSUME NEW B, NEW R, NEW N, Stable(B, R, N), NEW w, Core(w, B, R, N), NEW v,
         v.run = w.run, v.n = w.n, v.leaseGen \in {w.leaseGen, 0},
         v.snapGen \in {w.snapGen, 0}, v.proof \in {w.proof, NoProof}
  PROVE  Core(v, B, R, N)
<1>1. w.run \in Runs
  BY DEF Core
<1>2. B["lease"].gen \in Nat /\ B["auth"].gen \in Nat
  BY DEF Stable, Buckets, Objects
<1>3. OwnGen(v.leaseGen, v.run, B)
  BY <1>2 DEF Core, OwnGen
<1>4. v.snapGen <= B["auth"].gen
  BY <1>2 DEF Core
<1>5. R[w.run].op.seq \in Nat /\ R[w.run].op.seq <= MaxSequence
  BY <1>1 DEF Stable, RunOK, AllJournals, Journals, Operations
<1>6. NoProof # R[w.run].op.seq
  BY <1>5, CredentialsAssumption DEF NoProof
<1>7. ProofOK(v, B, R)
  BY <1>6 DEF Core, ProofOK, Current
<1> QED BY <1>1, <1>3, <1>4, <1>7 DEF Core

QuietPlaces ==
  {"acquire", "renew", "persist", "readAuth", "finish", "resolve", "check", "releaseRead"}

LEMMA QuietCall ==
  ASSUME NEW B, NEW R, NEW N, NEW v, Core(v, B, R, N), v.pc \in QuietPlaces
  PROVE  CallOK(v, B, R, N)
BY DEF CallOK, Shape, RetireOK, GoalOK, Preparing, Sending, Answering, Fencing, Listed, QuietPlaces

LEMMA PreparingCall ==
  ASSUME NEW B, NEW R, NEW N, NEW v, Core(v, B, R, N), v.pc = "prepare", v.ok,
         v.todo \in Writes, v.todo.id[1] = v.run, v.todo.id[2] = v.n, v.todo.effect # "keep",
         v.goal = "acquire" => v.todo.effect = "take",
         v.goal = "rotate" <=> v.todo.effect = "rotate",
         v.goal = "retire" => v.todo.effect = "expire", RetireOK(v, B, R), Sound(v.todo, B)
  PROVE  CallOK(v, B, R, N)
BY DEF CallOK, Shape, GoalOK, Preparing, Sending, Answering, Fencing, Listed

LEMMA IdleCall ==
  ASSUME NEW B, NEW R, NEW N PROVE CallOK(NoCall, B, R, N)
BY NoCallFields DEF CallOK

(* Wherever an error strikes, what the call goes on with is sound: the     *)
(* release of a lease it holds, the end of the operation, or nothing.      *)
LEMMA AbortCall ==
  ASSUME NEW B, NEW R, NEW N, Stable(B, R, N), NEW w \in Calls, Core(w, B, R, N)
  PROVE  LET v == abortedCall(w) IN
         v \in Calls /\ CallOK(v, B, R, N) /\ v.pc # "save"
<1> DEFINE s == settledCall(w)
<1>1. /\ s \in Calls /\ s.pc = w.pc /\ s.run = w.run /\ s.n = w.n /\ s.leaseGen = w.leaseGen
      /\ s.proof = NoProof /\ s.snapGen = 0 /\ s.seq = w.seq /\ s.ok
  BY SettledFields
<1> HIDE DEF s
<1>2. w.run \in Runs /\ w.n \in Nat /\ w.seq \in Nat /\ w.leaseGen \in Nat
  BY DEF Core, Calls
<1>3. CASE w.tick \/ w.phase = "last"
  BY <1>3, NoCallFields, IdleCall DEF abortedCall
<1>4. CASE ~(w.tick \/ w.phase = "last") /\ w.phase = "main" /\ w.leaseGen # 0
  <2> DEFINE q == Write("lease", w.run, w.n, w.seq + 1, w.leaseGen, "expire")
             v == [s EXCEPT !.pc = "prepare", !.phase = "unwind", !.goal = "release",
                            !.leaseGen = 0, !.todo = q]
  <2>1. abortedCall(w) = v
    BY <1>4 DEF abortedCall, releasing, s
  <2>2. /\ q \in Writes /\ q.id = <<w.run, w.n, w.seq + 1>> /\ q.obj = "lease"
        /\ q.gen = w.leaseGen /\ q.effect = "expire"
    <3>1. w.seq + 1 \in Nat
      BY <1>2
    <3>2. <<w.run, w.n, w.seq + 1>> \in Idents
      BY <1>2, <3>1, IdentOf
    <3> QED BY <1>2, <3>2 DEF Write, Writes
  <2> HIDE DEF q
  <2>3. /\ v \in Calls /\ v.pc = "prepare" /\ v.goal = "release" /\ v.leaseGen = 0 /\ v.todo = q
        /\ v.run = w.run /\ v.n = w.n /\ v.snapGen = 0 /\ v.proof = NoProof
    <3>1. "prepare" \in Places /\ "release" \in Goals
      BY DEF Places, Goals
    <3>2. v \in Calls
      BY <1>1, <2>2, <3>1 DEF Calls
    <3>3. /\ v.pc = "prepare" /\ v.goal = "release" /\ v.leaseGen = 0 /\ v.todo = q
          /\ v.run = s.run /\ v.n = s.n /\ v.snapGen = s.snapGen /\ v.proof = s.proof
      BY <1>1 DEF Calls
    <3> HIDE DEF v
    <3> QED BY <1>1, <3>2, <3>3
  <2>4. v.ok
    BY <1>1 DEF Calls
  <2> HIDE DEF v
  <2>5. Core(v, B, R, N)
    BY <2>3, CoreKept
  <2>6. Sound(q, B)
    BY <2>2, <1>4 DEF Sound, Core, OwnGen
  <2>7. q.id[1] = w.run /\ q.id[2] = w.n
    BY <2>2
  <2>8. CallOK(v, B, R, N)
    <3>1. RetireOK(v, B, R)
      BY <2>3 DEF RetireOK
    <3> QED BY <2>2, <2>3, <2>4, <2>5, <2>6, <2>7, <3>1, PreparingCall
  <2> QED BY <2>1, <2>3, <2>8
<1>5. CASE ~(w.tick \/ w.phase = "last") /\ ~(w.phase = "main" /\ w.leaseGen # 0)
  <2> DEFINE v == [s EXCEPT !.pc = "finish", !.phase = "last"]
  <2>1. abortedCall(w) = v
    BY <1>5 DEF abortedCall, s
  <2>2. /\ v \in Calls /\ v.pc = "finish" /\ v.leaseGen = w.leaseGen
        /\ v.run = w.run /\ v.n = w.n /\ v.snapGen = 0 /\ v.proof = NoProof
    <3>1. "finish" \in Places
      BY DEF Places
    <3>2. v \in Calls
      BY <1>1, <3>1 DEF Calls
    <3>3. /\ v.pc = "finish" /\ v.leaseGen = s.leaseGen /\ v.run = s.run /\ v.n = s.n
          /\ v.snapGen = s.snapGen /\ v.proof = s.proof
      BY <1>1 DEF Calls
    <3> HIDE DEF v
    <3> QED BY <1>1, <3>2, <3>3
  <2> HIDE DEF v
  <2>3. Core(v, B, R, N)
    BY <2>2, CoreKept
  <2>4. CallOK(v, B, R, N)
    BY <2>2, <2>3, QuietCall DEF QuietPlaces
  <2> QED BY <2>1, <2>2, <2>4
<1> QED BY <1>3, <1>4, <1>5

LEMMA CoreLease ==
  ASSUME NEW B, NEW R, NEW N, NEW w, Core(w, B, R, N), NEW v, v.run = w.run, v.n = w.n,
         OwnGen(v.leaseGen, w.run, B), v.snapGen = w.snapGen, v.proof = w.proof
  PROVE  Core(v, B, R, N)
BY DEF Core, ProofOK, Current

LEMMA CoreFresh ==
  ASSUME NEW B, NEW R, NEW N, Stable(B, R, N), NEW v, v.run \in Runs, v.n \in 1..N,
         v.leaseGen = 0, v.snapGen = 0, v.proof = NoProof
  PROVE  Core(v, B, R, N)
<1>1. B["lease"].gen \in Nat /\ B["auth"].gen \in Nat
  BY DEF Stable, Buckets, Objects
<1>2. R[v.run].op.seq \in Nat /\ R[v.run].op.seq <= MaxSequence
  BY DEF Stable, RunOK, AllJournals, Journals, Operations
<1>3. NoProof # R[v.run].op.seq
  BY <1>2, CredentialsAssumption DEF NoProof
<1>4. ProofOK(v, B, R)
  BY <1>3 DEF ProofOK
<1>5. v.n # 0 /\ v.n <= N
  BY DEF Stable
<1> QED BY <1>1, <1>4, <1>5 DEF Core, OwnGen

(* The records that mutate and retire leave.                               *)
mutating(w, o, g, e, goal) ==
  [[w EXCEPT !.seq = @ + 1, !.goal = goal, !.ok = TRUE,
             !.todo = Write(o, w.run, w.n, w.seq + 1, g, e)] EXCEPT !.pc = "prepare"]

retiring(w, g, goal) ==
  [[w EXCEPT !.goal = goal, !.ok = TRUE,
             !.todo = Write("lease", w.run, w.n, w.base + 1, g, "expire")] EXCEPT !.pc = "prepare"]

LEMMA MutateCall ==
  ASSUME NEW B, NEW R, NEW N, Stable(B, R, N), NEW w \in Calls, Core(w, B, R, N),
         NEW g \in Nat, NEW o, NEW e, NEW goal,
         \/ o = "lease" /\ e = "take" /\ goal \in {"acquire", "renew"}
         \/ o = "auth" /\ e = "rotate" /\ goal = "rotate",
         g <= B[o].gen,
         o = "lease" /\ B["lease"].alive => B["lease"].owner = w.run
  PROVE  LET v == mutating(w, o, g, e, goal) IN
         v \in Calls /\ CallOK(v, B, R, N) /\ v.pc # "save"
<1> DEFINE q == Write(o, w.run, w.n, w.seq + 1, g, e)
           x == [w EXCEPT !.seq = @ + 1, !.goal = goal, !.ok = TRUE, !.todo = q]
           v == [x EXCEPT !.pc = "prepare"]
<1>1. w.run \in Runs /\ w.n \in Nat /\ w.seq + 1 \in Nat
  BY DEF Core, Calls
<1>2. <<w.run, w.n, w.seq + 1>> \in Idents
  BY <1>1, IdentOf
<1>3. /\ q \in Writes /\ q.id = <<w.run, w.n, w.seq + 1>> /\ q.obj = o /\ q.gen = g
      /\ q.effect = e
  BY <1>1, <1>2 DEF Write, Writes
<1> HIDE DEF q
<1>4. goal \in Goals
  BY DEF Goals
<1>5. /\ x \in Calls /\ x.todo = q /\ x.goal = goal /\ x.run = w.run /\ x.n = w.n
      /\ x.leaseGen = w.leaseGen /\ x.snapGen = w.snapGen /\ x.proof = w.proof
  BY <1>1, <1>3, <1>4 DEF Calls
<1>6. x.ok
  BY DEF Calls
<1> HIDE DEF x
<1>7. v \in Calls /\ v.pc = "prepare" /\ v.todo = q /\ v.goal = goal /\ v.run = w.run
      /\ v.n = w.n /\ v.leaseGen = w.leaseGen /\ v.snapGen = w.snapGen /\ v.proof = w.proof
      /\ v.ok
  <2>1. v.ok
    BY <1>5, <1>6 DEF Calls
  <2> QED BY <1>5, <2>1 DEF Calls, Places
<1> HIDE DEF v
<1>8. Core(v, B, R, N)
  BY <1>7, CoreKept
<1>9. Sound(q, B)
  BY <1>3 DEF Sound
<1>10. RetireOK(v, B, R)
  BY <1>7 DEF RetireOK
<1>11. q.id[1] = w.run /\ q.id[2] = w.n
  BY <1>3
<1>12. CallOK(v, B, R, N)
  BY <1>3, <1>7, <1>8, <1>9, <1>10, <1>11, PreparingCall
<1> QED BY <1>7, <1>12 DEF v, x, q, mutating

LEMMA RetireCall ==
  ASSUME NEW B, NEW R, NEW N, Stable(B, R, N), NEW w \in Calls, Core(w, B, R, N),
         NEW goal \in {"retire", "recoverRelease"}, B["lease"].owner = w.run,
         goal = "retire" => BaseOK(w.base, w, R)
  PROVE  LET v == retiring(w, B["lease"].gen, goal) IN
         v \in Calls /\ CallOK(v, B, R, N) /\ v.pc # "save"
<1> DEFINE q == Write("lease", w.run, w.n, w.base + 1, B["lease"].gen, "expire")
           x == [w EXCEPT !.goal = goal, !.ok = TRUE, !.todo = q]
           v == [x EXCEPT !.pc = "prepare"]
<1>1. w.run \in Runs /\ w.n \in Nat /\ w.base \in Nat /\ w.base + 1 \in Nat /\ B["lease"].gen \in Nat
  BY DEF Core, Calls, Stable, Buckets, Objects
<1>2. <<w.run, w.n, w.base + 1>> \in Idents
  BY <1>1, IdentOf
<1>3. /\ q \in Writes /\ q.id = <<w.run, w.n, w.base + 1>> /\ q.obj = "lease"
      /\ q.gen = B["lease"].gen /\ q.effect = "expire"
  BY <1>1, <1>2 DEF Write, Writes
<1> HIDE DEF q
<1>4. goal \in Goals
  BY DEF Goals
<1>5. /\ x \in Calls /\ x.todo = q /\ x.goal = goal /\ x.run = w.run /\ x.n = w.n
      /\ x.leaseGen = w.leaseGen /\ x.snapGen = w.snapGen /\ x.proof = w.proof
  BY <1>3, <1>4 DEF Calls
<1>6. x.ok
  BY DEF Calls
<1> HIDE DEF x
<1>7. v \in Calls /\ v.pc = "prepare" /\ v.todo = q /\ v.goal = goal /\ v.run = w.run
      /\ v.n = w.n /\ v.leaseGen = w.leaseGen /\ v.snapGen = w.snapGen /\ v.proof = w.proof
      /\ v.ok
  <2>1. v.ok
    BY <1>5, <1>6 DEF Calls
  <2> QED BY <1>5, <2>1 DEF Calls, Places
<1> HIDE DEF v
<1>8. Core(v, B, R, N)
  BY <1>7, CoreKept
<1>9. Sound(q, B)
  BY <1>1, <1>3 DEF Sound
<1>10. q.id[1] = w.run /\ q.id[2] = w.n /\ q.id[3] = w.base + 1
  BY <1>3
<1>11. RetireOK(v, B, R)
  <2>1. ~Dead(q, B)
    BY <1>1, <1>3 DEF Dead
  <2>2. v.todo.id[3] # 0 /\ v.todo.id[3] - 1 = w.base
    BY <1>1, <1>7, <1>10
  <2>3. goal = "retire" => BaseOK(v.todo.id[3] - 1, v, R)
    BY <2>2, <1>7 DEF BaseOK, Current
  <2> QED BY <2>1, <2>2, <2>3, <1>7 DEF RetireOK
<1>12. CallOK(v, B, R, N)
  BY <1>3, <1>7, <1>8, <1>9, <1>10, <1>11, PreparingCall
<1> QED BY <1>7, <1>12 DEF v, x, q, retiring

-----------------------------------------------------------------------------
(* Steps of a handler that leave bucket and journals alone *)

LEMMA InvParts ==
  ASSUME CredentialsInv
  PROVE  /\ Stable(objects, runs, ops)
         /\ \A h \in Handlers : calls[h] \in Calls /\ CallOK(calls[h], objects, runs, ops)
         /\ net \subseteq Writes /\ faults \in Nat /\ SendsOnce
         /\ \A q \in net : SentOK(q, objects, runs, ops)
BY DEF CredentialsInv, CredentialsTypeOK, Stable

LEMMA CallStep ==
  ASSUME CredentialsInv, NEW h \in Handlers, NEW v \in Calls,
         calls' = [calls EXCEPT ![h] = v], CallOK(v, objects, runs, ops), v.pc # "save",
         UNCHANGED <<objects, runs, ops, net>>, faults' \in Nat
  PROVE  CredentialsInv'
<1>1. calls \in [Handlers -> Calls]
  BY DEF CredentialsInv, CredentialsTypeOK
<1>2. \A g \in Handlers : calls'[g] = IF g = h THEN v ELSE calls[g]
  BY <1>1
<1>3. CredentialsTypeOK'
  BY <1>1 DEF CredentialsInv, CredentialsTypeOK
<1>4. \A g \in Handlers : CallOK(calls'[g], objects', runs', ops')
  BY <1>2 DEF CredentialsInv
<1>5. SendsOnce'
  <2>1. \A g \in Handlers : Rotating(g)' => Rotating(g) /\ calls'[g] = calls[g]
    BY <1>2 DEF Rotating
  <2>2. auth' = auth
    BY DEF auth
  <2> QED BY <2>1, <2>2 DEF CredentialsInv, SendsOnce
<1> QED BY <1>3, <1>4, <1>5 DEF CredentialsInv

LEMMA ActiveCall ==
  ASSUME CredentialsInv, NEW h \in Handlers, calls[h].pc # "idle"
  PROVE  /\ calls[h] \in Calls /\ Stable(objects, runs, ops)
         /\ Core(calls[h], objects, runs, ops) /\ Shape(calls[h])
         /\ calls[h].run \in Runs /\ faults \in Nat
BY InvParts DEF CallOK, Core

LEMMA AbortStep ==
  ASSUME CredentialsInv, NEW h \in Handlers, calls[h].pc # "idle", abort(h),
         UNCHANGED <<objects, runs, ops, net>>, faults' \in Nat
  PROVE  CredentialsInv'
<1>1. calls[h] \in Calls /\ Stable(objects, runs, ops) /\ Core(calls[h], objects, runs, ops)
  BY ActiveCall
<1> DEFINE v == abortedCall(calls[h])
<1>2. v \in Calls /\ CallOK(v, objects, runs, ops) /\ v.pc # "save"
  BY <1>1, AbortCall
<1>3. calls' = [calls EXCEPT ![h] = v]
  BY DEF abort
<1> HIDE DEF v
<1> QED BY <1>2, <1>3, CallStep

(* A call goes on to a place where nothing is sent, with what it had.      *)
LEMMA QuietStep ==
  ASSUME CredentialsInv, NEW h \in Handlers, calls[h].pc # "idle", NEW p \in QuietPlaces,
         NEW x \in Calls, Core(x, objects, runs, ops), go(h, x, p),
         UNCHANGED <<objects, runs, ops, net>>, faults' \in Nat
  PROVE  CredentialsInv'
<1> DEFINE v == [x EXCEPT !.pc = p]
<1>1. /\ v \in Calls /\ v.pc = p /\ v.run = x.run /\ v.n = x.n /\ v.leaseGen = x.leaseGen
      /\ v.snapGen = x.snapGen /\ v.proof = x.proof
  BY DEF Calls, Places, QuietPlaces
<1>2. calls' = [calls EXCEPT ![h] = v]
  BY DEF go
<1> HIDE DEF v
<1>3. Stable(objects, runs, ops)
  BY InvParts
<1>4. CallOK(v, objects, runs, ops)
  BY <1>1, <1>3, CoreKept, QuietCall
<1>5. v.pc # "save"
  BY <1>1 DEF QuietPlaces
<1> QED BY <1>1, <1>2, <1>4, <1>5, CallStep

LEMMA OwnCurrent ==
  ASSUME NEW B \in Buckets, NEW c, Holds(c, B)
  PROVE  OwnGen(B["lease"].gen, c, B) /\ B["lease"].gen \in Nat
BY DEF Buckets, Objects, OwnGen, Holds

LEMMA AcquireStep ==
  ASSUME CredentialsInv, NEW h \in Handlers, Acquire(h) PROVE CredentialsInv'
<1> DEFINE w == calls[h]
<1>1. /\ w.pc = "acquire" /\ UNCHANGED <<objects, runs, ops, net>> /\ faults' = faults
  BY DEF Acquire
<1>2. /\ w \in Calls /\ Stable(objects, runs, ops) /\ Core(w, objects, runs, ops)
      /\ w.run \in Runs /\ faults' \in Nat
  BY <1>1, ActiveCall
<1>3. objects \in Buckets /\ lease.gen \in Nat
  BY <1>2 DEF Stable, Buckets, Objects, lease
<1>4. CASE ownsLive(w) /\ go(h, [w EXCEPT !.leaseGen = lease.gen], "readAuth")
  <2> DEFINE x == [w EXCEPT !.leaseGen = lease.gen]
  <2>1. OwnGen(lease.gen, w.run, objects)
    BY <1>3, <1>4, OwnCurrent DEF ownsLive, owned, Holds, lease
  <2>2. /\ x \in Calls /\ x.run = w.run /\ x.n = w.n /\ x.leaseGen = lease.gen
        /\ x.snapGen = w.snapGen /\ x.proof = w.proof
    BY <1>2, <1>3 DEF Calls
  <2>3. go(h, x, "readAuth")
    BY <1>4
  <2> HIDE DEF x
  <2>4. Core(x, objects, runs, ops)
    BY <1>2, <2>1, <2>2, CoreLease
  <2>5. "readAuth" \in QuietPlaces
    BY DEF QuietPlaces
  <2> QED BY <1>1, <1>2, <2>2, <2>3, <2>4, <2>5, QuietStep
<1>5. CASE ~owned(w) /\ lease.alive /\ abort(h)
  BY <1>1, <1>2, <1>5, AbortStep
<1>6. CASE ~lease.alive /\ mutate(h, w, "lease", lease.gen, "take", "acquire")
  <2> DEFINE v == mutating(w, "lease", lease.gen, "take", "acquire")
  <2>1. calls' = [calls EXCEPT ![h] = v]
    BY <1>6 DEF mutate, go, mutating
  <2>2. v \in Calls /\ CallOK(v, objects, runs, ops) /\ v.pc # "save"
    BY <1>2, <1>3, <1>6, MutateCall DEF lease
  <2> HIDE DEF v
  <2> QED BY <1>1, <1>2, <2>1, <2>2, CallStep
<1> QED BY <1>4, <1>5, <1>6 DEF Acquire

LEMMA RenewStep ==
  ASSUME CredentialsInv, NEW h \in Handlers, Renew(h) PROVE CredentialsInv'
<1> DEFINE w == calls[h]
<1>1. /\ w.pc = "renew" /\ UNCHANGED <<objects, runs, ops, net>> /\ faults' = faults
  BY DEF Renew
<1>2. /\ w \in Calls /\ Stable(objects, runs, ops) /\ Core(w, objects, runs, ops)
      /\ w.run \in Runs /\ faults' \in Nat
  BY <1>1, ActiveCall
<1>3. lease.gen \in Nat
  BY <1>2 DEF Stable, Buckets, Objects, lease
<1>4. CASE abort(h)
  BY <1>1, <1>2, <1>4, AbortStep
<1>5. CASE owned(w) /\ mutate(h, w, "lease", lease.gen, "take", "renew")
  <2> DEFINE v == mutating(w, "lease", lease.gen, "take", "renew")
  <2>1. calls' = [calls EXCEPT ![h] = v]
    BY <1>5 DEF mutate, go, mutating
  <2>2. v \in Calls /\ CallOK(v, objects, runs, ops) /\ v.pc # "save"
    BY <1>2, <1>3, <1>5, MutateCall DEF lease, owned
  <2> HIDE DEF v
  <2> QED BY <1>1, <1>2, <2>1, <2>2, CallStep
<1>6. CASE go(h, w, "finish")
  <2>1. "finish" \in QuietPlaces
    BY DEF QuietPlaces
  <2> QED BY <1>1, <1>2, <1>6, <2>1, QuietStep
<1> QED BY <1>4, <1>5, <1>6 DEF Renew

LEMMA PersistStep ==
  ASSUME CredentialsInv, NEW h \in Handlers, Persist(h) PROVE CredentialsInv'
<1> DEFINE w == calls[h]
           k == [w EXCEPT !.leaseGen = lease.gen]
           g == runs[w.run].heldGen
<1>1. /\ w.pc = "persist" /\ UNCHANGED <<objects, runs, ops, net>> /\ faults' = faults
  BY DEF Persist
<1>2. /\ w \in Calls /\ Stable(objects, runs, ops) /\ Core(w, objects, runs, ops)
      /\ w.run \in Runs /\ faults' \in Nat
  BY <1>1, ActiveCall
<1>3. objects \in Buckets /\ lease.gen \in Nat
  BY <1>2 DEF Stable, Buckets, Objects, lease
<1>4. /\ k \in Calls /\ k.run = w.run /\ k.n = w.n /\ k.leaseGen = lease.gen
      /\ k.snapGen = w.snapGen /\ k.proof = w.proof
  BY <1>2, <1>3 DEF Calls
<1>5. abort(h) \/
      (ownsLive(w) /\ \/ calls' = [calls EXCEPT ![h] = abortedCall(k)]
                      \/ mutate(h, k, "auth", g, "rotate", "rotate"))
  BY DEF Persist
<1> HIDE DEF k
<1>6. ASSUME ownsLive(w) PROVE Core(k, objects, runs, ops)
  <2>1. OwnGen(lease.gen, w.run, objects)
    BY <1>3, <1>6, OwnCurrent DEF ownsLive, owned, Holds, lease
  <2> QED BY <1>2, <1>4, <2>1, CoreLease
<1>7. CASE abort(h)
  BY <1>1, <1>2, <1>7, AbortStep
<1>8. CASE ownsLive(w) /\ calls' = [calls EXCEPT ![h] = abortedCall(k)]
  <2> DEFINE v == abortedCall(k)
  <2>1. v \in Calls /\ CallOK(v, objects, runs, ops) /\ v.pc # "save"
    BY <1>2, <1>4, <1>6, <1>8, AbortCall
  <2>2. calls' = [calls EXCEPT ![h] = v]
    BY <1>8
  <2> HIDE DEF v
  <2> QED BY <1>1, <1>2, <2>1, <2>2, CallStep
<1>9. CASE ownsLive(w) /\ mutate(h, k, "auth", g, "rotate", "rotate")
  <2> DEFINE v == mutating(k, "auth", g, "rotate", "rotate")
  <2>1. calls' = [calls EXCEPT ![h] = v]
    BY <1>9 DEF mutate, go, mutating
  <2>2. g \in Nat /\ g <= objects["auth"].gen
    BY <1>2 DEF Stable, RunOK, AllJournals, Journals
  <2>3. v \in Calls /\ CallOK(v, objects, runs, ops) /\ v.pc # "save"
    BY <1>2, <1>4, <1>6, <1>9, <2>2, MutateCall
  <2> HIDE DEF v
  <2> QED BY <1>1, <1>2, <2>1, <2>3, CallStep
<1> QED BY <1>5, <1>7, <1>8, <1>9

LEMMA ReadAuthStep ==
  ASSUME CredentialsInv, NEW h \in Handlers, ReadAuth(h) PROVE CredentialsInv'
<1> DEFINE w == calls[h]
           x == [w EXCEPT !.snapGen = auth.gen]
<1>1. /\ w.pc = "readAuth" /\ UNCHANGED <<objects, runs, ops, net>> /\ faults' = faults
      /\ go(h, x, "finish")
  BY DEF ReadAuth
<1>2. /\ w \in Calls /\ Stable(objects, runs, ops) /\ Core(w, objects, runs, ops)
      /\ w.run \in Runs /\ faults' \in Nat
  BY <1>1, ActiveCall
<1>3. auth.gen \in Nat
  BY <1>2 DEF Stable, Buckets, Objects, auth
<1>4. /\ x \in Calls /\ x.run = w.run /\ x.n = w.n /\ x.leaseGen = w.leaseGen
      /\ x.snapGen = auth.gen /\ x.proof = w.proof
  BY <1>2, <1>3 DEF Calls
<1> HIDE DEF x
<1>5. Core(x, objects, runs, ops)
  BY <1>2, <1>3, <1>4 DEF Core, ProofOK, Current, auth
<1>6. "finish" \in QuietPlaces
  BY DEF QuietPlaces
<1> QED BY <1>1, <1>2, <1>4, <1>5, <1>6, QuietStep

LEMMA QuietAgain ==
  ASSUME CredentialsInv, NEW h \in Handlers, calls[h].pc # "idle", NEW p \in QuietPlaces,
         go(h, calls[h], p), UNCHANGED <<objects, runs, ops, net>>, faults' = faults
  PROVE  CredentialsInv'
<1>1. calls[h] \in Calls /\ Core(calls[h], objects, runs, ops) /\ faults' \in Nat
  BY ActiveCall
<1> QED BY <1>1, QuietStep

LEMMA ConfirmStep ==
  ASSUME CredentialsInv, NEW h \in Handlers, Confirm(h) PROVE CredentialsInv'
<1> DEFINE w == calls[h]
           x == [w EXCEPT !.ok = lease.by = w.todo, !.base = lease.gen]
           v == [x EXCEPT !.pc = "ack"]
<1>1. /\ w.pc = "confirm" /\ UNCHANGED <<objects, runs, ops, net>> /\ faults' = faults
      /\ calls' = [calls EXCEPT ![h] = v]
  BY DEF Confirm, go
<1>2. /\ w \in Calls /\ Stable(objects, runs, ops) /\ Core(w, objects, runs, ops)
      /\ w.run \in Runs /\ faults' \in Nat /\ Shape(w) /\ CallOK(w, objects, runs, ops)
  BY <1>1, ActiveCall, InvParts
<1>3. lease.gen \in Nat /\ objects \in Buckets
  BY <1>2 DEF Stable, Buckets, Objects, lease
<1>4. /\ x \in Calls /\ x.base = lease.gen /\ x.todo = w.todo /\ x.goal = w.goal
      /\ x.run = w.run /\ x.n = w.n /\ x.leaseGen = w.leaseGen
      /\ x.snapGen = w.snapGen /\ x.proof = w.proof /\ x.receipt = w.receipt
  BY <1>2, <1>3 DEF Calls
<1>5. x.ok <=> lease.by = w.todo
  BY <1>2 DEF Calls
<1> HIDE DEF x
<1>6. /\ v \in Calls /\ v.pc = "ack" /\ v.base = lease.gen /\ v.todo = w.todo
      /\ v.goal = w.goal /\ v.run = w.run /\ v.n = w.n /\ v.leaseGen = w.leaseGen
      /\ v.snapGen = w.snapGen /\ v.proof = w.proof /\ v.receipt = w.receipt
  BY <1>4 DEF Calls, Places
<1>7. v.ok <=> lease.by = w.todo
  BY <1>4, <1>5 DEF Calls
<1> HIDE DEF v
<1>8. Core(v, objects, runs, ops)
  BY <1>2, <1>6, CoreKept
<1>9. /\ w.todo \in Writes /\ w.todo.id[1] = w.run /\ w.todo.id[2] = w.n
      /\ w.todo.effect = "take" /\ w.goal \notin {"rotate", "retire"}
  BY <1>1, <1>2 DEF Shape, Sending, Answering
<1>10. SentOK(w.todo, objects, runs, ops) /\ Dead(w.todo, objects)
  BY <1>1, <1>2 DEF CallOK, Sending, Answering
<1>11. v.ok => OwnGen(v.base, v.run, objects)
  <2>1. objects["lease"].by.effect = "take"
          => objects["lease"].owner = objects["lease"].by.id[1]
    BY <1>2 DEF Stable, BucketOK
  <2>2. v.ok => objects["lease"].owner = w.run
    BY <1>7, <1>9, <2>1 DEF lease
  <2> QED BY <1>3, <1>6, <2>2 DEF OwnGen, lease
<1>12. Shape(v)
  BY <1>2, <1>6, <1>9 DEF Shape, Preparing, Sending, Answering, Fencing, Listed
<1>13. RetireOK(v, objects, runs) /\ ReceiptOK(v, objects, runs) /\ GoalOK(v, runs)
  BY <1>6, <1>9 DEF RetireOK, ReceiptOK, GoalOK
<1>14. CallOK(v, objects, runs, ops)
  BY <1>6, <1>8, <1>10, <1>11, <1>12, <1>13 DEF CallOK, Preparing
<1> QED BY <1>1, <1>2, <1>6, <1>14, CallStep

LEMMA ProvenStep ==
  ASSUME CredentialsInv, NEW h \in Handlers, calls[h].pc # "idle",
         NEW s \in Nat, BaseOK(s, calls[h], runs),
         ~Holds(calls[h].run, objects), proven(h, calls[h], s),
         UNCHANGED <<objects, runs, ops, net>>, faults' = faults
  PROVE  CredentialsInv'
<1> DEFINE w == calls[h]
           x == [w EXCEPT !.proof = s, !.tries = @ + 1, !.base = 0]
<1>1. /\ w \in Calls /\ Stable(objects, runs, ops) /\ Core(w, objects, runs, ops)
      /\ w.run \in Runs /\ faults' \in Nat
  BY ActiveCall
<1>2. CASE abort(h)
  BY <1>1, <1>2, AbortStep
<1>3. CASE go(h, x, "finish")
  <2>0. w.tries + 1 \in Nat
    BY <1>1 DEF Calls
  <2>1. /\ x \in Calls /\ x.run = w.run /\ x.n = w.n /\ x.leaseGen = w.leaseGen
        /\ x.snapGen = w.snapGen /\ x.proof = s
    BY <1>1, <2>0 DEF Calls
  <2> HIDE DEF x
  <2>2. Core(x, objects, runs, ops)
    BY <1>1, <2>1 DEF Core, ProofOK, BaseOK, Current
  <2>3. "finish" \in QuietPlaces
    BY DEF QuietPlaces
  <2> QED BY <1>1, <1>3, <2>1, <2>2, <2>3, QuietStep
<1> QED BY <1>2, <1>3 DEF proven

LEMMA ResolveRunStep ==
  ASSUME CredentialsInv, NEW h \in Handlers, ResolveRun(h) PROVE CredentialsInv'
<1> DEFINE w == calls[h]
           s == runs[w.run].op.seq
           x == [w EXCEPT !.base = s]
           v == [x EXCEPT !.pc = "resolveLease"]
<1>1. /\ w.pc = "resolve" /\ UNCHANGED <<objects, runs, ops, net>> /\ faults' = faults
  BY DEF ResolveRun
<1>2. /\ w \in Calls /\ Stable(objects, runs, ops) /\ Core(w, objects, runs, ops)
      /\ w.run \in Runs /\ faults' \in Nat
  BY <1>1, ActiveCall
<1>3. CASE abort(h)
  BY <1>1, <1>2, <1>3, AbortStep
<1>4. CASE /\ mine(w) /\ resolves(w.run) /\ go(h, x, "resolveLease")
  <2>1. s \in Nat /\ calls' = [calls EXCEPT ![h] = v]
    BY <1>2, <1>4 DEF Stable, AllJournals, Journals, Operations, go
  <2>2. /\ v \in Calls /\ v.run = w.run /\ v.n = w.n /\ v.leaseGen = w.leaseGen
        /\ v.snapGen = w.snapGen /\ v.proof = w.proof /\ v.base = s /\ v.pc = "resolveLease"
    BY <1>2, <2>1 DEF Calls, Places
  <2> HIDE DEF v
  <2>3. Core(v, objects, runs, ops)
    BY <1>2, <2>2, CoreKept
  <2>4. BaseOK(s, v, runs)
    BY <1>4, <2>1, <2>2 DEF BaseOK, resolves
  <2>5. CallOK(v, objects, runs, ops)
    BY <2>2, <2>3, <2>4
    DEF CallOK, Shape, RetireOK, GoalOK, Preparing, Sending, Answering, Fencing, Listed
  <2> QED BY <1>1, <1>2, <2>1, <2>2, <2>5, CallStep
<1> QED BY <1>3, <1>4 DEF ResolveRun

LEMMA ResolveLeaseStep ==
  ASSUME CredentialsInv, NEW h \in Handlers, ResolveLease(h) PROVE CredentialsInv'
<1> DEFINE w == calls[h]
<1>1. /\ w.pc = "resolveLease" /\ UNCHANGED <<objects, runs, ops, net>> /\ faults' = faults
  BY DEF ResolveLease
<1>2. /\ w \in Calls /\ Stable(objects, runs, ops) /\ Core(w, objects, runs, ops)
      /\ w.run \in Runs /\ faults' \in Nat /\ CallOK(w, objects, runs, ops)
  BY <1>1, ActiveCall, InvParts
<1>3. BaseOK(w.base, w, runs) /\ w.base \in Nat
  BY <1>1, <1>2 DEF CallOK, RetireOK, Calls
<1>4. CASE ownsLive(w) /\ retire(h, w, "retire")
  <2> DEFINE v == retiring(w, lease.gen, "retire")
  <2>1. calls' = [calls EXCEPT ![h] = v]
    BY <1>4 DEF retire, go, retiring
  <2>2. v \in Calls /\ CallOK(v, objects, runs, ops) /\ v.pc # "save"
    BY <1>2, <1>3, <1>4, RetireCall DEF lease, ownsLive, owned
  <2> HIDE DEF v
  <2> QED BY <1>1, <1>2, <2>1, <2>2, CallStep
<1>5. CASE ~ownsLive(w) /\ proven(h, w, w.base)
  <2>1. ~Holds(w.run, objects)
    BY <1>5 DEF Holds, ownsLive, owned, lease
  <2> QED BY <1>1, <1>3, <1>5, <2>1, ProvenStep
<1> QED BY <1>4, <1>5 DEF ResolveLease

LEMMA RunFacts ==
  ASSUME CredentialsInv, NEW c \in Runs
  PROVE  LET op == runs[c].op IN
         /\ op.n \in Nat /\ op.seq \in Nat /\ op.mutation \in Writes \cup {NoWrite}
         /\ op.kind \in Kinds \cup {None} /\ RunOK(c, objects, runs, ops) /\ ops \in Nat
         /\ runs[c] \in Journals /\ op \in Operations
         /\ hasOp(c) => op.n \in 1..ops
<1>1. runs[c] \in Journals /\ RunOK(c, objects, runs, ops) /\ ops \in Nat
  BY DEF CredentialsInv, CredentialsTypeOK, AllJournals
<1>2. runs[c].op \in Operations
  BY <1>1 DEF Journals
<1>3. runs[c].op.n \in Nat
  BY <1>2 DEF Operations
<1>4. hasOp(c) => runs[c].op.n \in 1..ops
  BY <1>1, <1>3 DEF hasOp, RunOK
<1> QED BY <1>1, <1>2, <1>4 DEF Operations

LEMMA ResumeCleanupStep ==
  ASSUME CredentialsInv, NEW h \in Handlers, NEW c \in Runs, ResumeCleanup(h, c)
  PROVE  CredentialsInv'
<1> DEFINE op == runs[c].op
           x == [NoCall EXCEPT !.run = c, !.kind = "cleanup", !.n = op.n, !.seq = op.seq]
           v == [x EXCEPT !.pc = "finish"]
<1>1. /\ hasOp(c) /\ UNCHANGED <<objects, runs, ops, net>> /\ faults' = faults
      /\ calls' = [calls EXCEPT ![h] = v]
  BY DEF ResumeCleanup, go
<1>2. op.n \in 1..ops /\ op.n \in Nat /\ op.seq \in Nat
  BY <1>1, RunFacts
<1>3. Stable(objects, runs, ops) /\ faults' \in Nat
  BY <1>1, InvParts
<1>4. /\ v \in Calls /\ v.run = c /\ v.n = op.n /\ v.pc = "finish"
      /\ v.leaseGen = 0 /\ v.snapGen = 0 /\ v.proof = NoProof
  BY <1>2, NoCallFields DEF Calls, Places, Kinds
<1> HIDE DEF v, op
<1>5. Core(v, objects, runs, ops)
  BY <1>2, <1>3, <1>4, CoreFresh
<1>6. CallOK(v, objects, runs, ops) /\ v.pc # "save"
  BY <1>4, <1>5, QuietCall DEF QuietPlaces
<1> QED BY <1>1, <1>3, <1>4, <1>6, CallStep

(* A journalled mutation, read from the journal, is sent as far as anyone  *)
(* can tell.                                                               *)
LEMMA MutationSent ==
  ASSUME CredentialsInv, NEW c \in Runs, runs[c].op.mutation # NoWrite
  PROVE  LET m == runs[c].op.mutation IN
         /\ m \in Writes /\ SentOK(m, objects, runs, ops) /\ hasOp(c)
         /\ m.id[1] = c /\ m.id[2] = runs[c].op.n /\ m.id[3] = runs[c].op.seq
         /\ m.effect \in (IF m.obj = "auth" THEN {"rotate"} ELSE {"take", "expire"})
<1> DEFINE m == runs[c].op.mutation
           n == runs[c].op.n
           s == runs[c].op.seq
<1>1. /\ n \in Nat /\ s \in Nat /\ m \in Writes /\ RunOK(c, objects, runs, ops)
      /\ hasOp(c) => n \in 1..ops
  BY RunFacts
<1>2. hasOp(c)
  BY NoOpFields DEF hasOp
<1>3. m.id = <<c, n, s>> /\ m.effect # "keep" /\ Sound(m, objects)
  BY <1>1 DEF RunOK
<1>4. m.effect \in {"take", "expire", "rotate", "keep"} /\ m.obj \in {"lease", "auth"}
  BY <1>1 DEF Writes
<1> HIDE DEF n, s
<1>5. m.id[1] = c /\ m.id[2] = n /\ m.id[3] = s
  BY <1>3
<1>6. Numbered(m, runs, ops)
  BY <1>1, <1>2, <1>5 DEF Numbered, n, s
<1>7. Fenced(m, objects, runs)
  BY <1>3, <1>5 DEF Fenced, Named
<1> QED BY <1>1, <1>2, <1>3, <1>4, <1>5, <1>6, <1>7 DEF SentOK, Sound, n, s

LEMMA ListStep ==
  ASSUME CredentialsInv, NEW h \in Handlers, NEW c \in Runs, List(h, c)
  PROVE  CredentialsInv'
<1> DEFINE op == runs[c].op
           m == op.mutation
           x == [NoCall EXCEPT !.tick = TRUE, !.run = c, !.kind = op.kind, !.n = op.n,
                               !.todo = m, !.goal = m.effect]
           v == [x EXCEPT !.pc = "retry"]
<1>1. /\ hasOp(c) /\ UNCHANGED <<objects, runs, ops, net>> /\ faults' = faults
      /\ calls' = [calls EXCEPT ![h] = v]
  BY DEF List, go
<1>2. /\ op.n \in 1..ops /\ op.n \in Nat /\ op.kind \in Kinds \cup {None}
      /\ m \in Writes \cup {NoWrite}
  BY <1>1, RunFacts
<1>3. Stable(objects, runs, ops) /\ faults' \in Nat
  BY <1>1, InvParts
<1>4. m.effect \in Goals
  BY <1>2 DEF Writes, NoWrite, Goals
<1> HIDE DEF op, m
<1>5. /\ v \in Calls /\ v.run = c /\ v.n = op.n /\ v.pc = "retry" /\ v.todo = m
      /\ v.goal = m.effect /\ v.receipt = NoReceipt
      /\ v.leaseGen = 0 /\ v.snapGen = 0 /\ v.proof = NoProof
  BY <1>2, <1>4, NoCallFields DEF Calls, Places
<1> HIDE DEF v
<1>6. Core(v, objects, runs, ops)
  BY <1>2, <1>3, <1>5, CoreFresh
<1>7. ASSUME m # NoWrite
      PROVE  /\ m \in Writes /\ SentOK(m, objects, runs, ops)
             /\ m.id[1] = c /\ m.id[2] = op.n
             /\ m.effect \in (IF m.obj = "auth" THEN {"rotate"} ELSE {"take", "expire"})
  BY <1>7, MutationSent DEF m, op
<1>8. Shape(v)
  BY <1>5, <1>7 DEF Shape, Preparing, Sending, Answering, Fencing, Listed
<1>9. CallOK(v, objects, runs, ops)
  BY <1>5, <1>6, <1>7, <1>8
  DEF CallOK, RetireOK, ReceiptOK, GoalOK, Preparing, Sending, Answering, Fencing, Listed
<1> QED BY <1>1, <1>3, <1>5, <1>9, CallStep

LEMMA RetryRecoveryStep ==
  ASSUME CredentialsInv, NEW h \in Handlers, RetryRecovery(h) PROVE CredentialsInv'
<1> DEFINE w == calls[h]
           v == [w EXCEPT !.pc = "fenceRead"]
<1>1. /\ w.pc = "retry" /\ UNCHANGED <<objects, runs, ops, net>> /\ faults' = faults
  BY DEF RetryRecovery
<1>2. /\ w \in Calls /\ Stable(objects, runs, ops) /\ Core(w, objects, runs, ops)
      /\ w.run \in Runs /\ faults' \in Nat /\ Shape(w) /\ CallOK(w, objects, runs, ops)
  BY <1>1, ActiveCall, InvParts
<1>3. CASE abort(h)
  BY <1>1, <1>2, <1>3, AbortStep
<1>4. CASE go(h, w, "check")
  <2>1. "check" \in QuietPlaces
    BY DEF QuietPlaces
  <2> QED BY <1>1, <1>4, <2>1, QuietAgain
<1>5. CASE w.todo # NoWrite /\ go(h, w, "fenceRead")
  <2>1. calls' = [calls EXCEPT ![h] = v]
    BY <1>5 DEF go
  <2>2. /\ v \in Calls /\ v.run = w.run /\ v.n = w.n /\ v.pc = "fenceRead" /\ v.todo = w.todo
        /\ v.goal = w.goal /\ v.receipt = w.receipt
        /\ v.leaseGen = w.leaseGen /\ v.snapGen = w.snapGen /\ v.proof = w.proof
    BY <1>2 DEF Calls, Places
  <2> HIDE DEF v
  <2>3. Core(v, objects, runs, ops)
    BY <1>2, <2>2, CoreKept
  <2>4. Shape(v)
    BY <1>1, <1>2, <1>5, <2>2 DEF Shape, Preparing, Sending, Answering, Fencing, Listed
  <2>5. SentOK(v.todo, objects, runs, ops)
    BY <1>1, <1>2, <1>5, <2>2 DEF CallOK, Sending, Listed
  <2>6. CallOK(v, objects, runs, ops)
    BY <2>2, <2>3, <2>4, <2>5 DEF CallOK, RetireOK, ReceiptOK, GoalOK, Preparing
  <2> QED BY <1>1, <1>2, <2>1, <2>2, <2>6, CallStep
<1> QED BY <1>3, <1>4, <1>5 DEF RetryRecovery

LEMMA CheckStep ==
  ASSUME CredentialsInv, NEW h \in Handlers, Check(h) PROVE CredentialsInv'
<1> DEFINE w == calls[h]
           x == [w EXCEPT !.base = runs[w.run].op.seq]
<1>1. /\ w.pc = "check" /\ UNCHANGED <<objects, runs, ops, net>> /\ faults' = faults
  BY DEF Check
<1>2. /\ w \in Calls /\ Stable(objects, runs, ops) /\ Core(w, objects, runs, ops)
      /\ w.run \in Runs /\ faults' \in Nat
  BY <1>1, ActiveCall
<1>3. CASE abort(h)
  BY <1>1, <1>2, <1>3, AbortStep
<1>4. CASE go(h, x, "releaseRead")
  <2>1. runs[w.run].op.seq \in Nat
    BY <1>2 DEF Stable, AllJournals, Journals, Operations
  <2>2. /\ x \in Calls /\ x.run = w.run /\ x.n = w.n /\ x.leaseGen = w.leaseGen
        /\ x.snapGen = w.snapGen /\ x.proof = w.proof
    BY <1>2, <2>1 DEF Calls
  <2> HIDE DEF x
  <2>3. Core(x, objects, runs, ops) /\ "releaseRead" \in QuietPlaces
    BY <1>2, <2>2, CoreKept DEF QuietPlaces
  <2> QED BY <1>1, <1>2, <1>4, <2>2, <2>3, QuietStep
<1>5. CASE go(h, w, "finish")
  <2>1. "finish" \in QuietPlaces
    BY DEF QuietPlaces
  <2> QED BY <1>1, <1>5, <2>1, QuietAgain
<1> QED BY <1>3, <1>4, <1>5 DEF Check

LEMMA ReleaseReadStep ==
  ASSUME CredentialsInv, NEW h \in Handlers, ReleaseRead(h) PROVE CredentialsInv'
<1> DEFINE w == calls[h]
           x == [w EXCEPT !.base = 0]
<1>1. /\ w.pc = "releaseRead" /\ UNCHANGED <<objects, runs, ops, net>> /\ faults' = faults
  BY DEF ReleaseRead
<1>2. /\ w \in Calls /\ Stable(objects, runs, ops) /\ Core(w, objects, runs, ops)
      /\ w.run \in Runs /\ faults' \in Nat
  BY <1>1, ActiveCall
<1>3. CASE ownsLive(w) /\ retire(h, w, "recoverRelease")
  <2> DEFINE v == retiring(w, lease.gen, "recoverRelease")
  <2>1. calls' = [calls EXCEPT ![h] = v]
    BY <1>3 DEF retire, go, retiring
  <2>2. v \in Calls /\ CallOK(v, objects, runs, ops) /\ v.pc # "save"
    BY <1>2, <1>3, RetireCall DEF lease, ownsLive, owned
  <2> HIDE DEF v
  <2> QED BY <1>1, <1>2, <2>1, <2>2, CallStep
<1>4. CASE go(h, x, "finish")
  <2>1. /\ x \in Calls /\ x.run = w.run /\ x.n = w.n /\ x.leaseGen = w.leaseGen
        /\ x.snapGen = w.snapGen /\ x.proof = w.proof
    BY <1>2 DEF Calls
  <2> HIDE DEF x
  <2>2. Core(x, objects, runs, ops) /\ "finish" \in QuietPlaces
    BY <1>2, <2>1, CoreKept DEF QuietPlaces
  <2> QED BY <1>1, <1>2, <1>4, <2>1, <2>2, QuietStep
<1> QED BY <1>3, <1>4 DEF ReleaseRead

LEMMA ReadFailsStep ==
  ASSUME CredentialsInv, NEW h \in Handlers, ReadFails(h) PROVE CredentialsInv'
<1>1. calls[h].pc # "idle" /\ abort(h) /\ UNCHANGED <<objects, runs, ops, net>>
  BY DEF ReadFails
<1>2. faults' \in Nat
  BY InvParts DEF ReadFails
<1> QED BY <1>1, <1>2, AbortStep

LEMMA FenceReadStep ==
  ASSUME CredentialsInv, NEW h \in Handlers, FenceRead(h) PROVE CredentialsInv'
<1> DEFINE w == calls[h]
           m == w.todo
           o == objects[m.obj]
           last == m.effect = "expire" /\ o.owner = w.run
           f == [m EXCEPT !.fence = TRUE, !.effect = IF last THEN "expire" ELSE "keep"]
<1>1. /\ w.pc = "fenceRead" /\ UNCHANGED <<objects, runs, ops, net>> /\ faults' = faults
      /\ \/ o.gen = m.gen /\ go(h, [w EXCEPT !.todo = f], "fenceSave")
         \/ o.gen # m.gen /\ go(h, [w EXCEPT !.receipt = foundReceipt(o, m)], "fenceAck")
  BY DEF FenceRead, fences
<1>2. /\ w \in Calls /\ Stable(objects, runs, ops) /\ Core(w, objects, runs, ops)
      /\ w.run \in Runs /\ faults' \in Nat /\ Shape(w) /\ CallOK(w, objects, runs, ops)
  BY <1>1, ActiveCall, InvParts
<1>3. /\ m \in Writes /\ m.id[1] = w.run /\ m.id[2] = w.n /\ m.effect = w.goal
      /\ w.goal \in (IF m.obj = "auth" THEN {"rotate"} ELSE {"take", "expire"})
      /\ w.receipt = NoReceipt
  BY <1>1, <1>2 DEF Shape, Sending, Fencing
<1>4. SentOK(m, objects, runs, ops)
  BY <1>1, <1>2 DEF CallOK, Sending, Fencing
<1>5. m.obj \in {"lease", "auth"} /\ m.gen \in Nat /\ m.id \in Idents
  BY <1>3 DEF Writes
<1>6. o \in Objects /\ o.gen \in Nat
  BY <1>2, <1>5 DEF Stable, Buckets, Objects
<1> DEFINE j == runs[w.run].op.mutation
<1>7. Named(m, runs) => m.obj = j.obj /\ m.gen = j.gen /\ m.effect = j.effect
  BY <1>3, <1>4 DEF SentOK, Fenced
<1>8. CASE o.gen = m.gen /\ go(h, [w EXCEPT !.todo = f], "fenceSave")
  <2> DEFINE v == [[w EXCEPT !.todo = f] EXCEPT !.pc = "fenceSave"]
  <2>1. calls' = [calls EXCEPT ![h] = v]
    BY <1>8 DEF go
  <2>2. /\ f \in Writes /\ f.id = m.id /\ f.obj = m.obj /\ f.gen = m.gen
        /\ f.effect = IF last THEN "expire" ELSE "keep"
    BY <1>3 DEF Writes
  <2> HIDE DEF f
  <2>3. /\ v \in Calls /\ v.run = w.run /\ v.n = w.n /\ v.pc = "fenceSave" /\ v.todo = f
        /\ v.goal = w.goal /\ v.receipt = w.receipt
        /\ v.leaseGen = w.leaseGen /\ v.snapGen = w.snapGen /\ v.proof = w.proof
    BY <1>2, <2>2 DEF Calls, Places
  <2> HIDE DEF v
  <2>4. Core(v, objects, runs, ops)
    BY <1>2, <2>3, CoreKept
  <2>5. Shape(v)
    BY <1>3, <2>2, <2>3 DEF Shape, Preparing, Sending, Answering, Fencing, Listed
  <2>6. Sound(f, objects)
    BY <1>3, <1>4, <2>2 DEF SentOK, Sound
  <2>7. Numbered(f, runs, ops)
    BY <1>4, <2>2 DEF SentOK, Numbered
  <2>8. Named(f, runs) <=> Named(m, runs)
    BY <2>2 DEF Named
  <2>9. Fenced(f, objects, runs)
    <3>1. ~Named(f, runs) => Dead(f, objects)
      BY <1>4, <2>2, <2>8 DEF SentOK, Fenced, Dead
    <3>2. ASSUME Named(f, runs)
          PROVE  /\ f.obj = j.obj /\ f.gen = j.gen /\ f.effect \in {j.effect, "keep"}
                 /\ f.obj = "lease" /\ f.effect = "keep" /\ j.effect = "expire"
                    /\ f.gen = objects["lease"].gen => ~objects["lease"].alive
      <4>1. f.obj = j.obj /\ f.gen = j.gen /\ f.effect \in {j.effect, "keep"}
        BY <1>7, <2>2, <2>8, <3>2
      <4>2. ASSUME f.obj = "lease", f.effect = "keep", j.effect = "expire",
                   f.gen = objects["lease"].gen, objects["lease"].alive
            PROVE  FALSE
        <5>1. m.effect = "expire" /\ ~last /\ m.obj = "lease"
          BY <1>7, <2>2, <2>8, <3>2, <4>2
        <5>2. objects["lease"].owner = w.run
          BY <1>3, <1>4, <2>2, <4>2 DEF SentOK, Sound
        <5> QED BY <5>1, <5>2
      <4> QED BY <4>1, <4>2
    <3>3. f.id[1] = w.run
      BY <1>3, <2>2
    <3> QED BY <3>1, <3>2, <3>3 DEF Fenced
  <2>10. GoalOK(v, runs)
    BY <1>3, <1>7, <2>2, <2>3, <2>8 DEF GoalOK
  <2>11. CallOK(v, objects, runs, ops)
    BY <2>3, <2>4, <2>5, <2>6, <2>7, <2>9, <2>10 DEF CallOK, SentOK, RetireOK, ReceiptOK, Preparing
  <2> QED BY <1>1, <1>2, <2>1, <2>3, <2>11, CallStep
<1>9. CASE o.gen # m.gen /\ go(h, [w EXCEPT !.receipt = foundReceipt(o, m)], "fenceAck")
  <2> DEFINE r == foundReceipt(o, m)
             v == [[w EXCEPT !.receipt = r] EXCEPT !.pc = "fenceAck"]
  <2>1. calls' = [calls EXCEPT ![h] = v]
    BY <1>9 DEF go
  <2>2. r \in Receipts
    BY <1>6 DEF foundReceipt, Objects, Receipts
  <2>3. ASSUME objects["auth"].receipt # NoReceipt, Named(m, runs)
        PROVE  /\ objects["auth"].receipt.id = m.id => r = objects["auth"].receipt
               /\ r # NoReceipt => r = objects["auth"].receipt
    <3>1. ASSUME objects["auth"].receipt.id = m.id PROVE m.effect = "rotate"
      <4>1. Named(objects["auth"].receipt, runs)
        BY <2>3, <3>1 DEF Named
      <4>2. j.effect = "rotate"
        BY <1>2, <1>3, <2>3, <3>1, <4>1 DEF Stable, BucketOK
      <4> QED BY <1>7, <2>3, <4>2
    <3>2. m.effect = "rotate" => o = objects["auth"]
      BY <1>3, <1>5
    <3> QED BY <3>1, <3>2 DEF foundReceipt
  <2> HIDE DEF r
  <2>4. /\ v \in Calls /\ v.run = w.run /\ v.n = w.n /\ v.pc = "fenceAck" /\ v.todo = m
        /\ v.goal = w.goal /\ v.receipt = r
        /\ v.leaseGen = w.leaseGen /\ v.snapGen = w.snapGen /\ v.proof = w.proof
    BY <1>2, <2>2 DEF Calls, Places
  <2> HIDE DEF v
  <2>5. Core(v, objects, runs, ops)
    BY <1>2, <2>4, CoreKept
  <2>6. Shape(v)
    BY <1>3, <2>4 DEF Shape, Preparing, Sending, Answering, Fencing, Listed
  <2>7. Dead(m, objects)
    BY <1>4, <1>5, <1>6, <1>9 DEF SentOK, Sound, Dead
  <2>8. ReceiptOK(v, objects, runs)
    BY <2>3, <2>4 DEF ReceiptOK
  <2>9. CallOK(v, objects, runs, ops)
    BY <1>4, <2>4, <2>5, <2>6, <2>7, <2>8 DEF CallOK, RetireOK, GoalOK, Preparing
  <2> QED BY <1>1, <1>2, <2>1, <2>4, <2>9, CallStep
<1> QED BY <1>1, <1>8, <1>9

-----------------------------------------------------------------------------
(* Steps that send a write or let one land *)

LEMMA Gather ==
  ASSUME CredentialsInv, NEW h \in Handlers, NEW v \in Calls,
         calls' = [calls EXCEPT ![h] = v], Stable(objects', runs', ops'),
         \A g \in Handlers : CallOK(calls[g], objects', runs', ops'),
         CallOK(v, objects', runs', ops'),
         net' \subseteq Writes, \A q \in net' : SentOK(q, objects', runs', ops'),
         faults' \in Nat, SendsOnce'
  PROVE  CredentialsInv'
<1>1. calls \in [Handlers -> Calls]
  BY DEF CredentialsInv, CredentialsTypeOK
<1>2. CredentialsTypeOK'
  BY <1>1 DEF CredentialsTypeOK, Stable
<1>3. \A g \in Handlers : CallOK(calls'[g], objects', runs', ops')
  BY <1>1
<1> QED BY <1>2, <1>3 DEF CredentialsInv, Stable

(* A call leaves its write to the net and goes on.                         *)
LEMMA SendStep ==
  ASSUME CredentialsInv, NEW h \in Handlers, calls[h].pc \in {"save", "fenceSave"},
         NEW v \in Calls, calls' = [calls EXCEPT ![h] = v], CallOK(v, objects, runs, ops),
         v.pc # "save", UNCHANGED <<objects, runs, ops>>, net' = net \cup {calls[h].todo},
         faults' \in Nat
  PROVE  CredentialsInv'
<1> DEFINE q == calls[h].todo
<1>1. /\ q \in Writes /\ SentOK(q, objects, runs, ops)
      /\ calls[h].pc = "fenceSave" => q.effect # "rotate"
  BY InvParts DEF CallOK, Shape, Sending, Answering, Fencing
<1>2. net' \subseteq Writes /\ \A p \in net' : SentOK(p, objects', runs', ops')
  BY <1>1, InvParts
<1>3. calls \in [Handlers -> Calls]
  BY DEF CredentialsInv, CredentialsTypeOK
<1>4. SendsOnce'
  <2>1. \A g \in Handlers : Rotating(g)' => Rotating(g) /\ calls'[g] = calls[g] /\ g # h
    BY <1>3 DEF Rotating
  <2>2. auth' = auth
    BY DEF auth
  <2>3. q.effect = "rotate" => Rotating(h)
    BY <1>1 DEF Rotating
  <2>4. SendsOnce
    BY InvParts
  <2>5. ASSUME NEW g \in Handlers, Rotating(g)'
        PROVE  /\ auth'.receipt.id # calls'[g].todo.id
               /\ \A p \in net' : p.effect = "rotate" => p.id # calls'[g].todo.id
               /\ \A k \in Handlers : Rotating(k)' /\ k # g => calls'[k].todo.id # calls'[g].todo.id
    BY <2>1, <2>2, <2>3, <2>4, <2>5 DEF SendsOnce
  <2> QED BY <2>5 DEF SendsOnce
<1> QED BY <1>2, <1>4, InvParts, Gather

LEMMA SaveUnavailableStep ==
  ASSUME CredentialsInv, NEW h \in Handlers, SaveUnavailable(h) PROVE CredentialsInv'
<1>1. /\ calls[h].pc \in {"save", "fenceSave"} /\ abort(h) /\ UNCHANGED <<objects, runs, ops>>
      /\ net' = net \cup {calls[h].todo}
  BY DEF SaveUnavailable
<1>2. faults' \in Nat
  BY InvParts DEF SaveUnavailable
<1>3. calls[h] \in Calls /\ Stable(objects, runs, ops) /\ Core(calls[h], objects, runs, ops)
  BY <1>1, ActiveCall
<1> DEFINE v == abortedCall(calls[h])
<1>4. v \in Calls /\ CallOK(v, objects, runs, ops) /\ v.pc # "save"
  BY <1>3, AbortCall
<1>5. calls' = [calls EXCEPT ![h] = v]
  BY <1>1 DEF abort
<1> HIDE DEF v
<1> QED BY <1>1, <1>2, <1>4, <1>5, SendStep

LEMMA CrashStep ==
  ASSUME CredentialsInv, NEW h \in Handlers, Crash(h) PROVE CredentialsInv'
<1>1. calls' = [calls EXCEPT ![h] = NoCall] /\ UNCHANGED <<objects, runs, ops>>
  BY DEF Crash
<1>2. faults' \in Nat
  BY InvParts DEF Crash
<1>3. NoCall \in Calls /\ NoCall.pc # "save" /\ CallOK(NoCall, objects, runs, ops)
  BY NoCallFields, IdleCall
<1>4. CASE UNCHANGED net
  BY <1>1, <1>2, <1>3, <1>4, CallStep
<1>5. CASE calls[h].pc \in {"save", "fenceSave"} /\ net' = net \cup {calls[h].todo}
  BY <1>1, <1>2, <1>3, <1>5, SendStep
<1> QED BY <1>4, <1>5 DEF Crash

(* The whole state after a write has landed.                               *)
LEMMA Landed ==
  ASSUME CredentialsInv, NEW q \in Writes, SentOK(q, objects, runs, ops), accepts(q),
         objects' = committed(q)
  PROVE  /\ Stable(objects', runs, ops)
         /\ \A g \in Handlers : CallOK(calls[g], objects', runs, ops)
         /\ \A p \in net : SentOK(p, objects', runs, ops)
         /\ SentOK(q, objects', runs, ops) /\ Dead(q, objects') /\ Named(q, runs)
         /\ auth'.receipt # auth.receipt => q.effect = "rotate" /\ auth'.receipt.id = q.id
         /\ q.effect = "rotate" => auth'.receipt = [id |-> q.id, gen |-> q.gen]
         /\ lease.alive => lease'.owner = lease.owner
         /\ \A o \in {"lease", "auth"} : objects'[o].gen # objects[o].gen => objects'[o].by = q
<1>1. /\ objects \in Buckets /\ runs \in AllJournals /\ ops \in Nat
      /\ BucketOK(objects, runs, ops) /\ \A c \in Runs : RunOK(c, objects, runs, ops)
  BY InvParts DEF Stable
<1>2. objects[q.obj].gen = q.gen /\ objects' = landing(objects, q)
  BY DEF accepts, committed, landing
<1>3. /\ objects' \in Buckets /\ LeaseMoves(objects, objects', runs)
      /\ AuthMoves(objects, objects', runs) /\ Named(q, runs) /\ Dead(q, objects')
      /\ objects'["auth"].receipt # objects["auth"].receipt =>
           q.effect = "rotate" /\ objects'["auth"].receipt.id = q.id
      /\ q.effect = "rotate" => objects'["auth"].receipt = [id |-> q.id, gen |-> q.gen]
      /\ objects["lease"].alive => objects'["lease"].owner = objects["lease"].owner
      /\ \A o \in {"lease", "auth"} : objects'[o].gen # objects[o].gen => objects'[o].by = q
  BY <1>1, <1>2, LandingMoves
<1>4. Stable(objects', runs, ops)
  BY <1>1, <1>3, BucketMoves, RunMoves DEF Stable
<1>5. \A g \in Handlers : CallOK(calls[g], objects', runs, ops)
  BY <1>1, <1>3, InvParts, CallMoves
<1>6. SentOK(q, objects', runs, ops) /\ \A p \in net : SentOK(p, objects', runs, ops)
  BY <1>1, <1>3, InvParts, SentMoves
<1> QED BY <1>3, <1>4, <1>5, <1>6 DEF auth, lease

(* After a landing, the calls about to send a rotation are as fresh as     *)
(* they were, except the sender of the write that landed.                  *)
LEMMA LandedOnce ==
  ASSUME CredentialsInv, NEW q \in Writes,
         auth'.receipt # auth.receipt => q.effect = "rotate" /\ auth'.receipt.id = q.id,
         net' \subseteq net,
         \A g \in Handlers : Rotating(g)' =>
           Rotating(g) /\ calls'[g] = calls[g] /\ (q.effect = "rotate" => q.id # calls[g].todo.id)
  PROVE  SendsOnce'
BY InvParts DEF SendsOnce

LEMMA SaveStep ==
  ASSUME CredentialsInv, NEW h \in Handlers, Save(h) PROVE CredentialsInv'
<1> DEFINE w == calls[h]
           q == w.todo
<1>1. w.pc = "save" /\ UNCHANGED <<runs, ops, net>> /\ faults' = faults
  BY DEF Save
<1>2. /\ w \in Calls /\ Stable(objects, runs, ops) /\ Core(w, objects, runs, ops)
      /\ w.run \in Runs /\ faults' \in Nat /\ Shape(w) /\ CallOK(w, objects, runs, ops)
      /\ calls \in [Handlers -> Calls]
  BY <1>1, ActiveCall, InvParts DEF CredentialsInv, CredentialsTypeOK
<1>3. /\ q \in Writes /\ q.id[1] = w.run /\ q.id[2] = w.n /\ w.ok
      /\ q.effect # "keep" /\ (w.goal = "acquire" => q.effect = "take")
      /\ (w.goal = "rotate" <=> q.effect = "rotate") /\ (w.goal = "retire" => q.effect = "expire")
  BY <1>1, <1>2 DEF Shape, Sending, Answering
<1>4. SentOK(q, objects, runs, ops)
  BY <1>1, <1>2 DEF CallOK, Sending, Answering
<1>5. q.gen \in Nat /\ objects[q.obj].gen \in Nat
  BY <1>2, <1>3 DEF Stable, Buckets, Objects, Writes
<1>6. CASE /\ accepts(q) /\ objects' = committed(q)
           /\ go(h, w, IF q.effect = "take" THEN "confirm" ELSE "ack")
  <2> DEFINE p == IF q.effect = "take" THEN "confirm" ELSE "ack"
             v == [w EXCEPT !.pc = p]
  <2>1. calls' = [calls EXCEPT ![h] = v]
    BY <1>6 DEF go
  <2>2. /\ Stable(objects', runs, ops)
        /\ \A g \in Handlers : CallOK(calls[g], objects', runs, ops)
        /\ \A x \in net : SentOK(x, objects', runs, ops)
        /\ SentOK(q, objects', runs, ops) /\ Dead(q, objects')
        /\ auth'.receipt # auth.receipt => q.effect = "rotate" /\ auth'.receipt.id = q.id
        /\ q.effect = "rotate" => auth'.receipt = [id |-> q.id, gen |-> q.gen]
    BY <1>3, <1>4, <1>6, Landed
  <2>3. /\ v \in Calls /\ v.run = w.run /\ v.n = w.n /\ v.pc = p /\ v.todo = q
        /\ v.goal = w.goal /\ v.receipt = w.receipt
        /\ v.leaseGen = w.leaseGen /\ v.snapGen = w.snapGen /\ v.proof = w.proof
    BY <1>2 DEF Calls, Places
  <2>4. v.ok
    BY <1>2, <1>3 DEF Calls
  <2> HIDE DEF v
  <2>5. CallOK(w, objects', runs, ops) /\ Core(w, objects', runs, ops)
    BY <1>1, <2>2 DEF CallOK
  <2>6. Core(v, objects', runs, ops)
    BY <2>2, <2>3, <2>5, CoreKept
  <2>7. Shape(v)
    BY <1>3, <2>3 DEF Shape, Preparing, Sending, Answering, Fencing, Listed
  <2>8. RetireOK(v, objects', runs)
    BY <1>1, <2>3, <2>5 DEF CallOK, RetireOK
  <2>9. ReceiptOK(v, objects', runs)
    <3>1. w.goal = "rotate" => objects'["auth"].receipt.id = q.id
      BY <1>3, <2>2 DEF auth
    <3> QED BY <2>3, <2>4, <3>1 DEF ReceiptOK
  <2>10. v.pc = "ack" => v.goal # "acquire"
    BY <1>3, <2>3
  <2>11. CallOK(v, objects', runs, ops)
    BY <2>2, <2>3, <2>6, <2>7, <2>8, <2>9, <2>10 DEF CallOK, GoalOK, Preparing
  <2>12. SendsOnce'
    <3>1. ASSUME NEW g \in Handlers, Rotating(g)'
          PROVE  /\ Rotating(g) /\ calls'[g] = calls[g]
                 /\ q.effect = "rotate" => q.id # calls[g].todo.id
      <4>1. g # h /\ calls'[g] = calls[g] /\ Rotating(g)
        BY <1>2, <2>1, <2>3, <3>1 DEF Rotating
      <4>2. q.effect = "rotate" => Rotating(h)
        BY <1>1 DEF Rotating
      <4> QED BY <4>1, <4>2, InvParts DEF SendsOnce
    <3>2. net' \subseteq net
      BY <1>1
    <3> QED BY <1>3, <2>2, <3>1, <3>2, LandedOnce
  <2> QED BY <1>1, <1>2, <2>1, <2>2, <2>3, <2>11, <2>12, InvParts, Gather
<1>7. CASE /\ ~accepts(q) /\ UNCHANGED objects
           /\ go(h, [w EXCEPT !.ok = q.effect = "expire"], "ack")
  <2> DEFINE x == [w EXCEPT !.ok = q.effect = "expire"]
             v == [x EXCEPT !.pc = "ack"]
  <2>1. calls' = [calls EXCEPT ![h] = v]
    BY <1>7 DEF go
  <2>2. /\ x \in Calls /\ x.run = w.run /\ x.n = w.n /\ x.todo = q
        /\ x.goal = w.goal /\ x.receipt = w.receipt
        /\ x.leaseGen = w.leaseGen /\ x.snapGen = w.snapGen /\ x.proof = w.proof
    BY <1>2 DEF Calls
  <2>3. x.ok <=> q.effect = "expire"
    BY <1>2 DEF Calls
  <2> HIDE DEF x
  <2>4. /\ v \in Calls /\ v.run = w.run /\ v.n = w.n /\ v.pc = "ack" /\ v.todo = q
        /\ v.goal = w.goal /\ v.receipt = w.receipt
        /\ v.leaseGen = w.leaseGen /\ v.snapGen = w.snapGen /\ v.proof = w.proof
    BY <2>2 DEF Calls, Places
  <2>5. v.ok <=> q.effect = "expire"
    BY <2>2, <2>3 DEF Calls
  <2> HIDE DEF v
  <2>6. Core(v, objects, runs, ops)
    BY <1>2, <2>4, CoreKept
  <2>7. Shape(v)
    BY <1>3, <2>4 DEF Shape, Preparing, Sending, Answering, Fencing, Listed
  <2>8. Dead(q, objects)
    BY <1>4, <1>5, <1>7 DEF SentOK, Sound, Dead, accepts
  <2>9. RetireOK(v, objects, runs)
    BY <1>1, <1>2, <2>4 DEF CallOK, RetireOK
  <2>10. ReceiptOK(v, objects, runs)
    <3>1. w.goal = "rotate" => objects["auth"].receipt.id # q.id
      BY <1>1, <1>3, InvParts DEF SendsOnce, Rotating, auth
    <3> QED BY <1>3, <2>4, <2>5, <3>1 DEF ReceiptOK
  <2>11. v.goal = "acquire" => ~v.ok
    BY <1>3, <2>4, <2>5
  <2>12. CallOK(v, objects, runs, ops)
    BY <1>4, <2>4, <2>6, <2>7, <2>8, <2>9, <2>10, <2>11 DEF CallOK, GoalOK, Preparing
  <2> QED BY <1>1, <1>2, <1>7, <2>1, <2>4, <2>12, CallStep
<1> QED BY <1>6, <1>7 DEF Save

LEMMA FenceSaveStep ==
  ASSUME CredentialsInv, NEW h \in Handlers, FenceSave(h) PROVE CredentialsInv'
<1> DEFINE w == calls[h]
           q == w.todo
           a == [w EXCEPT !.tries = @ + 1, !.todo.fence = FALSE, !.todo.effect = w.goal]
<1>1. w.pc = "fenceSave" /\ UNCHANGED <<runs, ops, net>> /\ faults' = faults
  BY DEF FenceSave
<1>2. /\ w \in Calls /\ Stable(objects, runs, ops) /\ Core(w, objects, runs, ops)
      /\ w.run \in Runs /\ faults' \in Nat /\ Shape(w) /\ CallOK(w, objects, runs, ops)
      /\ calls \in [Handlers -> Calls]
  BY <1>1, ActiveCall, InvParts DEF CredentialsInv, CredentialsTypeOK
<1>3. /\ q \in Writes /\ q.id[1] = w.run /\ q.id[2] = w.n
      /\ q.effect \in {"expire", "keep"} /\ w.receipt = NoReceipt
      /\ w.goal \in (IF q.obj = "auth" THEN {"rotate"} ELSE {"take", "expire"})
  BY <1>1, <1>2 DEF Shape, Sending, Fencing
<1>4. SentOK(q, objects, runs, ops)
  BY <1>1, <1>2 DEF CallOK, Sending, Fencing
<1>5. q.gen \in Nat /\ objects[q.obj].gen \in Nat /\ q.obj \in {"lease", "auth"}
  BY <1>2, <1>3 DEF Stable, Buckets, Objects, Writes
<1>6. CASE accepts(q) /\ objects' = committed(q) /\ go(h, w, "fenceAck")
  <2> DEFINE v == [w EXCEPT !.pc = "fenceAck"]
  <2>1. calls' = [calls EXCEPT ![h] = v]
    BY <1>6 DEF go
  <2>2. /\ Stable(objects', runs, ops)
        /\ \A g \in Handlers : CallOK(calls[g], objects', runs, ops)
        /\ \A x \in net : SentOK(x, objects', runs, ops)
        /\ SentOK(q, objects', runs, ops) /\ Dead(q, objects') /\ Named(q, runs)
        /\ auth'.receipt # auth.receipt => q.effect = "rotate" /\ auth'.receipt.id = q.id
    BY <1>3, <1>4, <1>6, Landed
  <2>3. /\ v \in Calls /\ v.run = w.run /\ v.n = w.n /\ v.pc = "fenceAck" /\ v.todo = q
        /\ v.goal = w.goal /\ v.receipt = NoReceipt
        /\ v.leaseGen = w.leaseGen /\ v.snapGen = w.snapGen /\ v.proof = w.proof
    BY <1>2, <1>3 DEF Calls, Places
  <2> HIDE DEF v
  <2>4. CallOK(w, objects', runs, ops) /\ Core(w, objects', runs, ops)
    BY <1>1, <2>2 DEF CallOK
  <2>5. Core(v, objects', runs, ops)
    BY <2>2, <2>3, <2>4, CoreKept
  <2>6. Shape(v)
    BY <1>3, <2>3 DEF Shape, Preparing, Sending, Answering, Fencing, Listed
  <2>7. ReceiptOK(v, objects', runs)
    <3> DEFINE found == objects["auth"].receipt
    <3>1. objects'["auth"].receipt = found
      BY <1>3, <2>2 DEF auth
    <3>2. ASSUME found # NoReceipt, found.id = q.id PROVE FALSE
      <4>1. Named(found, runs)
        BY <2>2, <3>2 DEF Named
      <4>2. /\ runs[w.run].op.mutation.effect = "rotate"
            /\ runs[w.run].op.mutation.gen = found.gen /\ found.gen < objects["auth"].gen
        BY <1>2, <1>3, <3>2, <4>1 DEF Stable, BucketOK
      <4>3. q.gen = found.gen /\ q.obj = "auth"
        <5>1. q.gen = runs[w.run].op.mutation.gen /\ w.goal = "rotate"
          BY <1>1, <1>2, <1>3, <1>4, <2>2, <4>2 DEF CallOK, GoalOK, SentOK, Fenced
        <5> QED BY <1>3, <1>5, <4>2, <5>1
      <4> QED BY <1>5, <1>6, <4>2, <4>3 DEF accepts
    <3> QED BY <2>3, <3>1, <3>2 DEF ReceiptOK
  <2>8. CallOK(v, objects', runs, ops)
    BY <2>2, <2>3, <2>5, <2>6, <2>7 DEF CallOK, GoalOK, RetireOK, Preparing
  <2>9. SendsOnce'
    <3>1. \A g \in Handlers : Rotating(g)' => Rotating(g) /\ calls'[g] = calls[g]
      BY <1>2, <2>1, <2>3 DEF Rotating
    <3> QED BY <1>1, <1>3, <2>2, <3>1, LandedOnce
  <2> QED BY <1>1, <1>2, <2>1, <2>2, <2>3, <2>8, <2>9, InvParts, Gather
<1>7. CASE ~accepts(q) /\ UNCHANGED objects /\ go(h, a, "fenceRead")
  <2> DEFINE v == [a EXCEPT !.pc = "fenceRead"]
             m == a.todo
  <2>1. calls' = [calls EXCEPT ![h] = v]
    BY <1>7 DEF go
  <2>2. w.tries + 1 \in Nat /\ w.goal \in {"take", "expire", "rotate"}
    BY <1>2, <1>3 DEF Calls
  <2>3. m = [q EXCEPT !.fence = FALSE, !.effect = w.goal]
    BY <1>2, <1>3 DEF Calls, Writes
  <2>4. m \in Writes /\ m.id = q.id /\ m.obj = q.obj /\ m.gen = q.gen /\ m.effect = w.goal
    <3> HIDE DEF m
    <3> QED BY <1>3, <2>2, <2>3 DEF Writes
  <2>5. /\ a \in Calls /\ a.run = w.run /\ a.n = w.n
        /\ a.goal = w.goal /\ a.receipt = w.receipt
        /\ a.leaseGen = w.leaseGen /\ a.snapGen = w.snapGen /\ a.proof = w.proof
    <3>1. a = [w EXCEPT !.tries = w.tries + 1, !.todo = m]
      BY <1>2, <2>3 DEF Calls
    <3> HIDE DEF a, m
    <3> QED BY <1>2, <2>2, <2>4, <3>1 DEF Calls
  <2> HIDE DEF a, m
  <2>6. /\ v \in Calls /\ v.run = w.run /\ v.n = w.n /\ v.pc = "fenceRead" /\ v.todo = m
        /\ v.goal = w.goal /\ v.receipt = NoReceipt
        /\ v.leaseGen = w.leaseGen /\ v.snapGen = w.snapGen /\ v.proof = w.proof
    BY <1>3, <2>5 DEF Calls, Places, m
  <2> HIDE DEF v
  <2>7. Core(v, objects, runs, ops)
    BY <1>2, <2>6, CoreKept
  <2>8. Shape(v)
    BY <1>3, <2>4, <2>6 DEF Shape, Preparing, Sending, Answering, Fencing, Listed
  <2>9. SentOK(m, objects, runs, ops)
    <3>1. Named(m, runs) <=> Named(q, runs)
      BY <2>4 DEF Named
    <3>2. Dead(q, objects) => Dead(m, objects)
      BY <2>4 DEF Dead
    <3>3. Sound(m, objects) /\ Numbered(m, runs, ops)
      BY <1>3, <1>4, <1>5, <2>4 DEF SentOK, Sound, Numbered
    <3>4. Named(q, runs) => runs[w.run].op.mutation.effect = w.goal
      BY <1>1, <1>2, <1>3 DEF CallOK, GoalOK
    <3>5. Fenced(m, objects, runs)
      BY <1>3, <1>4, <2>2, <2>4, <3>1, <3>2, <3>4 DEF SentOK, Fenced
    <3> QED BY <3>3, <3>5 DEF SentOK
  <2>10. CallOK(v, objects, runs, ops)
    BY <2>6, <2>7, <2>8, <2>9 DEF CallOK, GoalOK, RetireOK, ReceiptOK, Preparing
  <2> QED BY <1>1, <1>2, <1>7, <2>1, <2>6, <2>10, CallStep
<1>8. CASE UNCHANGED objects /\ abort(h)
  BY <1>1, <1>2, <1>8, AbortStep
<1> QED BY <1>6, <1>7, <1>8 DEF FenceSave

LEMMA LateWriteStep ==
  ASSUME CredentialsInv, NEW q \in net, LateWrite(q) PROVE CredentialsInv'
<1>1. /\ net' = net \ {q} /\ UNCHANGED <<runs, calls, faults, ops>>
      /\ objects' = IF accepts(q) THEN committed(q) ELSE objects
  BY DEF LateWrite
<1>2. q \in Writes /\ SentOK(q, objects, runs, ops) /\ net' \subseteq net
  BY <1>1, InvParts
<1>3. CASE accepts(q)
  <2>1. /\ Stable(objects', runs, ops)
        /\ \A g \in Handlers : CallOK(calls[g], objects', runs, ops)
        /\ \A x \in net : SentOK(x, objects', runs, ops)
        /\ auth'.receipt # auth.receipt => q.effect = "rotate" /\ auth'.receipt.id = q.id
    BY <1>1, <1>2, <1>3, Landed
  <2>2. SendsOnce'
    <3>1. \A g \in Handlers : Rotating(g)' => Rotating(g) /\ calls'[g] = calls[g]
      BY <1>1 DEF Rotating
    <3>2. \A g \in Handlers : Rotating(g) => (q.effect = "rotate" => q.id # calls[g].todo.id)
      BY InvParts DEF SendsOnce
    <3> QED BY <1>2, <2>1, <3>1, <3>2, LandedOnce
  <2>3. CredentialsTypeOK'
    BY <1>1, <2>1 DEF CredentialsInv, CredentialsTypeOK, Stable
  <2> QED BY <1>1, <2>1, <2>2, <2>3 DEF CredentialsInv, Stable
<1>4. CASE ~accepts(q)
  <2>1. CredentialsTypeOK'
    BY <1>1, <1>4 DEF CredentialsInv, CredentialsTypeOK
  <2>2. SendsOnce'
    BY <1>1, <1>4, InvParts DEF SendsOnce, Rotating, auth
  <2> QED BY <1>1, <1>4, <2>1, <2>2 DEF CredentialsInv
<1> QED BY <1>3, <1>4

LEMMA LeaseExpiresStep ==
  ASSUME CredentialsInv, LeaseExpires PROVE CredentialsInv'
<1>1. /\ objects' = [objects EXCEPT !["lease"].alive = FALSE]
      /\ UNCHANGED <<runs, calls, net, ops>>
  BY DEF LeaseExpires
<1>2. /\ objects \in Buckets /\ runs \in AllJournals /\ ops \in Nat
      /\ BucketOK(objects, runs, ops) /\ \A c \in Runs : RunOK(c, objects, runs, ops)
  BY InvParts DEF Stable
<1> DEFINE l == [objects["lease"] EXCEPT !.alive = FALSE]
<1>3. objects["lease"] \in Objects
  BY <1>2 DEF Buckets
<1>4. /\ l \in Objects /\ l.gen = objects["lease"].gen /\ l.by = objects["lease"].by
      /\ l.owner = objects["lease"].owner
  BY <1>3 DEF Objects
<1>5. ~l.alive
  BY <1>3 DEF Objects
<1>6. objects' = [objects EXCEPT !["lease"] = l]
  BY <1>1
<1> HIDE DEF l
<1>7. objects' \in Buckets /\ objects'["lease"] = l /\ objects'["auth"] = objects["auth"]
  BY <1>2, <1>4, <1>6 DEF Buckets
<1>8. LeaseMoves(objects, objects', runs) /\ AuthMoves(objects, objects', runs)
  BY <1>4, <1>5, <1>7 DEF LeaseMoves, AuthMoves
<1>9. BucketOK(objects', runs, ops) /\ \A c \in Runs : RunOK(c, objects', runs, ops)
  BY <1>2, <1>7, <1>8, BucketMoves, RunMoves
<1>10. \A g \in Handlers : CallOK(calls[g], objects', runs, ops)
  BY <1>2, <1>7, <1>8, InvParts, CallMoves
<1>11. \A p \in net : SentOK(p, objects', runs, ops)
  BY <1>2, <1>7, <1>8, InvParts, SentMoves
<1>12. SendsOnce'
  BY <1>1, <1>7, InvParts DEF SendsOnce, Rotating, auth
<1>13. CredentialsTypeOK'
  <2>1. faults' \in Nat
    BY InvParts DEF LeaseExpires
  <2> QED BY <1>1, <1>7, <2>1 DEF CredentialsInv, CredentialsTypeOK
<1> QED BY <1>1, <1>9, <1>10, <1>11, <1>12, <1>13 DEF CredentialsInv

-----------------------------------------------------------------------------
(* Steps that change a journal *)

(* The rest of the state after the journal of one run has moved.           *)
LEMMA JournalStep ==
  ASSUME CredentialsInv, NEW c \in Runs, NEW r \in Journals,
         runs' = [runs EXCEPT ![c] = r], ops' \in {ops, ops + 1},
         OpMoves(c, runs[c].op, r.op, objects, ops),
         RunOK(c, objects, runs', ops'),
         auth.receipt # NoReceipt /\ ~Named(auth.receipt, runs')
           => runs'[auth.receipt.id[1]].receipt = auth.receipt
  PROVE  /\ Stable(objects, runs', ops')
         /\ \A g \in Handlers : CallOK(calls[g], objects, runs', ops')
         /\ \A p \in net : SentOK(p, objects, runs', ops')
<1>1. /\ objects \in Buckets /\ runs \in AllJournals /\ ops \in Nat
      /\ BucketOK(objects, runs, ops) /\ \A d \in Runs : RunOK(d, objects, runs, ops)
  BY InvParts DEF Stable
<1>2. runs' \in AllJournals /\ runs'[c] = r /\ \A d \in Runs : d # c => runs'[d] = runs[d]
  BY <1>1 DEF AllJournals
<1>3. JournalMoves(runs, runs', objects, ops)
  <2>1. ASSUME NEW d \in Runs PROVE OpMoves(d, runs[d].op, runs'[d].op, objects, ops)
    <3>1. CASE d = c
      BY <1>2, <3>1
    <3>2. CASE d # c
      BY <1>2, <3>2 DEF OpMoves
    <3> QED BY <3>1, <3>2
  <2> QED BY <2>1 DEF JournalMoves
<1>4. \A d \in Runs : RunOK(d, objects, runs', ops')
  <2>1. ASSUME NEW d \in Runs, d # c PROVE RunOK(d, objects, runs', ops')
    <3>1. runs'[d] = runs[d] /\ RunOK(d, objects, runs, ops)
      BY <1>1, <1>2, <2>1
    <3>2. runs[d].op.n \in Nat
      BY <1>1 DEF AllJournals, Journals, Operations
    <3>3. runs[d].op.n <= ops'
      BY <1>1, <3>1, <3>2 DEF RunOK
    <3> QED BY <3>1, <3>3 DEF RunOK
  <2> QED BY <2>1
<1>5. BucketOK(objects, runs', ops')
  BY <1>1, <1>2, <1>3, BucketJournal DEF auth
<1>6. Stable(objects, runs', ops')
  <2>1. ops' \in Nat
    BY <1>1
  <2> QED BY <1>1, <1>2, <1>4, <1>5, <2>1 DEF Stable
<1>7. \A g \in Handlers : CallOK(calls[g], objects, runs', ops')
  BY <1>1, <1>2, <1>3, InvParts, CallJournal
<1>8. \A p \in net : SentOK(p, objects, runs', ops')
  BY <1>1, <1>2, <1>3, InvParts, SentJournal
<1> QED BY <1>6, <1>7, <1>8

(* A journal that keeps its receipt and clears no mutation remembers what  *)
(* it remembered.                                                          *)
LEMMA ReceiptKept ==
  ASSUME CredentialsInv, NEW c \in Runs, NEW r, runs' = [runs EXCEPT ![c] = r],
         r.receipt = runs[c].receipt,
         runs[c].op.mutation = NoWrite \/ r.op.mutation = runs[c].op.mutation
  PROVE  auth.receipt # NoReceipt /\ ~Named(auth.receipt, runs')
           => runs'[auth.receipt.id[1]].receipt = auth.receipt
<1> SUFFICES ASSUME auth.receipt # NoReceipt, ~Named(auth.receipt, runs')
             PROVE  runs'[auth.receipt.id[1]].receipt = auth.receipt
  OBVIOUS
<1> DEFINE found == auth.receipt
           d == found.id[1]
<1>1. /\ objects \in Buckets /\ runs \in AllJournals /\ BucketOK(objects, runs, ops)
  BY InvParts DEF Stable
<1>2. found \in Receipts
  BY <1>1 DEF Buckets, Objects, auth
<1>3. found.id \in Idents /\ d \in Runs
  BY <1>2, NoReceiptIsNone, IdentParts
<1>4. runs'[c] = r /\ \A e \in Runs : e # c => runs'[e] = runs[e]
  BY <1>1 DEF AllJournals
<1>5. NoWrite.id # found.id
  BY <1>3, EmptyIdent DEF NoWrite
<1>6. runs'[d].receipt = runs[d].receipt
  BY <1>3, <1>4
<1>7. ~Named(found, runs)
  BY <1>3, <1>4, <1>5 DEF Named
<1>8. runs[d].receipt = found
  BY <1>1, <1>7 DEF BucketOK, auth
<1> QED BY <1>6, <1>8

LEMMA JournalGather ==
  ASSUME CredentialsInv, NEW h \in Handlers, NEW v \in Calls,
         calls' = [calls EXCEPT ![h] = v], v.pc # "save", Stable(objects, runs', ops'),
         \A g \in Handlers : CallOK(calls[g], objects, runs', ops'),
         \A p \in net : SentOK(p, objects, runs', ops'),
         CallOK(v, objects, runs', ops'), UNCHANGED <<objects, net, faults>>
  PROVE  CredentialsInv'
<1>1. calls \in [Handlers -> Calls]
  BY DEF CredentialsInv, CredentialsTypeOK
<1>2. SendsOnce'
  <2>1. \A g \in Handlers : Rotating(g)' => Rotating(g) /\ calls'[g] = calls[g]
    BY <1>1 DEF Rotating
  <2>2. auth' = auth
    BY DEF auth
  <2> QED BY <2>1, <2>2, InvParts DEF SendsOnce
<1> QED BY <1>2, InvParts, Gather

LEMMA NewOpFields ==
  ASSUME NEW kind \in Kinds, ops \in Nat
  PROVE  /\ newOp(kind) \in Operations /\ newOp(kind).n = ops + 1 /\ newOp(kind).seq = 0
         /\ newOp(kind).mutation = NoWrite /\ newOp(kind).kind = kind
BY DEF newOp, Operations

(* A new operation of a run that has none.                                 *)
LEMMA ReserveStep ==
  ASSUME CredentialsInv, NEW c \in Runs, ~hasOp(c), NEW kind \in Kinds, NEW r \in Journals,
         r.op = newOp(kind), r.receipt = runs[c].receipt, r.heldGen = runs[c].heldGen,
         ~r.live => kind = "cleanup",
         runs' = [runs EXCEPT ![c] = r], ops' = ops + 1
  PROVE  /\ Stable(objects, runs', ops')
         /\ \A g \in Handlers : CallOK(calls[g], objects, runs', ops')
         /\ \A p \in net : SentOK(p, objects, runs', ops')
<1>1. /\ ops \in Nat /\ RunOK(c, objects, runs, ops) /\ runs \in AllJournals
      /\ runs[c].op = NoOp
  BY RunFacts, InvParts DEF Stable, hasOp
<1>2. /\ r.op.n = ops + 1 /\ r.op.seq = 0 /\ r.op.mutation = NoWrite /\ r.op.kind = kind
  BY <1>1, NewOpFields
<1>3. runs'[c] = r
  BY <1>1 DEF AllJournals
<1>4. OpMoves(c, runs[c].op, r.op, objects, ops)
  BY <1>1, <1>2, NoOpFields DEF OpMoves
<1>5. r.op # NoOp
  BY <1>1, <1>2, NoOpFields
<1>6. RunOK(c, objects, runs', ops')
  <2>1. r.op.n <= ops' /\ r.op.seq <= MaxSequence /\ r.op.n # 0
    BY <1>1, <1>2, CredentialsAssumption
  <2> QED BY <1>1, <1>2, <1>3, <1>5, <2>1 DEF RunOK
<1>7. auth.receipt # NoReceipt /\ ~Named(auth.receipt, runs')
        => runs'[auth.receipt.id[1]].receipt = auth.receipt
  BY <1>1, NoOpFields, ReceiptKept
<1>8. ops' \in {ops, ops + 1}
  OBVIOUS
<1> QED BY <1>4, <1>6, <1>7, <1>8, JournalStep

LEMMA BeginStep ==
  ASSUME CredentialsInv, NEW h \in Handlers, NEW c \in Runs, NEW kind \in Kinds,
         NEW rotated \in BOOLEAN, Begin(h, c, kind, rotated)
  PROVE  CredentialsInv'
<1> DEFINE r == [runs[c] EXCEPT !.op = newOp(kind)]
           x == [NoCall EXCEPT !.run = c, !.kind = kind, !.n = ops + 1, !.rotated = rotated]
           p == CASE kind = "restore" -> "acquire" [] kind = "renew" -> "renew"
                  [] kind = "persist" -> "persist" [] kind = "cleanup" -> "finish"
           v == [x EXCEPT !.pc = p]
<1>1. /\ ~hasOp(c) /\ (runs[c].live <=> kind # "cleanup") /\ ops' = ops + 1
      /\ runs' = [runs EXCEPT ![c].op = newOp(kind)]
      /\ calls' = [calls EXCEPT ![h] = v] /\ UNCHANGED <<objects, net, faults>>
  BY DEF Begin, reserve, go
<1>2. runs[c] \in Journals /\ ops \in Nat
  BY RunFacts
<1>3. newOp(kind) \in Operations
  BY <1>2, NewOpFields
<1>4. /\ r \in Journals /\ r.op = newOp(kind) /\ r.receipt = runs[c].receipt
      /\ r.heldGen = runs[c].heldGen
  BY <1>2, <1>3 DEF Journals
<1>5. ~r.live => kind = "cleanup"
  BY <1>1, <1>2 DEF Journals
<1>6. runs' = [runs EXCEPT ![c] = r]
  BY <1>1
<1>7. p \in {"acquire", "renew", "persist", "finish"}
  BY DEF Kinds
<1> HIDE DEF r, p
<1>8. /\ Stable(objects, runs', ops')
      /\ \A g \in Handlers : CallOK(calls[g], objects, runs', ops')
      /\ \A q \in net : SentOK(q, objects, runs', ops')
  <2> HIDE DEF x, v
  <2>1. ~hasOp(c) /\ ops' = ops + 1
    BY <1>1
  <2> QED BY <1>4, <1>5, <1>6, <2>1, ReserveStep
<1>9. /\ x \in Calls /\ x.run = c /\ x.n = ops + 1 /\ x.leaseGen = 0 /\ x.snapGen = 0
      /\ x.proof = NoProof
  <2>1. ops + 1 \in Nat
    BY <1>2
  <2> QED BY <2>1, NoCallFields DEF Calls
<1> HIDE DEF x
<1>10. /\ v \in Calls /\ v.pc = p /\ v.run = c /\ v.n = ops + 1 /\ v.leaseGen = 0
       /\ v.snapGen = 0 /\ v.proof = NoProof
  BY <1>7, <1>9 DEF Calls, Places
<1> HIDE DEF v
<1>11. v.n \in 1..ops'
  BY <1>1, <1>2, <1>10
<1>12. CallOK(v, objects, runs', ops') /\ v.pc # "save"
  BY <1>7, <1>8, <1>10, <1>11, CoreFresh, QuietCall DEF QuietPlaces
<1> QED BY <1>1, <1>8, <1>10, <1>12, JournalGather

LEMMA SettleRunStep ==
  ASSUME CredentialsInv, NEW c \in Runs, SettleRun(c) PROVE CredentialsInv'
<1>1. UNCHANGED <<objects, calls, net, faults>>
  BY DEF SettleRun
<1>2. runs[c] \in Journals /\ ops \in Nat /\ runs[c].op \in Operations
      /\ RunOK(c, objects, runs, ops) /\ runs \in AllJournals
  BY RunFacts, InvParts DEF Stable
<1>3. /\ Stable(objects, runs', ops')
      /\ \A g \in Handlers : CallOK(calls[g], objects, runs', ops')
      /\ \A q \in net : SentOK(q, objects, runs', ops')
  <2>1. CASE hasOp(c) /\ runs' = [runs EXCEPT ![c].pending = TRUE] /\ UNCHANGED ops
    <3> DEFINE r == [runs[c] EXCEPT !.pending = TRUE]
    <3>1. /\ r \in Journals /\ r.op = runs[c].op /\ r.receipt = runs[c].receipt
          /\ r.heldGen = runs[c].heldGen
      BY <1>2 DEF Journals
    <3>2. r.live = runs[c].live
      BY <1>2, Zenon DEF Journals
    <3>3. runs' = [runs EXCEPT ![c] = r]
      BY <2>1
    <3> HIDE DEF r
    <3>4. runs'[c] = r
      BY <1>2, <3>3 DEF AllJournals
    <3>5. OpMoves(c, runs[c].op, r.op, objects, ops)
      BY <3>1 DEF OpMoves
    <3>6. RunOK(c, objects, runs', ops')
      BY <1>2, <2>1, <3>1, <3>2, <3>4 DEF RunOK
    <3>7. auth.receipt # NoReceipt /\ ~Named(auth.receipt, runs')
            => runs'[auth.receipt.id[1]].receipt = auth.receipt
      BY <3>1, <3>3, ReceiptKept
    <3>8. ops' \in {ops, ops + 1}
      BY <2>1
    <3> QED BY <3>1, <3>3, <3>5, <3>6, <3>7, <3>8, JournalStep
  <2>2. CASE /\ ~hasOp(c) /\ ops' = ops + 1
             /\ runs' = [runs EXCEPT ![c].live = FALSE, ![c].op = newOp("cleanup")]
    <3> DEFINE r == [runs[c] EXCEPT !.live = FALSE, !.op = newOp("cleanup")]
    <3>1. "cleanup" \in Kinds /\ newOp("cleanup") \in Operations
      BY <1>2, NewOpFields DEF Kinds
    <3>2. /\ r \in Journals /\ r.op = newOp("cleanup") /\ r.receipt = runs[c].receipt
          /\ r.heldGen = runs[c].heldGen
      BY <1>2, <3>1 DEF Journals
    <3>3. runs' = [runs EXCEPT ![c] = r]
      BY <1>2, <2>2 DEF AllJournals
    <3> HIDE DEF r
    <3> QED BY <2>2, <3>1, <3>2, <3>3, ReserveStep
  <2> QED BY <2>1, <2>2 DEF SettleRun
<1>4. SendsOnce'
  BY <1>1, InvParts DEF SendsOnce, Rotating, auth
<1>5. CredentialsTypeOK'
  BY <1>1, <1>3 DEF CredentialsInv, CredentialsTypeOK, Stable
<1> QED BY <1>1, <1>3, <1>4, <1>5 DEF CredentialsInv, Stable

LEMMA FinishStep ==
  ASSUME CredentialsInv, NEW h \in Handlers, Finish(h) PROVE CredentialsInv'
<1> DEFINE w == calls[h]
           c == w.run
           served == w.kind = "restore" /\ w.phase = "main" /\ ~w.tick
           answers == served /\ ~runs[c].pending
           r == [runs[c] EXCEPT !.op = NoOp, !.restored = @ \/ served,
                                !.live = @ /\ ~runs[c].pending, !.pending = FALSE,
                                !.heldGen = IF answers THEN w.snapGen ELSE @]
<1>1. w.pc = "finish" /\ UNCHANGED <<objects, net, faults, ops>>
  BY DEF Finish
<1>2. /\ w \in Calls /\ Stable(objects, runs, ops) /\ Core(w, objects, runs, ops)
      /\ c \in Runs /\ faults' \in Nat
  BY <1>1, ActiveCall
<1>3. /\ runs[c] \in Journals /\ ops \in Nat /\ runs[c].op \in Operations
      /\ RunOK(c, objects, runs, ops) /\ runs \in AllJournals
  BY <1>2, RunFacts, InvParts DEF Stable
<1>4. CASE abort(h) /\ UNCHANGED runs
  BY <1>1, <1>2, <1>4, AbortStep
<1>5. CASE go(h, w, "resolve") /\ UNCHANGED runs
  <2>1. "resolve" \in QuietPlaces
    BY DEF QuietPlaces
  <2> QED BY <1>1, <1>5, <2>1, QuietAgain
<1>6. CASE /\ finishes(w) /\ runs' = [runs EXCEPT ![c] = r]
           /\ calls' = [calls EXCEPT ![h] = NoCall]
  <2>1. /\ Current(w, runs) /\ runs[c].op # NoOp /\ runs[c].op.mutation = NoWrite
        /\ runs[c].op.kind = "cleanup" \/ runs[c].pending => w.proof = runs[c].op.seq
    BY <1>6 DEF finishes, mine, hasOp, needsProof, Current
  <2>2. w.snapGen \in Nat /\ runs[c].heldGen \in Nat
    BY <1>2, <1>3 DEF Calls, Journals
  <2>3. /\ r \in Journals /\ r.op = NoOp /\ r.receipt = runs[c].receipt
        /\ r.heldGen \in {w.snapGen, runs[c].heldGen}
    BY <1>3, <2>2, NoOpFields DEF Journals
  <2>4. ~r.live => ~runs[c].live \/ runs[c].pending
    BY <1>3 DEF Journals
  <2>5. runs' = [runs EXCEPT ![c] = r]
    BY <1>6
  <2> HIDE DEF r
  <2>6. runs'[c] = r
    BY <1>2, <1>3, <2>5 DEF AllJournals
  <2>7. OpMoves(c, runs[c].op, r.op, objects, ops)
    BY <1>2, <2>1, <2>3, NoOpFields DEF OpMoves, Current, Core
  <2>8. ~r.live => ~Holds(c, objects)
    <3>1. ~runs[c].live => runs[c].op.kind = "cleanup"
      BY <1>3, <2>1 DEF RunOK
    <3> QED BY <1>2, <2>1, <2>4, <3>1 DEF Core, ProofOK
  <2>9. RunOK(c, objects, runs', ops')
    <3>1. r.heldGen <= objects["auth"].gen
      BY <1>2, <1>3, <2>3 DEF Core, RunOK
    <3>2. 0 <= ops' /\ 0 <= MaxSequence
      BY <1>1, <1>3, CredentialsAssumption
    <3> QED BY <2>3, <2>6, <2>8, <3>1, <3>2, NoOpFields DEF RunOK
  <2>10. auth.receipt # NoReceipt /\ ~Named(auth.receipt, runs')
           => runs'[auth.receipt.id[1]].receipt = auth.receipt
    BY <1>2, <2>1, <2>3, <2>5, ReceiptKept
  <2>11. ops' \in {ops, ops + 1}
    BY <1>1
  <2>12. /\ Stable(objects, runs', ops')
         /\ \A g \in Handlers : CallOK(calls[g], objects, runs', ops')
         /\ \A q \in net : SentOK(q, objects, runs', ops')
    BY <1>2, <2>3, <2>5, <2>7, <2>9, <2>10, <2>11, JournalStep
  <2>13. NoCall \in Calls /\ NoCall.pc # "save" /\ CallOK(NoCall, objects, runs', ops')
    BY NoCallFields, IdleCall
  <2> QED BY <1>1, <1>6, <2>12, <2>13, JournalGather
<1> QED BY <1>4, <1>5, <1>6 DEF Finish

LEMMA PrepareStep ==
  ASSUME CredentialsInv, NEW h \in Handlers, Prepare(h) PROVE CredentialsInv'
<1> DEFINE w == calls[h]
           c == w.run
           q == w.todo
           op == runs[c].op
           o == [op EXCEPT !.mutation = q, !.seq = @ + 1]
           r == [runs[c] EXCEPT !.op = o]
<1>1. w.pc = "prepare" /\ UNCHANGED <<objects, net, faults, ops>>
  BY DEF Prepare
<1>2. /\ w \in Calls /\ Stable(objects, runs, ops) /\ Core(w, objects, runs, ops)
      /\ c \in Runs /\ faults' \in Nat /\ Shape(w) /\ CallOK(w, objects, runs, ops)
      /\ calls \in [Handlers -> Calls] /\ w.n \in Nat /\ w.n # 0 /\ w.n <= ops
  BY <1>1, ActiveCall, InvParts DEF CredentialsInv, CredentialsTypeOK, Core, Calls
<1>3. /\ runs[c] \in Journals /\ ops \in Nat /\ op \in Operations /\ op.seq \in Nat /\ op.n \in Nat
      /\ RunOK(c, objects, runs, ops) /\ runs \in AllJournals
  BY <1>2, RunFacts, InvParts DEF Stable
<1>4. CASE ~prepares(w) /\ abort(h) /\ UNCHANGED runs
  BY <1>1, <1>2, <1>4, AbortStep
<1>5. CASE /\ prepares(w) /\ go(h, w, "save")
           /\ runs' = [runs EXCEPT ![c].op.mutation = q, ![c].op.seq = @ + 1]
  <2> DEFINE v == [w EXCEPT !.pc = "save"]
  <2>1. /\ q \in Writes /\ q.id[1] = c /\ q.id[2] = w.n /\ w.ok /\ q.effect # "keep"
        /\ w.goal = "acquire" => q.effect = "take"
        /\ w.goal = "rotate" <=> q.effect = "rotate"
        /\ w.goal = "retire" => q.effect = "expire"
        /\ Sound(q, objects)
    BY <1>1, <1>2 DEF Shape, CallOK, Preparing
  <2>2. /\ op # NoOp /\ op.n = w.n /\ op.mutation = NoWrite /\ q.id[3] = op.seq + 1
        /\ op.seq < MaxSequence
    BY <1>5 DEF prepares, mine, hasOp
  <2>3. q.id \in Idents /\ q.id = <<c, op.n, op.seq + 1>>
    BY <2>1, <2>2, IdentParts DEF Writes
  <2>4. runs' = [runs EXCEPT ![c] = r]
    BY <1>2, <1>3, <1>5 DEF AllJournals, Journals
  <2>5. /\ o \in Operations /\ o.n = op.n /\ o.seq = op.seq + 1 /\ o.mutation = q
        /\ o.kind = op.kind
    <3>1. op.seq + 1 \in Nat
      BY <1>3
    <3> HIDE DEF op
    <3> QED BY <1>3, <2>1, <3>1 DEF Operations
  <2> HIDE DEF o, op
  <2>6. /\ r \in Journals /\ r.op = o /\ r.receipt = runs[c].receipt
        /\ r.heldGen = runs[c].heldGen
    BY <1>3, <2>5 DEF Journals
  <2>7. r.live = runs[c].live
    BY <1>3, Zenon DEF Journals
  <2> HIDE DEF r
  <2>8. runs'[c] = r
    BY <1>2, <1>3, <2>4 DEF AllJournals
  <2>9. OpMoves(c, runs[c].op, r.op, objects, ops)
    <3>1. o.seq # op.seq /\ o.seq <= MaxSequence
      BY <1>3, <2>2, <2>5, CredentialsAssumption
    <3> QED BY <2>2, <2>3, <2>5, <2>6, <3>1 DEF OpMoves, op
  <2>10. RunOK(c, objects, runs', ops')
    <3>1. op.n <= ops' /\ op.n # 0 /\ o.seq <= MaxSequence
      BY <1>1, <1>2, <1>3, <2>2, <2>5, CredentialsAssumption
    <3>2. o # NoOp
      BY <2>5, <3>1, NoOpFields
    <3>3. ~r.live => op.kind = "cleanup"
      BY <1>3, <2>2, <2>7 DEF RunOK, op
    <3>4. r.heldGen <= objects["auth"].gen
      BY <1>3, <2>6 DEF RunOK
    <3> QED BY <2>1, <2>3, <2>5, <2>6, <2>8, <3>1, <3>2, <3>3, <3>4 DEF RunOK
  <2>11. auth.receipt # NoReceipt /\ ~Named(auth.receipt, runs')
           => runs'[auth.receipt.id[1]].receipt = auth.receipt
    BY <1>2, <2>2, <2>4, <2>6, ReceiptKept DEF op
  <2>12. ops' \in {ops, ops + 1}
    BY <1>1
  <2>13. /\ Stable(objects, runs', ops')
         /\ \A g \in Handlers : CallOK(calls[g], objects, runs', ops')
         /\ \A p \in net : SentOK(p, objects, runs', ops')
    BY <1>2, <2>4, <2>6, <2>9, <2>10, <2>11, <2>12, JournalStep
  <2>14. calls' = [calls EXCEPT ![h] = v]
    BY <1>5 DEF go
  <2>15. /\ v \in Calls /\ v.run = c /\ v.n = w.n /\ v.pc = "save" /\ v.todo = q
         /\ v.goal = w.goal /\ v.receipt = w.receipt
         /\ v.leaseGen = w.leaseGen /\ v.snapGen = w.snapGen /\ v.proof = w.proof
    BY <1>2 DEF Calls, Places
  <2>16. v.ok
    BY <1>2, <2>1 DEF Calls
  <2> HIDE DEF v
  <2>17. Core(w, objects, runs', ops')
    BY <1>1, <2>13 DEF CallOK
  <2>18. Core(v, objects, runs', ops')
    BY <2>13, <2>15, <2>17, CoreKept
  <2>19. Shape(v)
    BY <2>1, <2>15, <2>16 DEF Shape, Preparing, Sending, Answering, Fencing, Listed
  <2>20. SentOK(q, objects, runs', ops')
    <3>1. runs'[q.id[1]].op = o
      BY <2>1, <2>6, <2>8
    <3>2. Named(q, runs')
      BY <2>5, <3>1 DEF Named
    <3>3. Fenced(q, objects, runs')
      BY <2>1, <2>5, <3>1, <3>2 DEF Fenced
    <3>4. q.id[2] \in 1..ops' /\ q.id[3] <= o.seq
      BY <1>1, <1>2, <1>3, <2>1, <2>2, <2>5
    <3>5. Numbered(q, runs', ops')
      BY <3>1, <3>4 DEF Numbered
    <3> QED BY <2>1, <3>3, <3>5 DEF SentOK
  <2>21. RetireOK(v, objects, runs')
    <3>1. ASSUME w.goal = "retire", Dead(q, objects) PROVE ~Holds(c, objects)
      <4>1. Current(w, runs)
        BY <2>2 DEF Current, op
      <4>2. runs[c].op.seq = q.id[3] - 1
        BY <1>3, <2>2 DEF op
      <4> QED BY <1>1, <1>2, <3>1, <4>1, <4>2 DEF CallOK, RetireOK
    <3> QED BY <2>15, <3>1 DEF RetireOK
  <2>22. CallOK(v, objects, runs', ops')
    BY <2>15, <2>18, <2>19, <2>20, <2>21 DEF CallOK, ReceiptOK, GoalOK, Preparing
  <2>23. ASSUME NEW p, Numbered(p, runs, ops) PROVE p.id # q.id
    <3>1. SUFFICES ASSUME p.id = q.id PROVE FALSE
      OBVIOUS
    <3>2. p.id[1] = c /\ p.id[2] = op.n /\ p.id[3] = op.seq + 1
      BY <2>1, <2>2, <3>1
    <3>3. op.seq + 1 <= op.seq
      BY <2>23, <3>2 DEF Numbered, op
    <3> QED BY <1>3, <3>3 DEF op
  <2>24. SendsOnce'
    <3>1. ASSUME NEW g \in Handlers, Rotating(g)', g # h
          PROVE  /\ Rotating(g) /\ calls'[g] = calls[g] /\ calls[g].todo.id # q.id
      <4>1. calls'[g] = calls[g] /\ Rotating(g)
        BY <1>2, <2>14, <3>1 DEF Rotating
      <4>2. SentOK(calls[g].todo, objects, runs, ops)
        BY <4>1, InvParts DEF CallOK, Rotating, Sending, Answering
      <4> QED BY <2>23, <4>1, <4>2 DEF SentOK
    <3>2. calls'[h].todo.id = q.id
      BY <1>2, <2>14, <2>15
    <3>3. \A p \in net : p.id # q.id
      BY <2>23, InvParts DEF SentOK
    <3>4. auth.receipt.id # q.id
      <4>1. CASE auth.receipt = NoReceipt
        BY <2>3, <4>1, EmptyIdent DEF NoReceipt
      <4>2. CASE auth.receipt # NoReceipt
        BY <1>2, <2>23, <4>2 DEF Stable, BucketOK, auth
      <4> QED BY <4>1, <4>2
    <3>5. auth' = auth /\ net' = net
      BY <1>1 DEF auth
    <3>6. ASSUME NEW g \in Handlers, Rotating(g)'
          PROVE  /\ auth'.receipt.id # calls'[g].todo.id
                 /\ \A p \in net' : p.effect = "rotate" => p.id # calls'[g].todo.id
                 /\ \A k \in Handlers : Rotating(k)' /\ k # g => calls'[k].todo.id # calls'[g].todo.id
      <4>1. CASE g = h
        BY <3>1, <3>2, <3>3, <3>4, <3>5, <4>1
      <4>2. CASE g # h
        <5>1. Rotating(g) /\ calls'[g] = calls[g] /\ calls[g].todo.id # q.id
          BY <3>1, <3>6, <4>2
        <5>2. /\ auth.receipt.id # calls[g].todo.id
              /\ \A p \in net : p.effect = "rotate" => p.id # calls[g].todo.id
              /\ \A k \in Handlers : Rotating(k) /\ k # g => calls[k].todo.id # calls[g].todo.id
          BY <5>1, InvParts DEF SendsOnce
        <5> QED BY <3>1, <3>2, <3>5, <5>1, <5>2
      <4> QED BY <4>1, <4>2
    <3> QED BY <3>6 DEF SendsOnce
  <2> QED BY <1>1, <1>2, <2>13, <2>14, <2>15, <2>22, <2>24, InvParts, Gather
<1> QED BY <1>4, <1>5 DEF Prepare

(* The journal clears a mutation whose generation has passed, and takes    *)
(* the receipt its call has found.                                         *)
LEMMA AckStep ==
  ASSUME CredentialsInv, NEW h \in Handlers, Sending(calls[h]), calls[h].pc # "idle",
         acknowledges(calls[h], calls[h].todo.id), Dead(calls[h].todo, objects),
         NEW rc \in Receipts, runs' = acknowledged(calls[h].run, rc), ops' = ops,
         auth.receipt # NoReceipt /\ auth.receipt.id[1] = calls[h].run =>
           /\ auth.receipt.id = calls[h].todo.id => rc = auth.receipt
           /\ rc # NoReceipt => rc = auth.receipt
  PROVE  /\ Stable(objects, runs', ops')
         /\ \A g \in Handlers : CallOK(calls[g], objects, runs', ops')
         /\ \A p \in net : SentOK(p, objects, runs', ops')
         /\ runs'[calls[h].run].op.seq = runs[calls[h].run].op.seq
         /\ runs'[calls[h].run].op.mutation = NoWrite
<1> DEFINE w == calls[h]
           c == w.run
           q == w.todo
           op == runs[c].op
           o == [op EXCEPT !.mutation = NoWrite]
           e == IF rc = NoReceipt THEN runs[c].receipt ELSE rc
           r == [runs[c] EXCEPT !.op = o, !.receipt = e]
<1>1. /\ w \in Calls /\ Stable(objects, runs, ops) /\ Core(w, objects, runs, ops)
      /\ c \in Runs /\ Shape(w) /\ CallOK(w, objects, runs, ops) /\ w.n # 0
  BY ActiveCall, InvParts DEF Core
<1>2. /\ runs[c] \in Journals /\ ops \in Nat /\ op \in Operations /\ op.seq \in Nat /\ op.n \in Nat
      /\ RunOK(c, objects, runs, ops) /\ runs \in AllJournals
  BY <1>1, RunFacts, InvParts DEF Stable
<1>3. q \in Writes /\ q.id[1] = c /\ SentOK(q, objects, runs, ops)
  BY <1>1 DEF Shape, CallOK
<1>4. op # NoOp /\ op.n = w.n /\ op.mutation.id = q.id /\ Named(q, runs)
  BY <1>3 DEF acknowledges, mine, hasOp, Named
<1>5. Dead(op.mutation, objects)
  BY <1>3, <1>4 DEF SentOK, Fenced, Dead
<1>6. runs' = [runs EXCEPT ![c] = r]
  BY <1>1, <1>2 DEF AllJournals, Journals, acknowledged
<1>7. /\ o \in Operations /\ o.n = op.n /\ o.seq = op.seq /\ o.mutation = NoWrite
      /\ o.kind = op.kind
  BY <1>2 DEF Operations
<1> HIDE DEF o, op
<1>8. e \in Receipts
  BY <1>2 DEF Journals
<1> HIDE DEF e
<1>9. /\ r \in Journals /\ r.op = o /\ r.receipt = e /\ r.heldGen = runs[c].heldGen
  BY <1>2, <1>7, <1>8 DEF Journals
<1>10. r.live = runs[c].live
  BY <1>2, Zenon DEF Journals
<1> HIDE DEF r
<1>11. runs'[c] = r /\ \A d \in Runs : d # c => runs'[d] = runs[d]
  BY <1>1, <1>2, <1>6 DEF AllJournals
<1>12. OpMoves(c, runs[c].op, r.op, objects, ops)
  BY <1>5, <1>7, <1>9 DEF OpMoves, op
<1>13. RunOK(c, objects, runs', ops')
  <2>1. o # NoOp
    BY <1>1, <1>4, <1>7, NoOpFields
  <2>2. /\ op.n <= ops /\ op.seq <= MaxSequence /\ r.heldGen <= objects["auth"].gen
        /\ ~r.live => op.kind = "cleanup"
    BY <1>2, <1>4, <1>9, <1>10 DEF RunOK, op
  <2> QED BY <1>1, <1>4, <1>7, <1>9, <1>11, <2>1, <2>2 DEF RunOK
<1>14. auth.receipt # NoReceipt /\ ~Named(auth.receipt, runs')
         => runs'[auth.receipt.id[1]].receipt = auth.receipt
  <2> SUFFICES ASSUME auth.receipt # NoReceipt, ~Named(auth.receipt, runs')
               PROVE  runs'[auth.receipt.id[1]].receipt = auth.receipt
    OBVIOUS
  <2> DEFINE found == auth.receipt
             d == found.id[1]
  <2>1. found \in Receipts
    BY <1>1 DEF Stable, Buckets, Objects, auth
  <2>2. d \in Runs
    BY <2>1, NoReceiptIsNone, IdentParts
  <2>3. ~Named(found, runs) => runs[d].receipt = found
    BY <1>1 DEF Stable, BucketOK, auth
  <2>4. CASE d # c
    BY <1>11, <2>2, <2>3, <2>4 DEF Named
  <2>5. CASE d = c
    <3>1. CASE found.id = q.id
      BY <1>9, <1>11, <2>5, <3>1 DEF e
    <3>2. CASE found.id # q.id
      <4>1. runs[c].receipt = found
        BY <1>4, <2>3, <2>5, <3>2 DEF Named, op
      <4> QED BY <1>9, <1>11, <2>5, <4>1 DEF e
    <3> QED BY <3>1, <3>2
  <2> QED BY <2>4, <2>5
<1>15. ops' \in {ops, ops + 1}
  OBVIOUS
<1>16. /\ Stable(objects, runs', ops')
       /\ \A g \in Handlers : CallOK(calls[g], objects, runs', ops')
       /\ \A p \in net : SentOK(p, objects, runs', ops')
  BY <1>1, <1>6, <1>9, <1>12, <1>13, <1>14, <1>15, JournalStep
<1> QED BY <1>7, <1>9, <1>11, <1>16 DEF op

(* After a step of its journal a call goes on where nothing is sent.       *)
LEMMA JournalQuiet ==
  ASSUME CredentialsInv, NEW h \in Handlers, NEW p \in QuietPlaces, NEW x \in Calls,
         Core(x, objects, runs', ops'), go(h, x, p), Stable(objects, runs', ops'),
         \A g \in Handlers : CallOK(calls[g], objects, runs', ops'),
         \A q \in net : SentOK(q, objects, runs', ops'), UNCHANGED <<objects, net, faults>>
  PROVE  CredentialsInv'
<1> DEFINE v == [x EXCEPT !.pc = p]
<1>1. /\ v \in Calls /\ v.pc = p /\ v.run = x.run /\ v.n = x.n /\ v.leaseGen = x.leaseGen
      /\ v.snapGen = x.snapGen /\ v.proof = x.proof
  BY DEF Calls, Places, QuietPlaces
<1>2. calls' = [calls EXCEPT ![h] = v]
  BY DEF go
<1> HIDE DEF v
<1>3. CallOK(v, objects, runs', ops')
  BY <1>1, CoreKept, QuietCall
<1>4. v.pc # "save"
  BY <1>1 DEF QuietPlaces
<1> QED BY <1>1, <1>2, <1>3, <1>4, JournalGather

LEMMA JournalAbort ==
  ASSUME CredentialsInv, NEW h \in Handlers, calls[h].pc # "idle", abort(h),
         Stable(objects, runs', ops'),
         \A g \in Handlers : CallOK(calls[g], objects, runs', ops'),
         \A q \in net : SentOK(q, objects, runs', ops'), UNCHANGED <<objects, net, faults>>
  PROVE  CredentialsInv'
<1> DEFINE v == abortedCall(calls[h])
<1>1. calls[h] \in Calls /\ Core(calls[h], objects, runs', ops')
  BY InvParts DEF CallOK
<1>2. v \in Calls /\ CallOK(v, objects, runs', ops') /\ v.pc # "save"
  BY <1>1, AbortCall
<1>3. calls' = [calls EXCEPT ![h] = v]
  BY DEF abort
<1> HIDE DEF v
<1> QED BY <1>2, <1>3, JournalGather

LEMMA AcknowledgeStep ==
  ASSUME CredentialsInv, NEW h \in Handlers, Acknowledge(h) PROVE CredentialsInv'
<1> DEFINE w == calls[h]
           c == w.run
           q == w.todo
           done == written(w)
           s == runs[c].op.seq
           rc == IF w.goal = "rotate" /\ w.ok THEN [id |-> q.id, gen |-> q.gen] ELSE NoReceipt
<1>1. w.pc = "ack" /\ UNCHANGED <<objects, net, faults, ops>>
  BY DEF Acknowledge
<1>2. /\ w \in Calls /\ Stable(objects, runs, ops) /\ Core(w, objects, runs, ops)
      /\ c \in Runs /\ faults' \in Nat /\ Shape(w) /\ CallOK(w, objects, runs, ops)
  BY <1>1, ActiveCall, InvParts
<1>3. /\ q \in Writes /\ q.id[1] = c /\ q.id[2] = w.n /\ q.effect # "keep"
      /\ w.goal = "rotate" <=> q.effect = "rotate"
      /\ SentOK(q, objects, runs, ops) /\ Dead(q, objects) /\ Sending(w)
      /\ RetireOK(w, objects, runs) /\ ReceiptOK(w, objects, runs)
      /\ w.goal = "acquire" /\ w.ok => OwnGen(w.base, c, objects)
  BY <1>1, <1>2 DEF Shape, CallOK, Sending, Answering
<1>4. CASE ~acknowledges(w, q.id) /\ abort(h) /\ UNCHANGED runs
  BY <1>1, <1>2, <1>4, AbortStep
<1>5. CASE /\ acknowledges(w, q.id) /\ runs' = acknowledged(c, rc)
           /\ \/ w.goal = "acquire" /\ w.ok /\ go(h, [done EXCEPT !.leaseGen = w.base], "readAuth")
              \/ go(h, done, "acquire")
              \/ go(h, done, "finish")
              \/ abort(h)
              \/ w.goal = "retire" /\ proven(h, done, s)
  <2>1. Named(q, runs) /\ Current(w, runs)
    BY <1>3, <1>5 DEF acknowledges, mine, Named, Current
  <2>2. rc \in Receipts
    BY <1>3 DEF Writes, Receipts
  <2>3. ASSUME auth.receipt # NoReceipt, auth.receipt.id[1] = c
        PROVE  /\ auth.receipt.id = q.id => rc = auth.receipt
               /\ rc # NoReceipt => rc = auth.receipt
    <3> DEFINE found == auth.receipt
    <3>1. ASSUME found.id = q.id PROVE w.goal = "rotate" /\ w.ok /\ rc = found
      <4>1. Named(found, runs)
        BY <2>1, <3>1 DEF Named
      <4>2. runs[c].op.mutation.effect = "rotate" /\ runs[c].op.mutation.gen = found.gen
        BY <1>2, <1>3, <2>3, <3>1, <4>1 DEF Stable, BucketOK, auth
      <4>3. q.effect = "rotate" /\ q.gen = found.gen
        BY <1>3, <2>1, <4>2 DEF SentOK, Fenced
      <4>4. w.goal = "rotate" /\ w.ok
        BY <1>1, <1>3, <2>1, <2>3, <3>1, <4>3 DEF ReceiptOK, auth
      <4>5. found = [id |-> found.id, gen |-> found.gen]
        BY <1>2, <2>3 DEF Stable, Buckets, Objects, Receipts, auth
      <4> QED BY <3>1, <4>3, <4>4, <4>5
    <3>2. ASSUME rc # NoReceipt PROVE found.id = q.id
      BY <1>1, <1>3, <2>1, <2>3, <3>2 DEF ReceiptOK, auth
    <3> QED BY <3>1, <3>2
  <2>4. ops' = ops /\ runs' = acknowledged(c, rc) /\ acknowledges(w, q.id) /\ w.pc # "idle"
    BY <1>1, <1>5
  <2> HIDE DEF rc
  <2>5. /\ Stable(objects, runs', ops')
        /\ \A g \in Handlers : CallOK(calls[g], objects, runs', ops')
        /\ \A p \in net : SentOK(p, objects, runs', ops')
        /\ runs'[c].op.seq = s /\ runs'[c].op.mutation = NoWrite
    BY <1>3, <2>2, <2>3, <2>4, AckStep
  <2>6. Core(w, objects, runs', ops')
    BY <1>1, <2>5 DEF CallOK
  <2>7. /\ done \in Calls /\ done.run = c /\ done.n = w.n
        /\ done.leaseGen = w.leaseGen /\ done.proof = w.proof /\ done.snapGen = w.snapGen
        /\ done.tries \in Nat
    BY <1>2, WrittenFields DEF Calls
  <2>8. w.base \in Nat /\ s \in Nat
    BY <1>2, RunFacts DEF Calls
  <2> HIDE DEF done, s
  <2>9. Core(done, objects, runs', ops')
    BY <2>5, <2>6, <2>7, CoreKept
  <2>10. "acquire" \in QuietPlaces /\ "finish" \in QuietPlaces /\ "readAuth" \in QuietPlaces
    BY DEF QuietPlaces
  <2>11. CASE w.goal = "acquire" /\ w.ok /\ go(h, [done EXCEPT !.leaseGen = w.base], "readAuth")
    <3> DEFINE x == [done EXCEPT !.leaseGen = w.base]
    <3>1. /\ x \in Calls /\ x.run = c /\ x.n = w.n
          /\ x.leaseGen = w.base /\ x.proof = w.proof /\ x.snapGen = w.snapGen
      BY <2>7, <2>8 DEF Calls
    <3>2. go(h, x, "readAuth")
      BY <2>11
    <3> HIDE DEF x
    <3>3. Core(x, objects, runs', ops')
      BY <1>3, <2>6, <2>11, <3>1, CoreLease
    <3> QED BY <1>1, <2>5, <2>10, <3>1, <3>2, <3>3, JournalQuiet
  <2>12. CASE go(h, done, "acquire")
    BY <1>1, <2>5, <2>7, <2>9, <2>10, <2>12, JournalQuiet
  <2>13. CASE go(h, done, "finish")
    BY <1>1, <2>5, <2>7, <2>9, <2>10, <2>13, JournalQuiet
  <2>14. CASE abort(h)
    BY <1>1, <2>5, <2>14, JournalAbort
  <2>15. CASE w.goal = "retire" /\ go(h, [done EXCEPT !.proof = s, !.tries = @ + 1, !.base = 0], "finish")
    <3> DEFINE x == [done EXCEPT !.proof = s, !.tries = @ + 1, !.base = 0]
    <3>0. done.tries + 1 \in Nat
      BY <2>7
    <3>1. /\ x \in Calls /\ x.run = c /\ x.n = w.n
          /\ x.leaseGen = w.leaseGen /\ x.proof = s /\ x.snapGen = w.snapGen
      BY <2>7, <2>8, <3>0 DEF Calls
    <3>2. go(h, x, "finish")
      BY <2>15
    <3> HIDE DEF x
    <3>3. ~Holds(c, objects)
      BY <1>1, <1>3, <2>1, <2>15 DEF RetireOK
    <3>4. ProofOK(x, objects, runs')
      BY <2>5, <2>8, <3>1, <3>3 DEF ProofOK
    <3>5. Core(x, objects, runs', ops')
      BY <2>6, <3>1, <3>4 DEF Core
    <3> QED BY <1>1, <2>5, <2>10, <3>1, <3>2, <3>5, JournalQuiet
  <2> QED BY <1>5, <2>11, <2>12, <2>13, <2>14, <2>15 DEF proven
<1> QED BY <1>4, <1>5 DEF Acknowledge

LEMMA FenceAcknowledgeStep ==
  ASSUME CredentialsInv, NEW h \in Handlers, FenceAcknowledge(h) PROVE CredentialsInv'
<1> DEFINE w == calls[h]
           q == w.todo
           u == [w EXCEPT !.receipt = NoReceipt]
           x == settledCall(u)
<1>1. w.pc = "fenceAck" /\ UNCHANGED <<objects, net, faults, ops>>
  BY DEF FenceAcknowledge
<1>2. /\ w \in Calls /\ Stable(objects, runs, ops) /\ Core(w, objects, runs, ops)
      /\ w.run \in Runs /\ faults' \in Nat /\ Shape(w) /\ CallOK(w, objects, runs, ops)
  BY <1>1, ActiveCall, InvParts
<1>3. /\ q.id[1] = w.run /\ Dead(q, objects) /\ Sending(w) /\ ReceiptOK(w, objects, runs)
      /\ w.receipt \in Receipts
  BY <1>1, <1>2 DEF Shape, CallOK, Sending, Fencing, Calls
<1>4. CASE ~acknowledges(w, q.id) /\ abort(h) /\ UNCHANGED runs
  BY <1>1, <1>2, <1>4, AbortStep
<1>5. CASE /\ acknowledges(w, q.id) /\ runs' = acknowledged(w.run, w.receipt)
           /\ go(h, x, "check")
  <2>1. Named(q, runs)
    BY <1>3, <1>5 DEF acknowledges, Named
  <2>2. auth.receipt # NoReceipt /\ auth.receipt.id[1] = w.run =>
          /\ auth.receipt.id = q.id => w.receipt = auth.receipt
          /\ w.receipt # NoReceipt => w.receipt = auth.receipt
    BY <1>1, <1>3, <2>1 DEF ReceiptOK, auth
  <2>3. /\ Stable(objects, runs', ops')
        /\ \A g \in Handlers : CallOK(calls[g], objects, runs', ops')
        /\ \A p \in net : SentOK(p, objects, runs', ops')
    BY <1>1, <1>3, <1>5, <2>2, AckStep
  <2>4. /\ u \in Calls /\ u.run = w.run /\ u.n = w.n /\ u.leaseGen = w.leaseGen
    BY <1>2 DEF Calls, Receipts
  <2> HIDE DEF u
  <2>5. /\ x \in Calls /\ x.run = w.run /\ x.n = w.n /\ x.leaseGen = w.leaseGen
        /\ x.proof = NoProof /\ x.snapGen = 0
    BY <2>4, SettledFields
  <2>6. go(h, x, "check")
    BY <1>5
  <2> HIDE DEF x
  <2>7. Core(w, objects, runs', ops')
    BY <1>1, <2>3 DEF CallOK
  <2>8. Core(x, objects, runs', ops') /\ "check" \in QuietPlaces
    BY <2>3, <2>5, <2>7, CoreKept DEF QuietPlaces
  <2> QED BY <1>1, <2>3, <2>5, <2>6, <2>8, JournalQuiet
<1> QED BY <1>4, <1>5 DEF FenceAcknowledge

-----------------------------------------------------------------------------
(* The theorems *)

LEMMA InitialJournals ==
  /\ NewRun \in Journals /\ NewRun.op = NoOp /\ NewRun.heldGen = 0 /\ NewRun.live
  /\ ServedRun \in Journals /\ ServedRun.op = NoOp /\ ServedRun.heldGen = 1 /\ ServedRun.live
<1>1. NewRun \in Journals /\ NewRun.op = NoOp /\ NewRun.heldGen = 0
  BY NoOpFields DEF NewRun, Journals, Receipts
<1>2. NewRun.live
  BY DEF NewRun
<1>3. ServedRun \in Journals /\ ServedRun.op = NoOp /\ ServedRun.heldGen = 1
  BY <1>1 DEF ServedRun, Journals
<1>4. ServedRun.live
  BY <1>1, <1>2 DEF ServedRun, Journals
<1> QED BY <1>1, <1>2, <1>3, <1>4

LEMMA InitialObjects ==
  /\ NoObject \in Objects /\ NoObject.gen = 0 /\ ~NoObject.alive /\ NoObject.by = NoWrite
  /\ SeededAuth \in Objects /\ SeededAuth.gen = 1 /\ SeededAuth.receipt = NoReceipt
  /\ \A c \in Runs : /\ HeldLease(c) \in Objects /\ HeldLease(c).gen = 1
                     /\ HeldLease(c).owner = c
                     /\ HeldLease(c).by.effect = "take" /\ HeldLease(c).by.id[1] = c
<1>1. /\ NoObject \in Objects /\ NoObject.gen = 0 /\ NoObject.by = NoWrite
      /\ NoObject.receipt = NoReceipt
  BY DEF NoObject, Objects, Receipts
<1>2. ~NoObject.alive
  BY DEF NoObject
<1>3. SeededAuth \in Objects /\ SeededAuth.gen = 1 /\ SeededAuth.receipt = NoReceipt
  BY <1>1 DEF SeededAuth, Objects
<1>4. ASSUME NEW c \in Runs
      PROVE  /\ HeldLease(c) \in Objects /\ HeldLease(c).gen = 1 /\ HeldLease(c).owner = c
             /\ HeldLease(c).by.effect = "take" /\ HeldLease(c).by.id[1] = c
  <2> DEFINE q == Write("lease", c, 0, 1, 0, "take")
  <2>1. q \in Writes /\ q.id[1] = c /\ q.effect = "take"
    BY IdentOf DEF Write, Writes
  <2> HIDE DEF q
  <2> DEFINE x == [NoObject EXCEPT !.gen = 1, !.owner = c, !.alive = TRUE, !.by = q]
  <2>2. x \in Objects
    BY <1>1, <2>1 DEF Objects
  <2>3. x.gen = 1 /\ x.owner = c /\ x.by = q
    BY <1>1 DEF Objects
  <2> HIDE DEF x
  <2>4. HeldLease(c) = x
    BY DEF HeldLease, x, q
  <2> QED BY <2>1, <2>2, <2>3, <2>4
<1> QED BY <1>1, <1>2, <1>3, <1>4

LEMMA InitInv ==
  ASSUME Init PROVE CredentialsInv
<1>1. /\ calls = [h \in Handlers |-> NoCall] /\ net = {} /\ ops = 0 /\ faults = MaxFaults
  BY DEF Init
<1>2. /\ runs \in AllJournals
      /\ \A c \in Runs : runs[c].op = NoOp /\ runs[c].heldGen \in {0, 1} /\ runs[c].live
  BY InitialJournals DEF Init, AllJournals
<1>3. /\ objects \in Buckets /\ objects["auth"] = SeededAuth
      /\ \/ objects["lease"] = NoObject
         \/ \E c \in Runs : objects["lease"] = HeldLease(c)
  BY InitialObjects DEF Init, Buckets
<1>4. BucketOK(objects, runs, ops)
  <2>1. objects["auth"].receipt = NoReceipt
    BY <1>3, InitialObjects
  <2>2. objects["lease"].gen = 0 => ~objects["lease"].alive
    BY <1>3, InitialObjects
  <2>3. objects["lease"].by.effect = "take" => objects["lease"].owner = objects["lease"].by.id[1]
    BY <1>3, InitialObjects DEF NoWrite, None
  <2> QED BY <2>1, <2>2, <2>3 DEF BucketOK
<1>5. ASSUME NEW c \in Runs PROVE RunOK(c, objects, runs, ops)
  <2>1. runs[c].heldGen <= objects["auth"].gen
    BY <1>2, <1>3, InitialObjects
  <2>2. 0 <= ops /\ 0 <= MaxSequence
    BY <1>1, CredentialsAssumption
  <2> QED BY <1>2, <2>1, <2>2, NoOpFields DEF RunOK
<1>6. CredentialsTypeOK
  BY <1>1, <1>2, <1>3, NoCallFields, CredentialsAssumption DEF CredentialsTypeOK
<1>7. \A h \in Handlers : CallOK(calls[h], objects, runs, ops)
  BY <1>1, IdleCall
<1>8. SendsOnce
  BY <1>1, NoCallFields DEF SendsOnce, Rotating
<1> QED BY <1>1, <1>4, <1>5, <1>6, <1>7, <1>8 DEF CredentialsInv

LEMMA HandlerStep ==
  ASSUME CredentialsInv, NEW h \in Handlers, Step(h) PROVE CredentialsInv'
BY AcquireStep, RenewStep, PersistStep, PrepareStep, SaveStep, ConfirmStep, AcknowledgeStep,
   ReadAuthStep, FinishStep, ResolveRunStep, ResolveLeaseStep, RetryRecoveryStep,
   FenceReadStep, FenceSaveStep, FenceAcknowledgeStep, CheckStep, ReleaseReadStep DEF Step

LEMMA NextInv ==
  ASSUME CredentialsInv, [Next]_vars PROVE CredentialsInv'
<1>1. ASSUME NEW c \in Runs, SettleRun(c) PROVE CredentialsInv'
  BY <1>1, SettleRunStep
<1>2. ASSUME NEW h \in Handlers, NEW c \in Runs,
             \/ \E kind \in Kinds, rotated \in BOOLEAN : Begin(h, c, kind, rotated)
             \/ ResumeCleanup(h, c) \/ List(h, c)
      PROVE  CredentialsInv'
  BY <1>2, BeginStep, ResumeCleanupStep, ListStep
<1>3. ASSUME NEW h \in Handlers, Step(h) \/ SaveUnavailable(h) \/ ReadFails(h) \/ Crash(h)
      PROVE  CredentialsInv'
  BY <1>3, HandlerStep, SaveUnavailableStep, ReadFailsStep, CrashStep
<1>4. ASSUME NEW q \in net, LateWrite(q) PROVE CredentialsInv'
  BY <1>4, LateWriteStep
<1>5. CASE LeaseExpires
  BY <1>5, LeaseExpiresStep
<1>6. CASE UNCHANGED vars
  BY <1>6 DEF vars, CredentialsInv, CredentialsTypeOK, SendsOnce, Rotating, auth
<1> QED BY <1>1, <1>2, <1>3, <1>4, <1>5, <1>6 DEF Next

(* Whatever crashes, stalls, expires or commits late, bucket, journals,    *)
(* calls and late writes agree as CredentialsInv says: a write that was    *)
(* sent is the one its journal names or its generation has passed, and a   *)
(* proof of retirement is true for as long as its sequence is the          *)
(* journal's.                                                              *)
THEOREM CredentialsInvariance == Spec => []CredentialsInv
<1>1. Init => CredentialsInv
  BY InitInv
<1>2. CredentialsInv /\ [Next]_vars => CredentialsInv'
  BY NextInv
<1> QED BY <1>1, <1>2, PTL DEF Spec

(* A settled run without cleanup debt holds no lease of the subscription,  *)
(* for any number of runs, handlers, operations and faults: the proof that *)
(* finishCredentialOperation compares with the journal's sequence cannot   *)
(* be stale.                                                               *)
THEOREM SettledRunsHoldNothing == Spec => []RetiredForGood
<1>1. CredentialsInv => RetiredForGood
  BY DEF CredentialsInv, RunOK, RetiredForGood, Holds, hasOp, lease
<1> QED BY <1>1, CredentialsInvariance, PTL

(* A rotation that is the stored credential and awaits no answer is the    *)
(* receipt of its run, whoever acknowledged it: the call that wrote it or  *)
(* the recovery that found it (acknowledgeCredentialMutation).             *)
THEOREM RotationsAreRemembered == Spec => []RotationRemembered
<1>1. CredentialsInv => RotationRemembered
  BY DEF CredentialsInv, BucketOK, RotationRemembered, journalled, Named, auth
<1> QED BY <1>1, CredentialsInvariance, PTL

(* Only a sent write whose generation is current, or the passing of time,  *)
(* changes the bucket.                                                     *)
LEMMA BucketStep ==
  ASSUME CredentialsInv, [Next]_vars
  PROVE  \/ objects' = objects
         \/ LeaseExpires
         \/ /\ runs' = runs
            /\ \E q \in Writes : /\ SentOK(q, objects, runs, ops) /\ accepts(q)
                                 /\ objects' = committed(q)
<1>1. ASSUME NEW c \in Runs, SettleRun(c) PROVE objects' = objects
  BY <1>1 DEF SettleRun
<1>2. ASSUME NEW h \in Handlers, NEW c \in Runs,
             \/ \E kind \in Kinds, rotated \in BOOLEAN : Begin(h, c, kind, rotated)
             \/ ResumeCleanup(h, c) \/ List(h, c)
      PROVE  objects' = objects
  BY <1>2 DEF Begin, ResumeCleanup, List
<1>3. ASSUME NEW h \in Handlers, SaveUnavailable(h) \/ ReadFails(h) \/ Crash(h)
      PROVE  objects' = objects
  BY <1>3 DEF SaveUnavailable, ReadFails, Crash
<1>4. ASSUME NEW h \in Handlers, Step(h), ~Save(h), ~FenceSave(h) PROVE objects' = objects
  BY <1>4 DEF Step, Acquire, Renew, Persist, Prepare, Confirm, Acknowledge, ReadAuth, Finish,
              ResolveRun, ResolveLease, RetryRecovery, FenceRead, FenceAcknowledge, Check,
              ReleaseRead
<1>5. ASSUME NEW h \in Handlers, Save(h) \/ FenceSave(h)
      PROVE  \/ objects' = objects
             \/ /\ runs' = runs
                /\ \E q \in Writes : /\ SentOK(q, objects, runs, ops) /\ accepts(q)
                                     /\ objects' = committed(q)
  <2> DEFINE q == calls[h].todo
  <2>1. /\ calls[h].pc \in {"save", "fenceSave"} /\ runs' = runs
        /\ \/ objects' = objects
           \/ accepts(q) /\ objects' = committed(q)
    BY <1>5 DEF Save, FenceSave
  <2>2. q \in Writes /\ SentOK(q, objects, runs, ops)
    BY <2>1, InvParts DEF CallOK, Shape, Sending, Answering, Fencing
  <2> QED BY <2>1, <2>2
<1>6. ASSUME NEW q \in net, LateWrite(q)
      PROVE  \/ objects' = objects
             \/ /\ runs' = runs
                /\ q \in Writes /\ SentOK(q, objects, runs, ops) /\ accepts(q)
                /\ objects' = committed(q)
  BY <1>6, InvParts DEF LateWrite
<1>7. CASE UNCHANGED vars
  BY <1>7 DEF vars
<1> QED BY <1>1, <1>2, <1>3, <1>4, <1>5, <1>6, <1>7 DEF Next

LEMMA LeaseExpiring ==
  ASSUME CredentialsInv, LeaseExpires
  PROVE  /\ \A o \in {"lease", "auth"} : objects'[o].gen = objects[o].gen
         /\ lease'.owner = lease.owner
<1> DEFINE l == objects["lease"]
<1>1. objects \in Buckets /\ l \in Objects
  BY DEF CredentialsInv, CredentialsTypeOK, Buckets
<1>2. objects' = [objects EXCEPT !["lease"] = [l EXCEPT !.alive = FALSE]]
  BY DEF LeaseExpires
<1>3. [l EXCEPT !.alive = FALSE].gen = l.gen /\ [l EXCEPT !.alive = FALSE].owner = l.owner
  BY <1>1 DEF Objects
<1> QED BY <1>1, <1>2, <1>3 DEF Buckets, lease

(* A write lands only while its run's journal names it.  Once a mutation   *)
(* was acknowledged, by its own call or by a recovery that fenced it, none *)
(* of the writes sent for it changes the bucket any more, however late it  *)
(* commits (fenceMutation, acknowledgeCredentialMutation).                 *)
THEOREM FencesHold == Spec => FencedWritesNeverLand
<1> DEFINE A == \A o \in DOMAIN objects :
                  objects'[o].gen # objects[o].gen => journalled(objects'[o].by)
<1>1. CredentialsInv /\ [Next]_vars => [A]_vars
  <2> SUFFICES ASSUME CredentialsInv, [Next]_vars PROVE A
    OBVIOUS
  <2>1. DOMAIN objects = {"lease", "auth"}
    BY DEF CredentialsInv, CredentialsTypeOK, Buckets
  <2>2. CASE objects' = objects
    BY <2>2
  <2>3. CASE LeaseExpires
    BY <2>1, <2>3, LeaseExpiring
  <2>4. ASSUME NEW q \in Writes, SentOK(q, objects, runs, ops), accepts(q),
               objects' = committed(q)
        PROVE  A
    <3>1. /\ Named(q, runs)
          /\ \A o \in {"lease", "auth"} : objects'[o].gen # objects[o].gen => objects'[o].by = q
      BY <2>4, Landed
    <3> QED BY <2>1, <3>1 DEF journalled, Named
  <2> QED BY <2>2, <2>3, <2>4, BucketStep
<1> QED BY <1>1, CredentialsInvariance, PTL DEF Spec, FencedWritesNeverLand

(* Nobody takes a lease that is alive from the run that owns it: a write   *)
(* of the lease was prepared against an expired generation or against its  *)
(* own, and lands on no other (acquire, takeLease).                        *)
THEOREM LiveLeasesStay == Spec => LiveLeaseNotStolen
<1>1. CredentialsInv /\ [Next]_vars => [lease.alive => lease'.owner = lease.owner]_vars
  <2> SUFFICES ASSUME CredentialsInv, [Next]_vars, lease.alive
               PROVE  lease'.owner = lease.owner
    OBVIOUS
  <2>1. CASE objects' = objects
    BY <2>1 DEF lease
  <2>2. CASE LeaseExpires
    BY <2>2, LeaseExpiring
  <2>3. ASSUME NEW q \in Writes, SentOK(q, objects, runs, ops), accepts(q),
               objects' = committed(q)
        PROVE  lease'.owner = lease.owner
    BY <2>3, Landed
  <2> QED BY <2>1, <2>2, <2>3, BucketStep
<1> QED BY <1>1, CredentialsInvariance, PTL DEF Spec, LiveLeaseNotStolen

=============================================================================
