---------------------------- MODULE DownloadProofs ----------------------------
(***************************************************************************)
(* Theorems of FileTransfer and of SelfUpdate, the client's use of a       *)
(* download for itself, for every value of their constants.                *)
(*                                                                         *)
(* A download that completes is one version of the file, and a checkpoint  *)
(* is what the part files hold.  Neither is inductive: a block has its     *)
(* place because of the offset the request was sent for, and its version   *)
(* because of the validator the answer was compared with, so the invariant *)
(* (Sound) says what each place of the worker knows of both.  PartsOnDisk, *)
(* Ranging and Offsets hold while no descriptor has slipped, whatever the  *)
(* server replaces; Versions and Finished while nothing has mixed          *)
(* versions at all.  That the joined parts are the file (JoinIsWhole) is   *)
(* shown by the least number of parts for which it would fail.             *)
(*                                                                         *)
(* AppliedIsWhole is not inductive either.  What applyUpdate calls ready   *)
(* is whole because of what each of its steps found: one failed removal    *)
(* may leave a package in the staging, a second one is needed to leave it  *)
(* a head.bin (Staged).  That nobody else writes there meanwhile is that a *)
(* homebrew install and an update exclude each other and that the helper   *)
(* ends every other program (Single).                                      *)
(***************************************************************************)
EXTENDS FileTransfer, SelfUpdate, SequenceTheorems, WellFoundedInduction, TLAPS

Block == [at : Nat, ver : Nat]

\* The blocks of s are those of part k from its beginning on; they are of version
\* v; none is newer than the server.
InPlace(s, k) == \A i \in 1 .. Len(s) : s[i].at = k * PartLen + i
Of(s, v) == \A i \in 1 .. Len(s) : s[i].ver = v
NotAhead(s) == \A i \in 1 .. Len(s) : s[i].ver <= srv

FilesType ==
    /\ srv \in Nat /\ srv \in Version
    /\ {"archive", "tagged", "keep"} \subseteq DOMAIN kind
    /\ file \in [Part -> Seq(Block)] /\ \A k \in Part : NotAhead(file[k])
    /\ ckpt \in Nat /\ ckpt <= srv
JobType ==
    /\ {"state", "tag"} \subseteq DOMAIN job /\ job.tag \in Nat /\ job.tag <= srv
    /\ flag \in {"none", "pause", "cancel"}
TransferType(u) ==
    /\ {"outer", "arg", "ifRange", "probe", "retry", "attempt", "off", "got", "pos", "append",
        "used", "dead", "tag", "ver", "res", "gone"} \subseteq DOMAIN u
    /\ u.arg \in Nat /\ u.attempt \in Nat /\ u.off \in Nat /\ u.got \in Nat /\ u.pos \in Nat
    /\ u.append \in BOOLEAN
    /\ u.probe \in Nat /\ u.tag \in Nat /\ u.ver \in Nat
    /\ u.probe <= srv /\ u.tag <= srv /\ u.ver <= srv
PartType(p) ==
    /\ {"st", "saved", "got", "mem", "tag", "ver"} \subseteq DOMAIN p
    /\ p.saved \in Nat /\ p.got \in Nat /\ p.mem \in Seq(Block) /\ p.tag \in Nat /\ p.ver \in Nat
    /\ p.tag <= srv /\ p.ver <= srv /\ NotAhead(p.mem)
PartsType == DOMAIN part = Part /\ \A k \in Part : PartType(part[k])

TypeInv == FilesType /\ JobType /\ TransferType(t) /\ PartsType

\* No descriptor was left behind the offset its attempt asked for (Attempt).
NoSlip == "slipped" \notin risk

\* Outside the ranges every file is a prefix of its part, no older than the
\* checkpoint, and of its version when the probe has confirmed it.
PartsOnDisk ==
    /\ pc # "ranges" =>
         \A k \in Part :
            /\ InPlace(file[k], k)
            /\ \A i \in 1 .. Len(file[k]) : ckpt <= file[k][i].ver
            /\ pc = "setup" /\ ckpt # 0 /\ ckpt = t.probe => Of(file[k], ckpt)
    /\ pc = "body" => ckpt <= t.ver

\* In the ranges a part holds what was saved, of the version of the probe, and
\* after it what was received, of its own.
Received(k) == file[k] \o part[k].mem
InRange(k) ==
    LET p == part[k] IN
    /\ Len(Received(k)) = p.saved + p.got
    /\ InPlace(Received(k), k)
    /\ \A i \in 1 .. Len(Received(k)) :
          Received(k)[i].ver = IF i <= p.saved THEN t.probe ELSE p.ver
    /\ p.saved > 0 => t.probe # 0
    /\ p.got > 0 => p.ver # 0
    /\ p.ver # 0 => p.tag \in {0, p.ver}
    /\ p.st \in {"skipped", "done"} => p.saved + p.got = PartLen
    /\ p.st \in {"asked", "skipped"} => p.got = 0
    /\ p.st = "open" => p.ver # 0
Ranging == pc = "ranges" => \A k \in Part : InRange(k)

\* The offset is the length of payload.part, and so is the place where the next
\* block goes.
Offsets ==
    /\ pc = "open" => t.arg \in {0, Len(file[0])}
    /\ pc = "probe" => t.off = 0 /\ t.got = 0 /\ t.pos = 0 /\ t.arg = 0 /\ t.ifRange = 0
    /\ pc = "probe" /\ ~Saved => file[0] = <<>>
    /\ pc \in {"wait", "body"} \/ (pc = "attempt" /\ flag = "none") =>
         t.off + t.got = Len(file[0]) /\ (~t.append => t.pos = t.off + t.got)
    /\ pc = "wait" \/ (pc = "attempt" /\ t.attempt = 0) => t.got = 0

\* While nothing mixes versions, the validators that are the server's stand for what
\* payload.part holds.
Versions ==
    /\ pc = "wait" \/ (pc = "attempt" /\ flag = "none") =>
         (t.ifRange \in {0, srv} => Of(file[0], srv))
    /\ pc = "body" => t.ver = srv /\ Of(file[0], srv)
    /\ pc \in {"probe", "setup", "ranges", "wait"} => t.tag = 0
    /\ pc \in {"open", "attempt", "body", "judge"} /\ t.tag # 0 => t.tag = srv /\ Of(file[0], srv)
    /\ pc # "ranges" /\ job.tag = srv => Of(file[0], srv)
    /\ pc \in {"setup", "ranges"} => t.probe \in {0, srv}
    /\ pc = "ranges" => \A k \in Part : part[k].ver \in {0, srv}

\* What the worker answers to the job is the file, and so is what a job holds that
\* has completed.
Finished ==
    /\ pc = "judge" /\ flag = "none" /\ t.res \in {"Ok", "Segmented"} => WholeFile(Content)
    /\ job.state = "completed" => pc = "idle" /\ WholeFile(Content)

Sound ==
    /\ TypeInv
    /\ NoSlip => PartsOnDisk /\ Ranging /\ Offsets
    /\ risk = {} => Versions /\ Finished

-----------------------------------------------------------------------------
(* What joinParts makes of whole parts *)

LEMMA Sizes == 0 \in Part /\ Part \subseteq Nat /\ Parts \in Nat \ {0} /\ PartLen \in Nat \ {0} /\ Total \in Nat
  BY SizeAssumption DEF Part, Total

LEMMA NoTransferType == ASSUME srv \in Nat PROVE TransferType(NoTransfer)
  BY DEF NoTransfer, TransferType

LEMMA NoPartType == ASSUME srv \in Nat PROVE PartType(NoPart)
  BY DEF NoPart, PartType, NotAhead

LEMMA NoFilesType == NoFiles \in [Part -> Seq(Block)] /\ \A k \in Part : NoFiles[k] = <<>>
  BY DEF NoFiles

\* A set of natural numbers has a least one.
LEMMA LeastNatural ==
  ASSUME NEW T \in SUBSET Nat, T # {}
  PROVE  \E x \in T : \A y \in T : x <= y
<1>1. PICK x \in T : \A y \in T : ~(<<y, x>> \in OpToRel(<, Nat))
  BY WFMin, NatLessThanWellFounded, Zenon
<1>2. \A y \in T : ~(y < x)
  BY <1>1 DEF OpToRel
<1>3. QED
  BY <1>2

\* g holds the first 1, 2, ... n sequences of s joined.
Joins(g, s, n) == g = [i \in 1 .. n |-> IF i = 1 THEN s[i] ELSE g[i - 1] \o s[i]]

\* Such a g exists, whatever the sequences are: the least n without one has one.
LEMMA JoinExists ==
  ASSUME NEW s, NEW n \in Nat \ {0}
  PROVE  \E g : Joins(g, s, n)
<1> DEFINE Bad == {m \in 1 .. n : ~\E g : Joins(g, s, m)}
<1>1. SUFFICES ASSUME Bad # {} PROVE FALSE
  <2>1. CASE Bad = {}
    BY <2>1
  <2> QED
    BY <1>1, <2>1
<1>2. PICK m \in Bad : \A y \in Bad : m <= y
  <2>1. Bad \in SUBSET Nat
    OBVIOUS
  <2> HIDE DEF Bad
  <2> QED
    BY <1>1, <2>1, LeastNatural
<1>3. m \in 1 .. n /\ ~\E g : Joins(g, s, m)
  BY <1>2
<1>4. CASE m = 1
  <2>1. Joins([i \in 1 .. 1 |-> s[i]], s, 1)
    BY DEF Joins
  <2> QED
    BY <1>3, <1>4, <2>1
<1>5. CASE m # 1
  <2>1. m - 1 \in 1 .. n /\ m - 1 \notin Bad
    BY <1>2, <1>3, <1>5
  <2>2. PICK g : Joins(g, s, m - 1)
    BY <2>1
  <2> DEFINE h == [i \in 1 .. m |-> IF i = m THEN g[m - 1] \o s[m] ELSE g[i]]
  <2>3. \A i \in 1 .. m : h[i] = IF i = 1 THEN s[i] ELSE h[i - 1] \o s[i]
    <3> SUFFICES ASSUME NEW i \in 1 .. m PROVE h[i] = IF i = 1 THEN s[i] ELSE h[i - 1] \o s[i]
      OBVIOUS
    <3>1. CASE i = m
      <4>1. m \in 1 .. m /\ m - 1 \in 1 .. m /\ m - 1 # m
        BY <1>3, <1>5
      <4>2. h[m] = g[m - 1] \o s[m] /\ h[m - 1] = g[m - 1]
        BY <4>1
      <4> QED
        BY <1>5, <3>1, <4>2
    <3>2. CASE i # m
      <4>0. i \in 1 .. m - 1
        BY <1>3, <3>2
      <4>1. g[i] = IF i = 1 THEN s[i] ELSE g[i - 1] \o s[i]
        BY <2>2, <4>0, Zenon DEF Joins
      <4>2. h[i] = g[i] /\ (i # 1 => h[i - 1] = g[i - 1])
        BY <1>3, <3>2
      <4> QED
        BY <4>1, <4>2
    <3> QED
      BY <3>1, <3>2
  <2>4. h = [i \in 1 .. m |-> h[i]]
    OBVIOUS
  <2>5. Joins(h, s, m)
    <3> HIDE DEF h
    <3> QED
      BY <2>3, <2>4 DEF Joins
  <2> QED
    BY <1>3, <2>5
<1> QED
  BY <1>4, <1>5

LEMMA JoinedNotAhead ==
  ASSUME NEW s \in Seq(Block), NEW u \in Seq(Block), NotAhead(s), NotAhead(u)
  PROVE  s \o u \in Seq(Block) /\ NotAhead(s \o u)
<1>1. /\ s \o u \in Seq(Block) /\ Len(s \o u) = Len(s) + Len(u) /\ Len(s) \in Nat /\ Len(u) \in Nat
      /\ \A i \in 1 .. Len(s) + Len(u) : (s \o u)[i] = IF i <= Len(s) THEN s[i] ELSE u[i - Len(s)]
  BY ConcatProperties, LenProperties
<1> SUFFICES ASSUME NEW i \in 1 .. Len(s) + Len(u) PROVE (s \o u)[i].ver <= srv
  BY <1>1 DEF NotAhead
<1>2. CASE i <= Len(s)
  BY <1>1, <1>2 DEF NotAhead
<1>3. CASE ~(i <= Len(s))
  <2>1. i - Len(s) \in 1 .. Len(u)
    BY <1>1, <1>3
  <2> QED
    BY <1>1, <1>3, <2>1 DEF NotAhead
<1> QED
  BY <1>2, <1>3

\* s is the beginning of the file, n blocks of versions in V.
From(s, V) == \A i \in 1 .. Len(s) : s[i].ver \in V
Beginning(s, n, V) == s \in Seq(Block) /\ Len(s) = n /\ InPlace(s, 0) /\ From(s, V)

LEMMA JoinStep ==
  ASSUME NEW s, NEW u \in Seq(Block), NEW k \in Part, NEW V,
         Beginning(s, k * PartLen, V), Len(u) = PartLen, InPlace(u, k), From(u, V)
  PROVE  Beginning(s \o u, (k + 1) * PartLen, V)
<1> DEFINE m == k * PartLen
<1>1. m \in Nat /\ (k + 1) * PartLen = m + PartLen
  BY Sizes
<1>2. s \in Seq(Block) /\ Len(s) = m /\ \A i \in 1 .. m : s[i].at = i /\ s[i].ver \in V
  BY <1>1 DEF Beginning, InPlace, From
<1>3. \A i \in 1 .. PartLen : u[i].at = m + i /\ u[i].ver \in V
  BY DEF InPlace, From
<1> HIDE DEF m
<1>4. /\ s \o u \in Seq(Block) /\ Len(s \o u) = m + PartLen
      /\ \A i \in 1 .. m + PartLen : (s \o u)[i] = IF i <= m THEN s[i] ELSE u[i - m]
  BY <1>1, <1>2, ConcatProperties
<1>5. \A i \in 1 .. m + PartLen : (s \o u)[i].at = i /\ (s \o u)[i].ver \in V
  <2> SUFFICES ASSUME NEW i \in 1 .. m + PartLen PROVE (s \o u)[i].at = i /\ (s \o u)[i].ver \in V
    OBVIOUS
  <2>1. CASE i <= m
    BY <1>1, <1>2, <1>4, <2>1
  <2>2. CASE ~(i <= m)
    <3>1. i - m \in 1 .. PartLen /\ m + (i - m) = i
      BY <1>1, Sizes, <2>2
    <3> QED
      BY <1>3, <1>4, <2>2, <3>1
  <2> QED
    BY <2>1, <2>2
<1>6. InPlace(s \o u, 0) /\ From(s \o u, V)
  BY <1>4, <1>5, Sizes DEF InPlace, From
<1> QED
  BY <1>1, <1>4, <1>6 DEF Beginning

\* Joined is the last of the sequences that join the files one after the other.
LEMMA JoinUnfolds ==
  ASSUME NEW f
  PROVE  \E g : /\ Joined(f) = g[Parts] /\ g[1] = f[0]
                /\ \A i \in 2 .. Parts : g[i] = g[i - 1] \o f[i - 1]
<1> DEFINE s == [i \in 1 .. Parts |-> f[i - 1]]
           g == CHOOSE x : Joins(x, s, Parts)
<1>1. \A i \in 1 .. Parts : s[i] = f[i - 1]
  OBVIOUS
<1>2. Joined(f) = g[Parts]
  <2>1. Len(s) = Parts
    BY Sizes
  <2> QED
    BY <2>1, Sizes DEF Joined, FlattenSeq, Joins
<1>3. Joins(g, s, Parts)
  <2> HIDE DEF s
  <2> QED
    BY JoinExists, Sizes
<1> HIDE DEF g, s
<1>4. \A i \in 1 .. Parts : g[i] = IF i = 1 THEN s[i] ELSE g[i - 1] \o s[i]
  BY <1>3 DEF Joins
<1>5. g[1] = f[0]
  BY <1>1, <1>4, Sizes
<1>6. \A i \in 2 .. Parts : g[i] = g[i - 1] \o f[i - 1]
  <2> SUFFICES ASSUME NEW i \in 2 .. Parts PROVE g[i] = g[i - 1] \o f[i - 1]
    OBVIOUS
  <2>1. i \in 1 .. Parts /\ i # 1
    BY Sizes
  <2> QED
    BY <1>1, <1>4, <2>1
<1> QED
  BY <1>2, <1>5, <1>6

\* Induction along the parts.
LEMMA AlongParts ==
  ASSUME NEW Good, 1 \in Good, \A i \in 2 .. Parts : i - 1 \in Good => i \in Good
  PROVE  Parts \in Good
<1> DEFINE Bad == (1 .. Parts) \ Good
<1>1. SUFFICES ASSUME Bad # {} PROVE FALSE
  <2>1. CASE Bad = {}
    BY <2>1, Sizes
  <2> QED
    BY <1>1, <2>1
<1>2. PICK m \in Bad : \A y \in Bad : m <= y
  <2>1. Bad \in SUBSET Nat
    OBVIOUS
  <2> HIDE DEF Bad
  <2> QED
    BY <1>1, <2>1, LeastNatural
<1>3. m \in 2 .. Parts /\ m \notin Good /\ m - 1 \in 1 .. Parts /\ ~(m <= m - 1)
  BY <1>2, Sizes
<1>4. m - 1 \notin Bad
  <2> HIDE DEF Bad
  <2> QED
    BY <1>2, <1>3
<1> QED
  BY <1>3, <1>4

LEMMA JoinType ==
  ASSUME NEW f \in [Part -> Seq(Block)], \A k \in Part : NotAhead(f[k])
  PROVE  Joined(f) \in Seq(Block) /\ NotAhead(Joined(f))
<1>1. PICK g : /\ Joined(f) = g[Parts] /\ g[1] = f[0]
               /\ \A i \in 2 .. Parts : g[i] = g[i - 1] \o f[i - 1]
  BY JoinUnfolds
<1> DEFINE Good == {i \in 1 .. Parts : g[i] \in Seq(Block) /\ NotAhead(g[i])}
<1>2. 1 \in Good
  BY <1>1, Sizes
<1>3. \A i \in 2 .. Parts : i - 1 \in Good => i \in Good
  <2> SUFFICES ASSUME NEW i \in 2 .. Parts, i - 1 \in Good PROVE i \in Good
    OBVIOUS
  <2>0. i - 1 \in Part /\ i \in 1 .. Parts
    BY Sizes DEF Part
  <2>1. g[i - 1] \in Seq(Block) /\ NotAhead(g[i - 1]) /\ g[i] = g[i - 1] \o f[i - 1]
    BY <1>1
  <2>2. g[i] \in Seq(Block) /\ NotAhead(g[i])
    BY <2>0, <2>1, JoinedNotAhead
  <2> QED
    BY <2>0, <2>2
<1>4. Parts \in Good
  <2> HIDE DEF Good
  <2> QED
    BY <1>2, <1>3, AlongParts
<1> QED
  BY <1>1, <1>4

\* joinParts (parallel_archive_download.cpp) makes the beginning of the file, Total
\* blocks in their places and of the versions the parts had, of full parts in place.
LEMMA JoinIsWhole ==
  ASSUME NEW f \in [Part -> Seq(Block)], NEW V,
         \A k \in Part : Len(f[k]) = PartLen /\ InPlace(f[k], k) /\ From(f[k], V)
  PROVE  Beginning(Joined(f), Total, V)
<1>1. PICK g : /\ Joined(f) = g[Parts] /\ g[1] = f[0]
               /\ \A i \in 2 .. Parts : g[i] = g[i - 1] \o f[i - 1]
  BY JoinUnfolds
<1> DEFINE Good == {i \in 1 .. Parts : Beginning(g[i], i * PartLen, V)}
<1>2. 1 \in Good
  <2>1. Beginning(f[0], PartLen, V) /\ 1 * PartLen = PartLen
    BY Sizes DEF Beginning
  <2> QED
    BY <1>1, <2>1, Sizes
<1>3. \A i \in 2 .. Parts : i - 1 \in Good => i \in Good
  <2> SUFFICES ASSUME NEW i \in 2 .. Parts, i - 1 \in Good PROVE i \in Good
    OBVIOUS
  <2>0. i - 1 \in Part /\ i \in 1 .. Parts
    BY Sizes DEF Part
  <2>1. Beginning(g[i - 1], (i - 1) * PartLen, V) /\ g[i] = g[i - 1] \o f[i - 1]
    BY <1>1
  <2>2. Beginning(g[i - 1] \o f[i - 1], (i - 1 + 1) * PartLen, V)
    BY <2>0, <2>1, JoinStep
  <2>3. i - 1 + 1 = i
    OBVIOUS
  <2>4. Beginning(g[i], i * PartLen, V)
    BY <2>1, <2>2, <2>3
  <2> QED
    BY <2>0, <2>4
<1>4. Parts \in Good
  <2> HIDE DEF Good
  <2> QED
    BY <1>2, <1>3, AlongParts
<1> QED
  BY <1>1, <1>4 DEF Total

\* A beginning as long as the file is the file.
LEMMA BeginningIsWhole ==
  ASSUME NEW s, NEW v \in Version, Beginning(s, Total, {v})
  PROVE  WholeFile(s)
<1> DEFINE w == [i \in 1 .. Total |-> [at |-> i, ver |-> v]]
<1>1. s \in Seq(Block) /\ Len(s) = Total /\ \A i \in 1 .. Total : s[i] \in Block /\ s[i].at = i /\ s[i].ver = v
  BY Sizes, ElementOfSeq DEF Beginning, InPlace, From
<1>2. \A i \in 1 .. Total : s[i] = [at |-> i, ver |-> v]
  BY <1>1 DEF Block
<1>3. s = w
  <2>1. DOMAIN s = 1 .. Total /\ s = [i \in DOMAIN s |-> s[i]]
    BY <1>1, LenProperties
  <2> QED
    BY <1>2, <2>1
<1> QED
  BY <1>3 DEF WholeFile

-----------------------------------------------------------------------------
(* Steps that leave the files alone *)

Steady ==
    /\ DOMAIN t' = DOMAIN t
    /\ t'.arg = t.arg /\ t'.ifRange = t.ifRange /\ t'.probe = t.probe
    /\ t'.off = t.off /\ t'.got = t.got /\ t'.pos = t.pos /\ t'.append = t.append
    /\ t'.tag = t.tag /\ t'.ver = t.ver

LEMMA ReturnFacts ==
  ASSUME TransferType(t), NEW r, Return(r)
  PROVE  pc' = "judge" /\ Steady /\ t'.attempt = t.attempt /\ t'.res = r
  BY DEF Return, TransferType, Steady

LEMMA NextAttemptFacts ==
  ASSUME TransferType(t), NEW d, NextAttempt([t EXCEPT !.dead = d])
  PROVE  pc' = "attempt" /\ Steady /\ t'.attempt = t.attempt + 1
<1> DEFINE u == [t EXCEPT !.dead = d]
<1>1. /\ DOMAIN u = DOMAIN t /\ u.arg = t.arg /\ u.ifRange = t.ifRange /\ u.probe = t.probe
      /\ u.off = t.off /\ u.got = t.got /\ u.pos = t.pos /\ u.append = t.append
      /\ u.tag = t.tag /\ u.ver = t.ver /\ u.attempt = t.attempt
  BY DEF TransferType
<1>2. pc' = "attempt" /\ t' = [u EXCEPT !.attempt = u.attempt + 1]
  BY DEF NextAttempt
<1> HIDE DEF u
<1>3. {"attempt", "arg", "ifRange", "probe", "off", "got", "pos", "append", "tag", "ver"} \subseteq DOMAIN u
  BY <1>1 DEF TransferType
<1> QED
  BY <1>1, <1>2, <1>3 DEF Steady

\* What an answer, an end or a stop does that writes nothing.
Plain ==
    /\ UNCHANGED <<srv, kind, file, ckpt, job, part, risk>> /\ Steady
    /\ flag' = flag \/ flag' \in {"pause", "cancel"}
    /\ \/ /\ pc' = "judge" /\ pc \in {"open", "probe", "attempt", "wait", "body"} /\ t'.attempt = t.attempt
          /\ t'.res \in {"Ok", "Segmented"} =>
               /\ t'.res = "Ok" /\ Len(file[0]) = Total
               /\ pc = "body" \/ (pc = "wait" /\ t.ifRange \in {0, srv})
       \/ pc' = "attempt" /\ pc = "probe" /\ ~Saved /\ t'.attempt = t.attempt
       \/ pc' = "attempt" /\ pc \in {"wait", "body"} /\ t'.attempt = t.attempt + 1
       \/ pc' = pc /\ pc # "idle" /\ t' = t /\ flag' # "none"

LEMMA PlainActions ==
  ASSUME TypeInv,
         \/ ProbeFails \/ Exhausted \/ Unreachable \/ Transient \/ Permanent \/ Satisfied \/ Ended
         \/ Break \/ Stop \/ Pause \/ Cancel
         \/ (Open /\ Return("IoError")) \/ (Write /\ Return("IoError")) \/ (Mismatch /\ Return("NetworkError"))
  PROVE  Plain
<1>0. TransferType(t)
  BY DEF TypeInv
<1>1. CASE ProbeFails
  <2>1. CASE Saved
    <3>1. PICK r \in {"NetworkError", "Cancelled"} : Return(r)
      BY <1>1, <2>1 DEF ProbeFails
    <3> QED
      BY <1>0, <1>1, <3>1, ReturnFacts DEF ProbeFails, Plain, disk
  <2>2. CASE ~Saved
    BY <1>1, <2>2 DEF ProbeFails, Plain, Steady, disk
  <2> QED
    BY <2>1, <2>2
<1>2. CASE Exhausted
  BY <1>0, <1>2, ReturnFacts DEF Exhausted, Plain, disk
<1>3. CASE Unreachable
  <2> DEFINE dead == IF NoBytes THEN t.dead + 1 ELSE 0
  <2>1. CASE dead = 2
    <3>1. pc' = "judge" /\ t' = [t EXCEPT !.dead = 2, !.gone = TRUE, !.res = "NetworkError"]
      BY <1>3, <2>1 DEF Unreachable
    <3> QED
      BY <1>0, <1>3, <3>1 DEF Unreachable, Plain, Steady, disk, TransferType
  <2>2. CASE dead # 2
    <3>1. NextAttempt([t EXCEPT !.dead = dead])
      BY <1>3, <2>2 DEF Unreachable
    <3> QED
      BY <1>0, <1>3, <3>1, NextAttemptFacts DEF Unreachable, Plain, disk
  <2> QED
    BY <2>1, <2>2
<1>4. CASE Transient
  BY <1>0, <1>4, NextAttemptFacts DEF Transient, Plain, disk
<1>5. CASE Permanent
  BY <1>0, <1>5 DEF Permanent, Plain, Steady, disk, TransferType
<1>6. CASE Satisfied
  BY <1>0, <1>6, ReturnFacts DEF Satisfied, Resumable, Plain, disk
<1>7. CASE Ended
  BY <1>0, <1>7, ReturnFacts DEF Ended, Plain, disk
<1>8. CASE Break
  BY <1>0, <1>8, NextAttemptFacts DEF Break, Plain, disk
<1>9. CASE Stop
  BY <1>0, <1>9, ReturnFacts DEF Stop, Plain, disk
<1>10. CASE Pause \/ Cancel
  BY <1>10 DEF Pause, Cancel, Plain, Steady, disk
<1>11. CASE Open /\ Return("IoError")
  <2>1. pc' = "judge" /\ Steady /\ t'.attempt = t.attempt /\ t'.res = "IoError"
    BY <1>0, <1>11, ReturnFacts
  <2>2. UNCHANGED <<srv, kind, file, ckpt, job, part, risk, flag>> /\ pc = "open"
    BY <1>11, <2>1 DEF Open, disk, Return
  <2> QED
    BY <2>1, <2>2 DEF Plain
<1>12. CASE Write /\ Return("IoError")
  <2>1. pc' = "judge" /\ Steady /\ t'.attempt = t.attempt /\ t'.res = "IoError"
    BY <1>0, <1>12, ReturnFacts
  <2>2. UNCHANGED <<srv, kind, file, ckpt, job, part, risk, flag>> /\ pc = "body"
    BY <1>12, <2>1 DEF Write, Return
  <2> QED
    BY <2>1, <2>2 DEF Plain
<1>13. CASE Mismatch /\ Return("NetworkError")
  <2>1. pc' = "judge" /\ Steady /\ t'.attempt = t.attempt /\ t'.res = "NetworkError"
    BY <1>0, <1>13, ReturnFacts
  <2>2. UNCHANGED <<srv, kind, file, ckpt, job, part, risk, flag>> /\ pc = "wait"
    BY <1>13, <2>1 DEF Mismatch, NextAttempt
  <2> QED
    BY <2>1, <2>2 DEF Plain
<1> QED
  BY <1>1, <1>2, <1>3, <1>4, <1>5, <1>6, <1>7, <1>8, <1>9, <1>10, <1>11, <1>12, <1>13

LEMMA PlainKeeps == Sound /\ Plain => Sound'
<1> SUFFICES ASSUME Sound, Plain PROVE Sound'
  OBVIOUS
<1> USE DEF Sound
<1>1. UNCHANGED <<srv, kind, file, ckpt, job, part, risk>> /\ Steady
  BY DEF Plain
<1>2. TypeInv'
  <2>1. FilesType' /\ PartsType'
    BY <1>1 DEF TypeInv, FilesType, PartsType, PartType, NotAhead
  <2>2. JobType'
    BY <1>1 DEF TypeInv, JobType, Plain
  <2>3. TransferType(t)'
    <3>1. t'.attempt \in Nat
      BY <1>1 DEF TypeInv, TransferType, Plain
    <3> QED
      BY <1>1, <3>1 DEF TypeInv, TransferType, Steady
  <2> QED
    BY <2>1, <2>2, <2>3 DEF TypeInv
<1>3. NoSlip' => NoSlip /\ PartsOnDisk'
  BY <1>1 DEF NoSlip, PartsOnDisk, Plain, InPlace, Of, Steady
<1>4. NoSlip' => Ranging'
  BY <1>1 DEF NoSlip, Ranging, Plain, InRange, Received, InPlace, Steady
<1>5. NoSlip' => Offsets'
  <2>1. Saved' = Saved
    BY <1>1 DEF Saved, PrefixesValid
  <2>2. t.attempt \in Nat
    BY DEF TypeInv, TransferType
  <2>3. NoSlip' => NoSlip
    BY <1>1 DEF NoSlip
  <2> QED
    BY <1>1, <2>1, <2>2, <2>3 DEF Offsets, Plain, Steady
<1>6. risk' = {} => risk = {} /\ Versions'
  <2>1. Of(file[0], srv)' = Of(file[0], srv)
    BY <1>1 DEF Of
  <2>2. t'.tag = t.tag /\ t'.ifRange = t.ifRange /\ t'.probe = t.probe /\ t'.ver = t.ver
    BY <1>1 DEF Steady
  <2>3. flag' = "none" => flag = "none"
    BY DEF Plain
  <2>4. risk = {} /\ pc = "probe" /\ ~Saved => Of(file[0], srv)
    BY DEF NoSlip, Offsets, Of
  <2> QED
    BY <1>1, <2>1, <2>2, <2>3, <2>4 DEF Versions, Plain
<1>7. risk' = {} => Finished'
  <2> SUFFICES ASSUME risk' = {} PROVE Finished'
    OBVIOUS
  <2>1. risk = {} /\ NoSlip
    BY <1>1 DEF NoSlip
  <2>2. job'.state # "completed"
    BY <1>1, <2>1 DEF Finished, Plain
  <2>3. ASSUME pc' = "judge", flag' = "none", t'.res \in {"Ok", "Segmented"} PROVE WholeFile(Content)'
    <3>1. /\ t'.res = "Ok" /\ Len(file[0]) = Total
          /\ pc = "body" \/ (pc = "wait" /\ t.ifRange \in {0, srv})
      BY <2>3 DEF Plain
    <3>2. Of(file[0], srv) /\ InPlace(file[0], 0)
      BY <2>1, <3>1, Sizes DEF Versions, PartsOnDisk
    <3>3. srv \in Version /\ Beginning(file[0], Total, {srv})
      BY <3>1, <3>2, Sizes DEF TypeInv, FilesType, Beginning, From, Of
    <3>4. WholeFile(file[0])
      BY <3>3, BeginningIsWhole
    <3> QED
      BY <1>1, <3>1, <3>4 DEF Content, WholeFile
  <2> QED
    BY <2>2, <2>3 DEF Finished
<1> QED
  BY <1>2, <1>3, <1>4, <1>5, <1>6, <1>7

-----------------------------------------------------------------------------
(* The serial attempts *)

LEMMA AttemptFacts ==
  ASSUME TypeInv, Attempt
  PROVE  /\ DOMAIN t' = DOMAIN t /\ t'.arg = t.arg /\ t'.ifRange = t.ifRange /\ t'.probe = t.probe
         /\ t'.append = t.append /\ t'.attempt = t.attempt /\ t'.tag = 0 /\ t'.ver = 0
         /\ t.attempt = 0 => t'.off = t.off /\ t'.got = t.got /\ t'.pos = t.pos
         /\ t.attempt > 0 /\ t.got > 0 => t'.off = t.off + t.got /\ t'.got = 0 /\ t'.pos = Len(file[0])
         /\ t.attempt > 0 /\ t.got = 0 =>
              t'.off = t.off /\ t'.got = 0 /\ t'.pos = IF t.arg = 0 THEN 0 ELSE t.pos
         /\ \/ pc' = "wait" /\ flag = "none"
            \/ pc' = "judge" /\ flag # "none" /\ t'.res = "Cancelled"
<1> DEFINE r == Repositioned
           w == IF t.attempt > 0 THEN r ELSE t
           u == [w EXCEPT !.tag = 0, !.ver = 0]
<1>0. TransferType(t)
  BY DEF TypeInv
<1>1. /\ DOMAIN r = DOMAIN t /\ r.arg = t.arg /\ r.ifRange = t.ifRange /\ r.probe = t.probe
      /\ r.append = t.append /\ r.attempt = t.attempt
      /\ t.got > 0 => r.off = t.off + t.got /\ r.got = 0 /\ r.pos = Len(file[0])
      /\ t.got = 0 => r.off = t.off /\ r.got = 0 /\ r.pos = IF t.arg = 0 THEN 0 ELSE t.pos
  <2>1. CASE t.got > 0
    <3>1. r = [t EXCEPT !.off = t.off + t.got, !.got = 0, !.pos = Len(file[0])]
      BY <2>1 DEF Repositioned
    <3> QED
      BY <1>0, <2>1, <3>1 DEF TransferType
  <2>2. CASE ~(t.got > 0)
    <3>1. r = [t EXCEPT !.pos = IF t.arg = 0 THEN 0 ELSE t.pos]
      BY <2>2 DEF Repositioned
    <3> QED
      BY <1>0, <2>2, <3>1 DEF TransferType
  <2> QED
    BY <2>1, <2>2
<1> HIDE DEF r
<1>2. /\ DOMAIN w = DOMAIN t /\ w.arg = t.arg /\ w.ifRange = t.ifRange /\ w.probe = t.probe
      /\ w.append = t.append /\ w.attempt = t.attempt
      /\ t.attempt = 0 => w.off = t.off /\ w.got = t.got /\ w.pos = t.pos
      /\ t.attempt > 0 /\ t.got > 0 => w.off = t.off + t.got /\ w.got = 0 /\ w.pos = Len(file[0])
      /\ t.attempt > 0 /\ t.got = 0 =>
           w.off = t.off /\ w.got = 0 /\ w.pos = IF t.arg = 0 THEN 0 ELSE t.pos
  <2>1. CASE t.attempt > 0
    BY <1>0, <1>1, <2>1 DEF TransferType
  <2>2. CASE ~(t.attempt > 0)
    BY <1>0, <2>2 DEF TransferType
  <2> QED
    BY <2>1, <2>2
<1>3. (IF flag = "none" THEN pc' = "wait" /\ t' = u ELSE pc' = "judge" /\ t' = [u EXCEPT !.res = "Cancelled"])
  BY DEF Attempt, r
<1> HIDE DEF w
<1>4. {"attempt", "arg", "ifRange", "probe", "off", "got", "pos", "append", "tag", "ver", "res"} \subseteq DOMAIN w
  BY <1>0, <1>2 DEF TransferType
<1>5. /\ DOMAIN u = DOMAIN w /\ u.arg = w.arg /\ u.ifRange = w.ifRange /\ u.probe = w.probe
      /\ u.append = w.append /\ u.attempt = w.attempt /\ u.off = w.off /\ u.got = w.got /\ u.pos = w.pos
      /\ u.tag = 0 /\ u.ver = 0
  BY <1>4
<1> HIDE DEF u
<1>6. /\ DOMAIN t' = DOMAIN w /\ t'.arg = w.arg /\ t'.ifRange = w.ifRange /\ t'.probe = w.probe
      /\ t'.append = w.append /\ t'.attempt = w.attempt /\ t'.off = w.off /\ t'.got = w.got /\ t'.pos = w.pos
      /\ t'.tag = 0 /\ t'.ver = 0
  <2>1. CASE flag = "none"
    BY <1>3, <1>5, <2>1
  <2>2. CASE flag # "none"
    BY <1>3, <1>4, <1>5, <2>2
  <2> QED
    BY <2>1, <2>2
<1>7. \/ pc' = "wait" /\ flag = "none"
      \/ pc' = "judge" /\ flag # "none" /\ t'.res = "Cancelled"
  BY <1>3, <1>4, <1>5
<1> QED
  BY <1>2, <1>6, <1>7

LEMMA AttemptKeeps == Sound /\ Attempt => Sound'
<1> SUFFICES ASSUME Sound, Attempt PROVE Sound'
  OBVIOUS
<1> USE DEF Sound
<1>0. pc = "attempt" /\ UNCHANGED <<srv, kind, file, ckpt, job, flag, part>>
  BY DEF Attempt, disk
<1>1. /\ DOMAIN t' = DOMAIN t /\ t'.arg = t.arg /\ t'.ifRange = t.ifRange /\ t'.probe = t.probe
      /\ t'.append = t.append /\ t'.attempt = t.attempt /\ t'.tag = 0 /\ t'.ver = 0
      /\ t.attempt = 0 => t'.off = t.off /\ t'.got = t.got /\ t'.pos = t.pos
      /\ t.attempt > 0 /\ t.got > 0 => t'.off = t.off + t.got /\ t'.got = 0 /\ t'.pos = Len(file[0])
      /\ t.attempt > 0 /\ t.got = 0 =>
           t'.off = t.off /\ t'.got = 0 /\ t'.pos = IF t.arg = 0 THEN 0 ELSE t.pos
      /\ \/ pc' = "wait" /\ flag = "none"
         \/ pc' = "judge" /\ flag # "none" /\ t'.res = "Cancelled"
  BY AttemptFacts
<1>2. /\ risk' = {} => risk = {}
      /\ NoSlip' => NoSlip /\ ~(t.attempt > 0 /\ t.got = 0 /\ t.arg = 0 /\ t.off > 0 /\ ~t.append)
  BY DEF Attempt, NoSlip
<1>t. /\ t.attempt \in Nat /\ t.off \in Nat /\ t.got \in Nat /\ t.pos \in Nat /\ t.arg \in Nat /\ t.append \in BOOLEAN
      /\ file[0] \in Seq(Block) /\ Len(file[0]) \in Nat /\ srv \in Nat
  BY Sizes DEF TypeInv, TransferType, FilesType
<1>3. TypeInv'
  <2>1. FilesType' /\ PartsType' /\ JobType'
    BY <1>0 DEF TypeInv, FilesType, PartsType, PartType, NotAhead, JobType
  <2>2. t'.off \in Nat /\ t'.got \in Nat /\ t'.pos \in Nat
    BY <1>1, <1>t
  <2>3. TransferType(t)'
    BY <1>0, <1>1, <2>2, <1>t DEF TypeInv, TransferType
  <2> QED
    BY <2>1, <2>3 DEF TypeInv
<1>4. NoSlip' => PartsOnDisk' /\ Ranging'
  BY <1>0, <1>1, <1>2 DEF PartsOnDisk, Ranging, InPlace
<1>5. NoSlip' => Offsets'
  <2> SUFFICES ASSUME NoSlip' PROVE Offsets'
    OBVIOUS
  <2>1. CASE flag = "none"
    <3>1. t.off + t.got = Len(file[0]) /\ (~t.append => t.pos = t.off + t.got) /\ (t.attempt = 0 => t.got = 0)
      BY <1>0, <1>2, <2>1 DEF Offsets
    <3>2. t'.got = 0 /\ t'.off = Len(file[0]) /\ (~t'.append => t'.pos = t'.off)
      <4>1. CASE t.attempt = 0
        BY <1>1, <1>t, <3>1, <4>1
      <4>2. CASE t.attempt > 0 /\ t.got > 0
        BY <1>1, <1>t, <3>1, <4>2
      <4>3. CASE t.attempt > 0 /\ t.got = 0
        BY <1>1, <1>2, <1>t, <3>1, <4>3
      <4> QED
        BY <1>t, <4>1, <4>2, <4>3
    <3> QED
      BY <1>0, <1>1, <1>t, <2>1, <3>2 DEF Offsets
  <2>2. CASE flag # "none"
    BY <1>0, <1>1, <2>2 DEF Offsets
  <2> QED
    BY <2>1, <2>2
<1>6. risk' = {} => Versions'
  <2>1. Of(file[0], srv)' = Of(file[0], srv)
    BY <1>0 DEF Of
  <2> QED
    BY <1>0, <1>1, <1>2, <2>1 DEF Versions
<1>7. risk' = {} => Finished'
  BY <1>0, <1>1, <1>2 DEF Finished
<1> QED
  BY <1>2, <1>3, <1>4, <1>5, <1>6, <1>7

LEMMA AnsweredFacts ==
  ASSUME NEW u, {"arg", "ifRange", "probe", "attempt", "off", "got", "pos", "append", "tag", "ver", "dead"} \subseteq DOMAIN u
  PROVE  /\ DOMAIN Answered(u) = DOMAIN u
         /\ Answered(u).arg = u.arg /\ Answered(u).ifRange = u.ifRange /\ Answered(u).probe = u.probe
         /\ Answered(u).attempt = u.attempt /\ Answered(u).off = u.off /\ Answered(u).got = u.got
         /\ Answered(u).pos = u.pos /\ Answered(u).append = u.append
         /\ Answered(u).ver = srv /\ Answered(u).tag \in {0, srv}
  BY DEF Answered

\* payload.part is emptied.
LEMMA Emptied ==
  ASSUME FilesType, file' = [file EXCEPT ![0] = <<>>], UNCHANGED <<srv, kind, ckpt>>
  PROVE  /\ FilesType' /\ file'[0] = <<>>
         /\ \A k \in Part : file'[k] = file[k] \/ file'[k] = <<>>
<1>1. file' \in [Part -> Seq(Block)] /\ file'[0] = <<>> /\ \A k \in Part : file'[k] = file[k] \/ file'[k] = <<>>
  BY Sizes DEF FilesType
<1>2. \A k \in Part : NotAhead(file[k])'
  BY <1>1 DEF FilesType, NotAhead
<1> QED
  BY <1>1, <1>2 DEF FilesType

\* What is in place stays in place when files are kept or emptied outside the ranges.
LEMMA KeptOrEmpty ==
  ASSUME PartsOnDisk, pc # "ranges", pc' \notin {"setup", "body"},
         \A k \in Part : file'[k] = file[k] \/ file'[k] = <<>>, ckpt' = ckpt
  PROVE  PartsOnDisk'
  BY DEF PartsOnDisk, InPlace

LEMMA FullKeeps == Sound /\ Full => Sound'
<1> SUFFICES ASSUME Sound, Full PROVE Sound'
  OBVIOUS
<1> USE DEF Sound
<1>0. pc = "wait" /\ pc' = "body" /\ UNCHANGED <<srv, kind, ckpt, job, flag, part, risk>>
  BY DEF Full
<1>t. /\ t.attempt \in Nat /\ t.off \in Nat /\ t.got \in Nat /\ t.pos \in Nat /\ t.arg \in Nat /\ t.append \in BOOLEAN
      /\ file[0] \in Seq(Block) /\ Len(file[0]) \in Nat /\ srv \in Nat
  BY Sizes DEF TypeInv, TransferType, FilesType
<1>1. /\ DOMAIN t' = DOMAIN t /\ t'.arg = t.arg /\ t'.ifRange = t.ifRange /\ t'.probe = t.probe
      /\ t'.attempt = t.attempt /\ t'.ver = srv /\ t'.tag \in {0, srv}
      /\ \/ /\ file' = [file EXCEPT ![0] = <<>>]
            /\ t'.off = 0 /\ t'.got = 0 /\ t'.pos = 0 /\ t'.append = FALSE
         \/ /\ t.off = 0 /\ file' = file
            /\ t'.off = t.off /\ t'.got = t.got /\ t'.pos = t.pos /\ t'.append = t.append
  <2>1. CASE t.off > 0
    <3> DEFINE u == [t EXCEPT !.off = 0, !.got = 0, !.pos = 0, !.append = FALSE]
    <3>1. /\ DOMAIN u = DOMAIN t /\ u.arg = t.arg /\ u.ifRange = t.ifRange /\ u.probe = t.probe
          /\ u.attempt = t.attempt /\ u.off = 0 /\ u.got = 0 /\ u.pos = 0 /\ u.append = FALSE
      BY DEF TypeInv, TransferType
    <3>2. t' = Answered(u) /\ file' = [file EXCEPT ![0] = <<>>]
      BY <2>1 DEF Full
    <3> HIDE DEF u
    <3>3. {"arg", "ifRange", "probe", "attempt", "off", "got", "pos", "append", "tag", "ver", "dead"} \subseteq DOMAIN u
      BY <3>1 DEF TypeInv, TransferType
    <3> QED
      BY <3>1, <3>2, <3>3, AnsweredFacts
  <2>2. CASE ~(t.off > 0)
    <3>1. t' = Answered(t) /\ file' = file /\ t.off = 0
      BY <2>2, <1>t DEF Full
    <3>2. {"arg", "ifRange", "probe", "attempt", "off", "got", "pos", "append", "tag", "ver", "dead"} \subseteq DOMAIN t
      BY DEF TypeInv, TransferType
    <3> QED
      BY <3>1, <3>2, AnsweredFacts
  <2> QED
    BY <2>1, <2>2
<1>2. FilesType' /\ (\A k \in Part : file'[k] = file[k] \/ file'[k] = <<>>)
  <2>1. CASE file' = file
    BY <1>0, <2>1 DEF TypeInv, FilesType, NotAhead
  <2>2. CASE file' = [file EXCEPT ![0] = <<>>]
    BY <1>0, <2>2, Emptied DEF TypeInv
  <2> QED
    BY <1>1, <2>1, <2>2
<1>3. TypeInv'
  <2>1. PartsType' /\ JobType'
    BY <1>0 DEF TypeInv, PartsType, PartType, NotAhead, JobType
  <2>2. t'.off \in Nat /\ t'.got \in Nat /\ t'.pos \in Nat /\ t'.append \in BOOLEAN
    <3>1. \/ t'.off = 0 /\ t'.got = 0 /\ t'.pos = 0 /\ t'.append = FALSE
          \/ t'.off = t.off /\ t'.got = t.got /\ t'.pos = t.pos /\ t'.append = t.append
      BY <1>1, Zenon
    <3>2. t'.append \in BOOLEAN
      BY <1>t, <3>1, Zenon
    <3> QED
      BY <1>t, <3>1, <3>2
  <2>3. t'.tag \in Nat /\ t'.ver \in Nat /\ t'.tag <= srv' /\ t'.ver <= srv'
    BY <1>0, <1>1, <1>t
  <2>4. TransferType(t)'
    BY <1>0, <1>1, <2>2, <2>3 DEF TypeInv, TransferType
  <2> QED
    BY <1>2, <2>1, <2>4 DEF TypeInv
<1>4. NoSlip' => NoSlip
  BY <1>0 DEF NoSlip
<1>5. NoSlip' => PartsOnDisk' /\ Ranging'
  <2>1. ckpt' <= t'.ver
    BY <1>0, <1>1 DEF TypeInv, FilesType
  <2> QED
    BY <1>0, <1>1, <1>2, <1>4, <2>1 DEF PartsOnDisk, InPlace, Ranging
<1>6. NoSlip' => Offsets' /\ Len(file'[0]) = t'.off + t'.got /\ (t'.off = 0 => file'[0] = <<>>)
  <2> SUFFICES ASSUME NoSlip' PROVE Offsets' /\ Len(file'[0]) = t'.off + t'.got /\ (t'.off = 0 => file'[0] = <<>>)
    OBVIOUS
  <2>1. t.got = 0 /\ t.off = Len(file[0]) /\ (~t.append => t.pos = t.off)
    BY <1>0, <1>4, <1>t DEF Offsets
  <2>2. file[0] = <<>> \/ t.off # 0
    BY <2>1, <1>t, EmptySeq
  <2>3. t'.off + t'.got = Len(file'[0]) /\ (~t'.append => t'.pos = t'.off + t'.got) /\ (t'.off = 0 => file'[0] = <<>>)
    BY <1>1, <1>t, <2>1, <2>2, Sizes DEF TypeInv, FilesType
  <2> QED
    BY <1>0, <2>3 DEF Offsets
<1>7. risk' = {} => Versions' /\ Finished'
  <2> SUFFICES ASSUME risk' = {} PROVE Versions' /\ Finished'
    OBVIOUS
  <2>1. risk = {} /\ NoSlip /\ NoSlip'
    BY <1>0 DEF NoSlip
  <2>2. file'[0] = <<>>
    <3>1. CASE file' = [file EXCEPT ![0] = <<>>]
      BY <3>1, Sizes DEF TypeInv, FilesType
    <3>2. CASE t.off = 0 /\ file' = file
      BY <1>0, <1>t, <2>1, <3>2, EmptySeq DEF Offsets
    <3> QED
      BY <1>1, <3>1, <3>2
  <2>3. Of(file[0], srv)'
    BY <2>2 DEF Of
  <2> QED
    BY <1>0, <1>1, <2>1, <2>3 DEF Versions, Finished
<1> QED
  BY <1>3, <1>4, <1>5, <1>6, <1>7

LEMMA PartialKeeps == Sound /\ Partial => Sound'
<1> SUFFICES ASSUME Sound, Partial PROVE Sound'
  OBVIOUS
<1> USE DEF Sound
<1>0. pc = "wait" /\ pc' = "body" /\ UNCHANGED <<srv, kind, file, ckpt, job, flag, part, risk>> /\ t.ifRange \in {0, srv}
  BY DEF Partial, disk, Resumable
<1>1. /\ DOMAIN t' = DOMAIN t /\ t'.arg = t.arg /\ t'.ifRange = t.ifRange /\ t'.probe = t.probe
      /\ t'.attempt = t.attempt /\ t'.ver = srv /\ t'.tag \in {0, srv}
      /\ t'.off = t.off /\ t'.got = t.got /\ t'.pos = t.pos /\ t'.append = t.append
  <2>1. t' = Answered(t)
    BY DEF Partial
  <2>2. {"arg", "ifRange", "probe", "attempt", "off", "got", "pos", "append", "tag", "ver", "dead"} \subseteq DOMAIN t
    BY DEF TypeInv, TransferType
  <2> QED
    BY <2>1, <2>2, AnsweredFacts
<1>2. NoSlip' => NoSlip
  BY <1>0 DEF NoSlip
<1>3. TypeInv'
  <2>1. FilesType' /\ PartsType' /\ JobType'
    BY <1>0 DEF TypeInv, FilesType, PartsType, PartType, NotAhead, JobType
  <2>2. TransferType(t)'
    BY <1>0, <1>1 DEF TypeInv, TransferType, FilesType
  <2> QED
    BY <2>1, <2>2 DEF TypeInv
<1>4. NoSlip' => PartsOnDisk' /\ Ranging'
  <2>1. ckpt' <= t'.ver
    BY <1>0, <1>1 DEF TypeInv, FilesType
  <2> QED
    BY <1>0, <1>1, <1>2, <2>1 DEF PartsOnDisk, InPlace, Ranging
<1>5. NoSlip' => Offsets'
  BY <1>0, <1>1, <1>2 DEF Offsets
<1>6. risk' = {} => Versions' /\ Finished'
  <2>1. Of(file[0], srv)' = Of(file[0], srv)
    BY <1>0 DEF Of
  <2> QED
    BY <1>0, <1>1, <2>1 DEF Versions, Finished
<1> QED
  BY <1>2, <1>3, <1>4, <1>5, <1>6

LEMMA MismatchKeeps == Sound /\ Mismatch => Sound'
<1> SUFFICES ASSUME Sound, Mismatch, ~Return("NetworkError") PROVE Sound'
  BY PlainActions, PlainKeeps DEF Sound
<1> USE DEF Sound
<1> DEFINE u == [t EXCEPT !.used = TRUE, !.off = 0, !.got = 0, !.pos = 0, !.append = FALSE]
<1>0. /\ pc = "wait" /\ pc' = "attempt" /\ UNCHANGED <<srv, kind, ckpt, job, flag, part, risk>>
      /\ file' = [file EXCEPT ![0] = <<>>]
      /\ t' = [u EXCEPT !.attempt = u.attempt + 1]
  BY DEF Mismatch, NextAttempt
<1>1. /\ DOMAIN u = DOMAIN t /\ u.arg = t.arg /\ u.ifRange = t.ifRange /\ u.probe = t.probe
      /\ u.attempt = t.attempt /\ u.off = 0 /\ u.got = 0 /\ u.pos = 0 /\ u.append = FALSE
      /\ u.tag = t.tag /\ u.ver = t.ver
  BY DEF TypeInv, TransferType
<1> HIDE DEF u
<1>2. /\ DOMAIN t' = DOMAIN t /\ t'.arg = t.arg /\ t'.ifRange = t.ifRange /\ t'.probe = t.probe
      /\ t'.attempt = t.attempt + 1 /\ t'.off = 0 /\ t'.got = 0 /\ t'.pos = 0 /\ t'.append = FALSE
      /\ t'.tag = t.tag /\ t'.ver = t.ver
  BY <1>0, <1>1 DEF TypeInv, TransferType
<1>3. FilesType' /\ file'[0] = <<>> /\ (\A k \in Part : file'[k] = file[k] \/ file'[k] = <<>>)
  BY <1>0, Emptied DEF TypeInv
<1>4. TypeInv'
  <2>1. PartsType' /\ JobType'
    BY <1>0 DEF TypeInv, PartsType, PartType, NotAhead, JobType
  <2>2. t'.attempt \in Nat /\ t'.off \in Nat /\ t'.got \in Nat /\ t'.pos \in Nat
    BY <1>2 DEF TypeInv, TransferType
  <2>a. t'.append \in BOOLEAN
    BY <1>2, Zenon
  <2>3. TransferType(t)'
    BY <1>0, <1>2, <2>2, <2>a DEF TypeInv, TransferType
  <2> QED
    BY <1>3, <2>1, <2>3 DEF TypeInv
<1>5. NoSlip' => NoSlip
  BY <1>0 DEF NoSlip
<1>6. NoSlip' => PartsOnDisk' /\ Ranging'
  BY <1>0, <1>3, <1>5, KeptOrEmpty DEF Ranging
<1>7. NoSlip' => Offsets'
  <2>1. t'.attempt # 0
    BY <1>2 DEF TypeInv, TransferType
  <2>2. Len(file'[0]) = 0
    BY <1>3
  <2> QED
    BY <1>0, <1>2, <2>1, <2>2 DEF Offsets
<1>8. risk' = {} => Versions' /\ Finished'
  <2>1. Of(file[0], srv)'
    BY <1>3 DEF Of
  <2> QED
    BY <1>0, <1>2, <2>1 DEF Versions, Finished
<1> QED
  BY <1>4, <1>5, <1>6, <1>7, <1>8

LEMMA WriteKeeps == Sound /\ Write => Sound'
<1> SUFFICES ASSUME Sound, Write, ~Return("IoError") PROVE Sound'
  BY PlainActions, PlainKeeps DEF Sound
<1> USE DEF Sound
<1> DEFINE s == file[0]
           pos == IF t.append THEN Len(s) ELSE t.pos
           block == [at |-> t.off + t.got + 1, ver |-> t.ver]
           new == IF pos < Len(s) THEN ReplaceAt(s, pos + 1, block) ELSE Append(s, block)
<1>t. /\ t.attempt \in Nat /\ t.off \in Nat /\ t.got \in Nat /\ t.pos \in Nat /\ t.append \in BOOLEAN
      /\ t.ver \in Nat /\ t.ver <= srv
      /\ s \in Seq(Block) /\ Len(s) \in Nat /\ srv \in Nat /\ NotAhead(s)
  BY Sizes DEF TypeInv, TransferType, FilesType
<1>0. /\ pc = "body" /\ pc' = "body" /\ UNCHANGED <<srv, kind, ckpt, job, flag, part, risk>> /\ flag = "none"
      /\ file' = [file EXCEPT ![0] = new]
      /\ t' = [t EXCEPT !.got = t.got + 1, !.pos = pos + 1]
  BY DEF Write
<1>1. /\ DOMAIN t' = DOMAIN t /\ t'.arg = t.arg /\ t'.ifRange = t.ifRange /\ t'.probe = t.probe
      /\ t'.attempt = t.attempt /\ t'.ver = t.ver /\ t'.tag = t.tag
      /\ t'.off = t.off /\ t'.got = t.got + 1 /\ t'.pos = pos + 1 /\ t'.append = t.append
  BY <1>0 DEF TypeInv, TransferType
<1>2. block \in Block /\ block.at = t.off + t.got + 1 /\ block.ver = t.ver
  BY <1>t DEF Block
<1>3. pos \in Nat
  BY <1>t
<1> HIDE DEF block
<1>4. new \in Seq(Block) /\ NotAhead(new)
  <2>1. CASE pos < Len(s)
    <3>1. pos + 1 \in 1 .. Len(s)
      BY <1>3, <1>t, <2>1
    <3>2. new = [s EXCEPT ![pos + 1] = block]
      BY <2>1 DEF ReplaceAt
    <3> HIDE DEF new, s, pos
    <3>3. /\ new \in Seq(Block) /\ Len(new) = Len(s)
          /\ \A j \in 1 .. Len(s) : new[j] = IF j = pos + 1 THEN block ELSE s[j]
      BY <1>t, <1>2, <3>1, <3>2, ExceptSeq
    <3> QED
      BY <1>t, <1>2, <3>3 DEF NotAhead
  <2>2. CASE ~(pos < Len(s))
    <3>2. new = Append(s, block)
      BY <2>2
    <3> HIDE DEF new, s, pos
    <3>3. /\ new \in Seq(Block) /\ Len(new) = Len(s) + 1
          /\ \A j \in 1 .. Len(s) : new[j] = s[j]
          /\ new[Len(s) + 1] = block
      BY <1>t, <1>2, <3>2, AppendProperties
    <3> QED
      BY <1>t, <1>2, <3>3 DEF NotAhead
  <2> QED
    BY <2>1, <2>2
<1>5. file' \in [Part -> Seq(Block)] /\ file'[0] = new /\ \A k \in Part : k # 0 => file'[k] = file[k]
  BY <1>0, <1>4, Sizes DEF TypeInv, FilesType
<1>6. TypeInv'
  <2>1. PartsType' /\ JobType'
    BY <1>0 DEF TypeInv, PartsType, PartType, NotAhead, JobType
  <2>2. \A k \in Part : NotAhead(file[k])'
    <3> HIDE DEF new
    <3> QED
      BY <1>0, <1>4, <1>5 DEF TypeInv, FilesType, NotAhead
  <2>3. FilesType'
    BY <1>0, <1>5, <2>2 DEF TypeInv, FilesType
  <2>4. t'.got \in Nat /\ t'.pos \in Nat
    BY <1>1, <1>3, <1>t
  <2>5. TransferType(t)'
    <3> HIDE DEF pos
    <3> QED
      BY <1>0, <1>1, <2>4 DEF TypeInv, TransferType
  <2> QED
    BY <2>1, <2>3, <2>5 DEF TypeInv
<1>7. NoSlip' => /\ NoSlip /\ t.off + t.got = Len(s) /\ pos = Len(s) /\ Len(new) = Len(s) + 1
                 /\ \A j \in 1 .. Len(s) : new[j] = s[j]
                 /\ new[Len(s) + 1] = block
  <2> SUFFICES ASSUME NoSlip' PROVE /\ NoSlip /\ t.off + t.got = Len(s) /\ pos = Len(s) /\ Len(new) = Len(s) + 1
                 /\ \A j \in 1 .. Len(s) : new[j] = s[j]
                 /\ new[Len(s) + 1] = block
    OBVIOUS
  <2>1. NoSlip
    BY <1>0 DEF NoSlip
  <2>2. t.off + t.got = Len(s) /\ pos = Len(s)
    BY <1>0, <1>t, <2>1 DEF Offsets
  <2>3. new = Append(s, block)
    BY <2>2, <1>t
  <2> HIDE DEF new, s, pos
  <2> QED
    BY <1>t, <1>2, <2>1, <2>2, <2>3, AppendProperties
<1> HIDE DEF new, pos
<1>8. NoSlip' => PartsOnDisk' /\ Ranging'
  <2> SUFFICES ASSUME NoSlip' PROVE PartsOnDisk' /\ Ranging'
    OBVIOUS
  <2>1. InPlace(s, 0) /\ (\A i \in 1 .. Len(s) : ckpt <= s[i].ver) /\ ckpt <= t.ver
    BY <1>0, <1>7, Sizes DEF PartsOnDisk
  <2>2. InPlace(new, 0) /\ (\A i \in 1 .. Len(new) : ckpt <= new[i].ver)
    <3> HIDE DEF s
    <3> QED
      BY <1>2, <1>7, <1>t, <2>1, Sizes DEF InPlace
  <2>3. \A k \in Part : InPlace(file'[k], k) /\ \A i \in 1 .. Len(file'[k]) : ckpt <= file'[k][i].ver
    <3> SUFFICES ASSUME NEW k \in Part
                 PROVE  InPlace(file'[k], k) /\ \A i \in 1 .. Len(file'[k]) : ckpt <= file'[k][i].ver
      OBVIOUS
    <3>1. CASE k = 0
      BY <1>5, <2>2, <3>1
    <3>2. CASE k # 0
      BY <1>0, <1>5, <1>7, <3>2 DEF PartsOnDisk
    <3> QED
      BY <3>1, <3>2
  <2> QED
    BY <1>0, <1>1, <2>1, <2>3 DEF PartsOnDisk, InPlace, Ranging
<1>9. NoSlip' => Offsets'
  BY <1>0, <1>1, <1>5, <1>7, <1>t DEF Offsets
<1>10. risk' = {} => Versions' /\ Finished'
  <2> SUFFICES ASSUME risk' = {} PROVE Versions' /\ Finished'
    OBVIOUS
  <2>1. risk = {} /\ NoSlip'
    BY <1>0 DEF NoSlip
  <2>2. Of(s, srv) /\ t.ver = srv
    BY <1>0, <2>1 DEF Versions
  <2>3. Of(file'[0], srv)
    <3> HIDE DEF s
    <3> QED
      BY <1>2, <1>5, <1>7, <1>t, <2>1, <2>2 DEF Of
  <2>4. Of(file[0], srv)'
    BY <1>0, <2>3 DEF Of
  <2> QED
    BY <1>0, <1>1, <2>1, <2>2, <2>4 DEF Versions, Finished
<1> QED
  BY <1>6, <1>7, <1>8, <1>9, <1>10

-----------------------------------------------------------------------------
(* The session around the attempts *)

LEMMA NoTransferFacts ==
  /\ {"outer", "arg", "ifRange", "probe", "retry", "attempt", "off", "got", "pos", "append",
      "used", "dead", "tag", "ver", "res", "gone"} \subseteq DOMAIN NoTransfer
  /\ NoTransfer.arg = 0 /\ NoTransfer.ifRange = 0 /\ NoTransfer.probe = 0 /\ NoTransfer.attempt = 0
  /\ NoTransfer.off = 0 /\ NoTransfer.got = 0 /\ NoTransfer.pos = 0 /\ NoTransfer.append = FALSE
  /\ NoTransfer.tag = 0 /\ NoTransfer.ver = 0
  BY DEF NoTransfer

LEMMA StartKeeps == Sound /\ Start => Sound'
<1> SUFFICES ASSUME Sound, Start PROVE Sound'
  OBVIOUS
<1> USE DEF Sound
<1>0. /\ pc = "idle" /\ pc' = "open" /\ UNCHANGED <<srv, kind, file, ckpt, part, risk>> /\ flag' = "none"
      /\ job' = [job EXCEPT !.state = "running"]
      /\ t' = [NoTransfer EXCEPT !.arg = IF Saved THEN 0 ELSE Len(file[0])]
  BY DEF Start, disk
<1>t. Len(file[0]) \in Nat /\ srv \in Nat
  BY Sizes DEF TypeInv, FilesType
<1>1. /\ DOMAIN t' = DOMAIN NoTransfer /\ t'.arg = IF Saved THEN 0 ELSE Len(file[0])
      /\ t'.probe = 0 /\ t'.attempt = 0 /\ t'.off = 0 /\ t'.got = 0 /\ t'.pos = 0 /\ t'.append = FALSE
      /\ t'.tag = 0 /\ t'.ver = 0
  BY <1>0, NoTransferFacts
<1>2. job'.tag = job.tag /\ job'.state = "running" /\ DOMAIN job' = DOMAIN job
  BY <1>0 DEF TypeInv, JobType
<1>3. TypeInv'
  <2>1. FilesType' /\ PartsType' /\ JobType'
    BY <1>0, <1>2 DEF TypeInv, FilesType, PartsType, PartType, NotAhead, JobType
  <2>2. t'.arg \in Nat
    BY <1>1, <1>t
  <2>3. t'.append \in BOOLEAN
    BY <1>1, Zenon
  <2>4. TransferType(t)'
    BY <1>0, <1>1, <1>t, <2>2, <2>3, NoTransferFacts DEF TransferType
  <2> QED
    BY <2>1, <2>4 DEF TypeInv
<1>4. NoSlip' => NoSlip /\ PartsOnDisk' /\ Ranging'
  BY <1>0 DEF NoSlip, PartsOnDisk, InPlace, Ranging
<1>5. Offsets'
  BY <1>0, <1>1 DEF Offsets
<1>6. risk' = {} => Versions' /\ Finished'
  <2>1. Of(file[0], srv)' = Of(file[0], srv)
    BY <1>0 DEF Of
  <2> QED
    BY <1>0, <1>1, <1>2, <2>1 DEF Versions, Finished
<1> QED
  BY <1>3, <1>4, <1>5, <1>6

LEMMA OpenKeeps == Sound /\ Open => Sound'
<1> SUFFICES ASSUME Sound, Open, ~Return("IoError") PROVE Sound'
  BY PlainActions, PlainKeeps DEF Sound
<1> USE DEF Sound
<1> DEFINE tag == IF t.arg > 0 THEN job.tag ELSE 0
<1>0. /\ pc = "open" /\ UNCHANGED <<srv, kind, ckpt, job, flag, part>>
      /\ file' = IF t.arg = 0 /\ ~Saved THEN [file EXCEPT ![0] = <<>>] ELSE file
      /\ pc' = IF t.arg = 0 /\ flag = "none" THEN "probe" ELSE "attempt"
      /\ risk' = IF t.arg > 0 /\ tag = 0 THEN risk \cup {"untagged"} ELSE risk
  BY DEF Open
<1>u. t' = [t EXCEPT !.ifRange = tag, !.off = t.arg, !.got = 0, !.pos = 0,
                     !.append = (t.arg > 0 \/ Saved), !.attempt = 0,
                     !.used = FALSE, !.dead = 0, !.tag = 0, !.ver = 0, !.probe = 0,
                     !.retry = 0, !.res = "none", !.gone = FALSE]
  BY DEF Open
<1>t. /\ t.arg \in Nat /\ Len(file[0]) \in Nat /\ srv \in Nat /\ job.tag \in Nat
  BY Sizes DEF TypeInv, FilesType, TransferType, JobType
<1>1. /\ DOMAIN t' = DOMAIN t /\ t'.arg = t.arg /\ t'.ifRange = tag /\ t'.off = t.arg /\ t'.got = 0 /\ t'.pos = 0
      /\ t'.attempt = 0 /\ t'.tag = 0 /\ t'.ver = 0 /\ t'.probe = 0
  <2> HIDE DEF tag
  <2>1. {"outer", "arg", "ifRange", "probe", "retry", "attempt", "off", "got", "pos", "append",
         "used", "dead", "tag", "ver", "res", "gone"} \subseteq DOMAIN t
    BY DEF TypeInv, TransferType
  <2> QED
    BY <1>u, <2>1
<1>a. t'.append \in BOOLEAN /\ (t.arg > 0 => t'.append)
  <2>1. t'.append = (t.arg > 0 \/ Saved)
    <3> HIDE DEF tag
    <3> QED
      BY <1>u DEF TypeInv, TransferType
  <2> QED
    BY <2>1, Zenon
<1>2. FilesType' /\ (\A k \in Part : file'[k] = file[k] \/ file'[k] = <<>>)
  <2>1. CASE file' = file
    BY <1>0, <2>1 DEF TypeInv, FilesType, NotAhead
  <2>2. CASE file' = [file EXCEPT ![0] = <<>>]
    BY <1>0, <2>2, Emptied DEF TypeInv
  <2> QED
    BY <1>0, <2>1, <2>2
<1>3. TypeInv'
  <2>1. PartsType' /\ JobType'
    BY <1>0 DEF TypeInv, PartsType, PartType, NotAhead, JobType
  <2>3. TransferType(t)'
    <3> HIDE DEF tag
    <3> QED
      BY <1>0, <1>1, <1>a, <1>t DEF TypeInv, TransferType
  <2> QED
    BY <1>2, <2>1, <2>3 DEF TypeInv
<1>4. /\ NoSlip' => NoSlip
      /\ risk' = {} => risk = {} /\ NoSlip' /\ ~(t.arg > 0 /\ tag = 0)
  BY <1>0 DEF NoSlip
<1>5. NoSlip' => PartsOnDisk' /\ Ranging'
  BY <1>0, <1>2, <1>4, KeptOrEmpty DEF Ranging
<1>6. NoSlip' => Offsets'
  <2> SUFFICES ASSUME NoSlip' PROVE Offsets'
    OBVIOUS
  <2>1. t.arg \in {0, Len(file[0])}
    BY <1>0, <1>4 DEF Offsets
  <2>2. CASE pc' = "probe"
    <3>1. t.arg = 0 /\ t'.ifRange = 0
      BY <1>0, <1>1, <1>t, <2>2
    <3>2. Saved' \/ file'[0] = <<>>
      <4>1. CASE Saved
        <5>1. file' = file /\ ckpt' = ckpt
          BY <1>0, <4>1
        <5> QED
          BY <4>1, <5>1 DEF Saved, PrefixesValid
      <4>2. CASE ~Saved
        BY <1>0, <3>1, <4>2, Sizes DEF TypeInv, FilesType
      <4> QED
        BY <4>1, <4>2
    <3> QED
      BY <1>0, <1>1, <2>2, <3>1, <3>2 DEF Offsets
  <2>3. CASE pc' = "attempt"
    <3>1. CASE flag = "none"
      <4>1. t.arg # 0 /\ t.arg = Len(file[0]) /\ file' = file
        BY <1>0, <2>1, <2>3, <3>1
      <4>2. t'.append
        BY <1>a, <1>t, <4>1
      <4> QED
        BY <1>0, <1>1, <1>t, <2>3, <4>1, <4>2 DEF Offsets
    <3>2. CASE flag # "none"
      BY <1>0, <1>1, <2>3, <3>2 DEF Offsets
    <3> QED
      BY <3>1, <3>2
  <2> QED
    BY <1>0, <2>2, <2>3
<1>7. risk' = {} => Versions' /\ Finished'
  <2> SUFFICES ASSUME risk' = {} PROVE Versions' /\ Finished'
    OBVIOUS
  <2>1. risk = {} /\ ~(t.arg > 0 /\ tag = 0) /\ Versions /\ Finished
    BY <1>4
  <2>2. job.tag = srv => Of(file[0], srv)'
    <3> SUFFICES ASSUME job.tag = srv PROVE Of(file[0], srv)'
      OBVIOUS
    <3>1. Of(file[0], srv)
      BY <1>0, <2>1 DEF Versions
    <3> QED
      BY <1>0, <1>2, <3>1, Sizes DEF Of
  <2>3. pc' = "attempt" /\ flag = "none" => (tag \in {0, srv} => job.tag = srv)
    <3>1. pc' = "attempt" /\ flag = "none" => t.arg > 0
      BY <1>0, <1>t
    <3> QED
      BY <2>1, <3>1
  <2> HIDE DEF tag
  <2> QED
    BY <1>0, <1>1, <2>1, <2>2, <2>3 DEF Versions, Finished
<1> QED
  BY <1>3, <1>4, <1>5, <1>6, <1>7

LEMMA ProbeKeeps == ASSUME Sound, NEW selected \in BOOLEAN, ProbeAnswers(selected) PROVE Sound'
<1> USE DEF Sound
<1>0. /\ pc = "probe" /\ pc' = "setup" /\ UNCHANGED <<srv, kind, file, ckpt, job, flag, part, risk>>
      /\ t' = [t EXCEPT !.probe = IF kind.tagged /\ ~selected THEN srv ELSE 0]
  BY DEF ProbeAnswers, disk
<1>1. /\ DOMAIN t' = DOMAIN t /\ t'.arg = t.arg /\ t'.attempt = t.attempt /\ t'.ver = t.ver /\ t'.tag = t.tag
      /\ t'.off = t.off /\ t'.got = t.got /\ t'.pos = t.pos /\ t'.append = t.append /\ t'.probe \in {0, srv}
  BY <1>0 DEF TypeInv, TransferType
<1>2. TypeInv'
  <2>1. FilesType' /\ PartsType' /\ JobType'
    BY <1>0 DEF TypeInv, FilesType, PartsType, PartType, NotAhead, JobType
  <2>2. TransferType(t)'
    BY <1>0, <1>1 DEF TypeInv, TransferType, FilesType
  <2> QED
    BY <2>1, <2>2 DEF TypeInv
<1>3. NoSlip' => NoSlip /\ PartsOnDisk' /\ Ranging' /\ Offsets'
  <2> SUFFICES ASSUME NoSlip' PROVE NoSlip /\ PartsOnDisk' /\ Ranging' /\ Offsets'
    OBVIOUS
  <2>1. NoSlip
    BY <1>0 DEF NoSlip
  <2>2. ASSUME ckpt # 0, ckpt = t'.probe, NEW k \in Part PROVE Of(file[k], ckpt)
    <3>1. ckpt = srv
      BY <1>1, <2>2
    <3>2. \A i \in 1 .. Len(file[k]) : ckpt <= file[k][i].ver /\ file[k][i].ver <= srv /\ file[k][i] \in Block
      BY <1>0, <2>1, ElementOfSeq DEF PartsOnDisk, TypeInv, FilesType, NotAhead
    <3>3. srv \in Nat
      BY DEF TypeInv, FilesType
    <3> QED
      BY <3>1, <3>2, <3>3 DEF Of, Block
  <2> QED
    BY <1>0, <2>1, <2>2 DEF PartsOnDisk, InPlace, Of, Ranging, Offsets
<1>4. risk' = {} => Versions' /\ Finished'
  <2>1. Of(file[0], srv)' = Of(file[0], srv)
    BY <1>0 DEF Of
  <2> QED
    BY <1>0, <1>1, <2>1 DEF Versions, Finished
<1> QED
  BY <1>2, <1>3, <1>4

\* The validator that is kept stands for what payload.part holds.
LEMMA KeptTagFacts ==
  ASSUME Sound, pc = "judge"
  PROVE  /\ KeptTag \in Nat /\ KeptTag <= srv
         /\ risk = {} => (KeptTag = srv => Of(file[0], srv))
<1>1. CASE t.tag # 0
  BY <1>1 DEF KeptTag, Sound, TypeInv, TransferType, Versions
<1>2. CASE t.tag = 0
  BY <1>2 DEF KeptTag, Sound, TypeInv, JobType, Versions
<1> QED
  BY <1>1, <1>2

LEMMA AgainKeeps == Sound /\ Again => Sound'
<1> SUFFICES ASSUME Sound, Again PROVE Sound'
  OBVIOUS
<1>0. /\ pc = "judge" /\ pc' = "open" /\ UNCHANGED <<srv, kind, file, ckpt, flag, part, risk>>
      /\ job' = [job EXCEPT !.tag = KeptTag]
      /\ t' = [t EXCEPT !.outer = t.outer + 1, !.arg = Len(file[0])]
  BY DEF Again, disk
<1>k. /\ KeptTag \in Nat /\ KeptTag <= srv
      /\ risk = {} => (KeptTag = srv => Of(file[0], srv))
  BY <1>0, KeptTagFacts
<1> USE DEF Sound
<1>t. Len(file[0]) \in Nat /\ srv \in Nat
  BY Sizes DEF TypeInv, FilesType
<1>1. /\ DOMAIN t' = DOMAIN t /\ t'.arg = Len(file[0]) /\ t'.probe = t.probe /\ t'.attempt = t.attempt
      /\ t'.off = t.off /\ t'.got = t.got /\ t'.pos = t.pos /\ t'.append = t.append
      /\ t'.tag = t.tag /\ t'.ver = t.ver
  BY <1>0 DEF TypeInv, TransferType
<1>2. job'.tag = KeptTag /\ job'.state = job.state /\ DOMAIN job' = DOMAIN job
  BY <1>0 DEF TypeInv, JobType
<1>3. TypeInv'
  <2>1. FilesType' /\ PartsType' /\ JobType'
    BY <1>0, <1>2, <1>k DEF TypeInv, FilesType, PartsType, PartType, NotAhead, JobType
  <2>2. TransferType(t)'
    BY <1>0, <1>1, <1>t DEF TypeInv, TransferType
  <2> QED
    BY <2>1, <2>2 DEF TypeInv
<1>4. NoSlip' => NoSlip /\ PartsOnDisk' /\ Ranging'
  BY <1>0 DEF NoSlip, PartsOnDisk, InPlace, Ranging
<1>5. Offsets'
  BY <1>0, <1>1 DEF Offsets
<1>6. risk' = {} => Versions' /\ Finished'
  <2>1. Of(file[0], srv)' = Of(file[0], srv)
    BY <1>0 DEF Of
  <2> QED
    BY <1>0, <1>1, <1>2, <1>k, <2>1 DEF Versions, Finished
<1> QED
  BY <1>3, <1>4, <1>5, <1>6

LEMMA SettleKeeps == Sound /\ Settle => Sound'
<1> SUFFICES ASSUME Sound, Settle PROVE Sound'
  OBVIOUS
<1>0. /\ pc = "judge" /\ pc' = "idle" /\ UNCHANGED <<srv, kind, ckpt, part, risk>> /\ flag' = Flag
      /\ job' = [state |-> Outcome, tag |-> KeptTag]
      /\ t' = [NoTransfer EXCEPT !.res = t.res]
      /\ file' = IF Outcome \in {"cancelled", "failed"} THEN [file EXCEPT ![0] = <<>>] ELSE file
  BY DEF Settle
<1>k. /\ KeptTag \in Nat /\ KeptTag <= srv
      /\ risk = {} => (KeptTag = srv => Of(file[0], srv))
  BY <1>0, KeptTagFacts
<1> USE DEF Sound
<1>t. Len(file[0]) \in Nat /\ srv \in Nat
  BY Sizes DEF TypeInv, FilesType
<1>1. /\ DOMAIN t' = DOMAIN NoTransfer /\ t'.res = t.res /\ t'.arg = 0
      /\ t'.probe = 0 /\ t'.attempt = 0 /\ t'.off = 0 /\ t'.got = 0 /\ t'.pos = 0 /\ t'.append = FALSE
      /\ t'.tag = 0 /\ t'.ver = 0
  BY <1>0, NoTransferFacts
<1>2. job'.tag = KeptTag /\ job'.state = Outcome /\ {"state", "tag"} \subseteq DOMAIN job'
  BY <1>0
<1>3. FilesType' /\ (\A k \in Part : file'[k] = file[k] \/ file'[k] = <<>>)
  <2>1. CASE file' = file
    BY <1>0, <2>1 DEF TypeInv, FilesType, NotAhead
  <2>2. CASE file' = [file EXCEPT ![0] = <<>>]
    BY <1>0, <2>2, Emptied DEF TypeInv
  <2> QED
    BY <1>0, <2>1, <2>2
<1>4. TypeInv'
  <2>1. flag' \in {"none", "pause", "cancel"}
    BY <1>0 DEF Flag, TypeInv, JobType
  <2>2. PartsType' /\ JobType'
    BY <1>0, <1>2, <1>k, <2>1 DEF TypeInv, PartsType, PartType, NotAhead, JobType
  <2>3. t'.append \in BOOLEAN
    BY <1>1, Zenon
  <2>4. TransferType(t)'
    BY <1>0, <1>1, <1>t, <2>3, NoTransferFacts DEF TransferType
  <2> QED
    BY <1>3, <2>2, <2>4 DEF TypeInv
<1>5. NoSlip' => NoSlip /\ PartsOnDisk' /\ Ranging' /\ Offsets'
  BY <1>0, <1>3, KeptOrEmpty DEF NoSlip, Ranging, Offsets
<1>6. risk' = {} => Versions' /\ Finished'
  <2> SUFFICES ASSUME risk = {} PROVE Versions' /\ Finished'
    BY <1>0
  <2>1. KeptTag = srv => Of(file[0], srv)'
    <3> SUFFICES ASSUME KeptTag = srv PROVE Of(file[0], srv)'
      OBVIOUS
    <3>1. Of(file[0], srv)
      BY <1>k
    <3> QED
      BY <1>0, <1>3, <3>1, Sizes DEF Of
  <2>2. ASSUME Outcome = "completed" PROVE WholeFile(Content)'
    <3>1. flag = "none" /\ t.res \in {"Ok", "Segmented"}
      BY <2>2 DEF Outcome, Flag
    <3>2. WholeFile(Content)
      BY <1>0, <3>1 DEF Finished
    <3>3. Content' = Content
      <4>1. file' = file /\ t'.res = t.res
        BY <1>0, <1>1, <2>2
      <4> QED
        BY <4>1 DEF Content, Joined
    <3> QED
      BY <3>2, <3>3 DEF WholeFile
  <2> QED
    BY <1>0, <1>2, <2>1, <2>2 DEF Versions, Finished
<1> QED
  BY <1>4, <1>5, <1>6

LEMMA ReplaceKeeps == Sound /\ Replace => Sound'
<1> SUFFICES ASSUME Sound, Replace PROVE Sound'
  OBVIOUS
<1> USE DEF Sound
<1>0. /\ UNCHANGED <<kind, file, ckpt, job, flag, pc, t, part>> /\ srv < MaxVersion /\ srv' = srv + 1
      /\ NoSlip' => NoSlip
      /\ risk' = {} => risk = {} /\ pc = "idle"
  BY DEF Replace, disk, NoSlip
<1>t. srv \in Nat /\ srv' \in Nat /\ srv < srv' /\ srv' \in Version
  BY <1>0, LimitAssumption DEF TypeInv, FilesType, Version
<1>1. TypeInv'
  <2>1. \A s \in Seq(Block) : NotAhead(s) => NotAhead(s)'
    <3> SUFFICES ASSUME NEW s \in Seq(Block), NotAhead(s) PROVE \A i \in 1 .. Len(s) : s[i].ver <= srv'
      BY DEF NotAhead
    <3>0. \A i \in 1 .. Len(s) : s[i] \in Block
      BY ElementOfSeq
    <3>1. \A i \in 1 .. Len(s) : s[i].ver \in Nat
      BY <3>0 DEF Block
    <3> QED
      BY <1>t, <3>1 DEF NotAhead
  <2>2. FilesType'
    BY <1>0, <1>t, <2>1 DEF TypeInv, FilesType, NotAhead
  <2>3. JobType'
    BY <1>0, <1>t DEF TypeInv, JobType
  <2>4. TransferType(t)'
    BY <1>0, <1>t DEF TypeInv, TransferType
  <2>5. PartsType'
    BY <1>0, <1>t, <2>1 DEF TypeInv, PartsType, PartType, NotAhead
  <2> QED
    BY <2>2, <2>3, <2>4, <2>5 DEF TypeInv
<1>2. NoSlip' => PartsOnDisk' /\ Ranging'
  BY <1>0 DEF PartsOnDisk, InPlace, Of, Ranging, InRange, Received
<1>3. NoSlip' => Offsets'
  BY <1>0 DEF Offsets, Saved, PrefixesValid
<1>4. risk' = {} => Versions' /\ Finished'
  <2> SUFFICES ASSUME risk' = {} PROVE Versions' /\ Finished'
    OBVIOUS
  <2>1. pc = "idle" /\ Finished /\ job.tag # srv'
    BY <1>0, <1>t DEF TypeInv, JobType
  <2>2. WholeFile(Content)' = WholeFile(Content)
    BY <1>0 DEF Content, WholeFile
  <2> QED
    BY <1>0, <2>1, <2>2 DEF Versions, Finished
<1> QED
  BY <1>0, <1>1, <1>2, <1>3, <1>4

-----------------------------------------------------------------------------
(* The parallel ranges *)

\* Leaving the ranges with nothing on disk.
LEMMA ClearedKeeps ==
  ASSUME Sound, pc \in {"setup", "ranges"}, file' = NoFiles, ckpt' = 0,
         UNCHANGED <<srv, kind, job, risk, flag>>,
         part' = part \/ CloseParts, TransferType(t)', t'.tag = t.tag,
         \/ pc' = "attempt" /\ t'.off = 0 /\ t'.got = 0 /\ t'.pos = 0
         \/ pc' = "judge" /\ t'.res \notin {"Ok", "Segmented"}
  PROVE  Sound'
<1> USE DEF Sound
<1>1. \A k \in Part : file'[k] = <<>>
  BY DEF NoFiles
<1>2. TypeInv'
  <2>1. FilesType'
    BY <1>1, NoFilesType DEF TypeInv, FilesType, NotAhead
  <2>2. JobType'
    BY DEF TypeInv, JobType
  <2>3. PartsType'
    <3>1. CASE part' = part
      BY <3>1 DEF TypeInv, PartsType, PartType, NotAhead
    <3>2. CASE CloseParts
      <4>1. PartType(NoPart)'
        BY NoPartType DEF TypeInv, FilesType, PartType, NotAhead
      <4> QED
        BY <3>2, <4>1 DEF CloseParts, PartsType, PartType, NotAhead
    <3> QED
      BY <3>1, <3>2
  <2> QED
    BY <2>1, <2>2, <2>3 DEF TypeInv
<1>3. NoSlip' => NoSlip /\ PartsOnDisk' /\ Ranging'
  BY <1>1 DEF NoSlip, PartsOnDisk, InPlace, Ranging
<1>4. Offsets'
  <2>1. Len(file'[0]) = 0
    BY <1>1, Sizes
  <2> QED
    BY <2>1 DEF Offsets
<1>5. risk' = {} => Versions' /\ Finished'
  <2>1. Of(file[0], srv)'
    BY <1>1, Sizes DEF Of
  <2> QED
    BY <2>1 DEF Versions, Finished
<1> QED
  BY <1>2, <1>3, <1>4, <1>5

LEMMA GoSerialFacts ==
  ASSUME TypeInv, GoSerial, srv' = srv
  PROVE  /\ file' = NoFiles /\ ckpt' = 0 /\ pc' = "attempt" /\ TransferType(t)' /\ t'.tag = t.tag
         /\ t'.off = 0 /\ t'.got = 0 /\ t'.pos = 0
<1>1. /\ DOMAIN t' = DOMAIN t /\ t'.arg = t.arg /\ t'.probe = t.probe /\ t'.attempt = t.attempt
      /\ t'.off = 0 /\ t'.got = 0 /\ t'.pos = 0 /\ t'.append = FALSE /\ t'.tag = t.tag /\ t'.ver = t.ver
  BY DEF GoSerial, TypeInv, TransferType
<1>2. t'.append \in BOOLEAN
  BY <1>1, Zenon
<1>3. TransferType(t)'
  BY <1>1, <1>2 DEF TypeInv, TransferType
<1> QED
  BY <1>1, <1>3 DEF GoSerial

LEMMA ClearFacts ==
  ASSUME TypeInv, Clear, NEW r \in {"IoError", "Cancelled"}, Return(r), srv' = srv
  PROVE  /\ file' = NoFiles /\ ckpt' = 0 /\ pc' = "judge" /\ TransferType(t)' /\ t'.tag = t.tag
         /\ t'.res \notin {"Ok", "Segmented"}
<1>1. pc' = "judge" /\ Steady /\ t'.attempt = t.attempt /\ t'.res = r
  BY ReturnFacts DEF TypeInv
<1>2. TransferType(t)'
  BY <1>1 DEF TypeInv, TransferType, Steady
<1> QED
  BY <1>1, <1>2 DEF Clear, Steady

LEMMA LeaveKeeps ==
  ASSUME Sound, Skip \/ SetupFails \/ RangesGiveUp \/ RangesIoError \/ (RangesStop /\ Clear)
  PROVE  Sound'
<1>0. TypeInv
  BY DEF Sound
<1>1. CASE Skip
  <2>1. pc = "setup" /\ GoSerial /\ UNCHANGED <<srv, kind, job, flag, part, risk>>
    BY <1>1 DEF Skip
  <2>2. /\ file' = NoFiles /\ ckpt' = 0 /\ pc' = "attempt" /\ TransferType(t)' /\ t'.tag = t.tag
        /\ t'.off = 0 /\ t'.got = 0 /\ t'.pos = 0
    BY <1>0, <2>1, GoSerialFacts
  <2> QED
    BY <2>1, <2>2, ClearedKeeps
<1>2. CASE SetupFails
  <2>1. pc = "setup" /\ Clear /\ UNCHANGED <<srv, kind, job, flag, part, risk>>
    BY <1>2 DEF SetupFails
  <2>2. PICK r \in {"IoError", "Cancelled"} : Return(r)
    BY <1>2 DEF SetupFails
  <2>3. /\ file' = NoFiles /\ ckpt' = 0 /\ pc' = "judge" /\ TransferType(t)' /\ t'.tag = t.tag
        /\ t'.res \notin {"Ok", "Segmented"}
    BY <1>0, <2>1, <2>2, ClearFacts
  <2> QED
    BY <2>1, <2>3, ClearedKeeps
<1>3. CASE RangesGiveUp
  <2>1. pc = "ranges" /\ GoSerial /\ CloseParts /\ UNCHANGED <<srv, kind, job, flag, risk>>
    BY <1>3 DEF RangesGiveUp, RangesOver
  <2>2. /\ file' = NoFiles /\ ckpt' = 0 /\ pc' = "attempt" /\ TransferType(t)' /\ t'.tag = t.tag
        /\ t'.off = 0 /\ t'.got = 0 /\ t'.pos = 0
    BY <1>0, <2>1, GoSerialFacts
  <2> QED
    BY <2>1, <2>2, ClearedKeeps
<1>4. CASE RangesIoError
  <2>1. pc = "ranges" /\ Clear /\ Return("IoError") /\ CloseParts /\ UNCHANGED <<srv, kind, job, flag, risk>>
    BY <1>4 DEF RangesIoError, RangesOver
  <2>3. /\ file' = NoFiles /\ ckpt' = 0 /\ pc' = "judge" /\ TransferType(t)' /\ t'.tag = t.tag
        /\ t'.res \notin {"Ok", "Segmented"}
    BY <1>0, <2>1, ClearFacts
  <2> QED
    BY <2>1, <2>3, ClearedKeeps
<1>5. CASE RangesStop /\ Clear
  <2>1. pc = "ranges" /\ Clear /\ Return("Cancelled") /\ CloseParts /\ UNCHANGED <<srv, kind, job, flag, risk>>
    BY <1>5 DEF RangesStop, RangesOver
  <2>3. /\ file' = NoFiles /\ ckpt' = 0 /\ pc' = "judge" /\ TransferType(t)' /\ t'.tag = t.tag
        /\ t'.res \notin {"Ok", "Segmented"}
    BY <1>0, <2>1, ClearFacts
  <2> QED
    BY <2>1, <2>3, ClearedKeeps
<1> QED
  BY <1>1, <1>2, <1>3, <1>4, <1>5

\* What is on disk and in the buffer of a part.
LEMMA ReceivedType ==
  ASSUME TypeInv, NEW k \in Part
  PROVE  Received(k) \in Seq(Block) /\ NotAhead(Received(k))
<1>1. file[k] \in Seq(Block) /\ part[k].mem \in Seq(Block) /\ NotAhead(file[k]) /\ NotAhead(part[k].mem)
  BY DEF TypeInv, FilesType, PartsType, PartType
<1> QED
  BY <1>1, JoinedNotAhead DEF Received

LEMMA FlushAllFacts ==
  ASSUME TypeInv
  PROVE  /\ FlushAll \in [Part -> Seq(Block)] /\ \A k \in Part : NotAhead(FlushAll[k])
         /\ \A k \in Part : part[k].st \notin {"bad", "io"} => FlushAll[k] = Received(k)
<1>1. \A k \in Part : file[k] \in Seq(Block) /\ NotAhead(file[k])
  BY DEF TypeInv, FilesType
<1>2. \A k \in Part : Received(k) \in Seq(Block) /\ NotAhead(Received(k))
  BY ReceivedType
<1>3. FlushAll = [k \in Part |-> IF part[k].st \in {"bad", "io"} THEN file[k] ELSE Received(k)]
  BY DEF FlushAll, Received
<1> QED
  BY <1>1, <1>2, <1>3

LEMMA CaptureFacts ==
  ASSUME TypeInv
  PROVE  /\ Capture \in Nat /\ Capture <= srv
         /\ t.probe # 0 => Capture = t.probe
         /\ t.probe = 0 /\ Capture # 0 => \E k \in Part : part[k].ver # 0 /\ part[k].tag # 0 /\ Capture = part[k].tag
<1> DEFINE seen == {k \in Part : part[k].ver # 0 /\ part[k].tag # 0}
           first == CHOOSE k \in seen : \A j \in seen : k <= j
<1>t. t.probe \in Nat /\ t.probe <= srv /\ srv \in Nat
      /\ \A k \in Part : part[k].tag \in Nat /\ part[k].tag <= srv
  BY DEF TypeInv, TransferType, FilesType, PartsType, PartType
<1>1. CASE t.probe # 0
  <2>1. Capture = t.probe
    BY <1>1 DEF Capture
  <2> QED
    BY <1>1, <1>t, <2>1
<1>2. CASE t.probe = 0 /\ seen # {}
  <2>1. Capture = part[first].tag
    BY <1>2 DEF Capture
  <2>2. \E k \in seen : \A j \in seen : k <= j
    <3>1. seen \in SUBSET Nat
      BY Sizes
    <3> HIDE DEF seen
    <3> QED
      BY <1>2, <3>1, LeastNatural
  <2>3. first \in seen
    <3> HIDE DEF seen
    <3> QED
      BY <2>2
  <2>4. first \in Part /\ part[first].ver # 0 /\ part[first].tag # 0
    <3> HIDE DEF first
    <3> QED
      BY <2>3
  <2> HIDE DEF first, seen
  <2> QED
    BY <1>2, <1>t, <2>1, <2>4
<1>3. CASE t.probe = 0 /\ seen = {}
  <2>1. Capture = 0
    BY <1>3 DEF Capture
  <2> QED
    BY <1>3, <1>t, <2>1
<1> QED
  BY <1>1, <1>2, <1>3

\* Safe ranges are of the version captured, in place.
LEMMA SafeFacts ==
  ASSUME Sound, pc = "ranges", RangeSafe, NoSlip, NEW k \in Part
  PROVE  InPlace(FlushAll[k], k) /\ Of(FlushAll[k], Capture)
<1> DEFINE p == part[k]
           s == Received(k)
<1>0. TypeInv /\ InRange(k)
  BY DEF Sound, Ranging
<1>1. FlushAll[k] = s
  BY <1>0, FlushAllFacts DEF RangeSafe
<1>2. s \in Seq(Block) /\ Len(s) \in Nat
  <2>1. Received(k) \in Seq(Block)
    BY <1>0, ReceivedType
  <2> QED
    BY <2>1, LenProperties
<1>3. /\ Len(s) = p.saved + p.got /\ InPlace(s, k)
      /\ \A i \in 1 .. Len(s) : s[i].ver = IF i <= p.saved THEN t.probe ELSE p.ver
      /\ p.saved > 0 => t.probe # 0
      /\ p.got > 0 => p.ver # 0
      /\ p.ver # 0 => p.tag \in {0, p.ver}
      /\ p.st = "skipped" => p.got = 0
  BY <1>0 DEF InRange
<1>4. Capture # 0 /\ (p.st # "skipped" /\ p.got > 0 => p.tag = Capture)
  BY DEF RangeSafe
<1>5. t.probe # 0 => Capture = t.probe
  BY <1>0, CaptureFacts
<1>6. p.saved \in Nat /\ p.got \in Nat
  BY <1>0 DEF TypeInv, PartsType, PartType
<1> HIDE DEF s, p
<1>7. p.saved > 0 => Capture = t.probe
  BY <1>3, <1>5
<1>8. p.got > 0 => p.ver = Capture
  BY <1>3, <1>4, <1>6
<1>9. \A i \in 1 .. Len(s) : s[i].ver = Capture
  <2> SUFFICES ASSUME NEW i \in 1 .. Len(s) PROVE s[i].ver = Capture
    OBVIOUS
  <2>1. CASE i <= p.saved
    BY <1>3, <1>6, <1>7, <2>1
  <2>2. CASE ~(i <= p.saved)
    BY <1>2, <1>3, <1>6, <1>8, <2>2
  <2> QED
    BY <2>1, <2>2
<1> QED
  BY <1>1, <1>3, <1>9 DEF Of

LEMMA SetupKeeps == Sound /\ Setup => Sound'
<1> SUFFICES ASSUME Sound, Setup PROVE Sound'
  OBVIOUS
<1> USE DEF Sound
<1>0. /\ pc = "setup" /\ pc' = "ranges" /\ UNCHANGED <<srv, kind, job, flag, t, risk>>
      /\ file' = IF Reuse THEN file ELSE NoFiles
      /\ ckpt' = IF Reuse THEN ckpt ELSE 0
  BY DEF Setup
<1>p. part' = [k \in Part |->
         [NoPart EXCEPT !.saved = Len(file'[k]),
                        !.st  = IF Len(file'[k]) = PartLen THEN "skipped" ELSE "asked",
                        !.tag = IF Len(file'[k]) = PartLen THEN t.probe ELSE 0]]
  BY DEF Setup
<1>1. \A k \in Part : file'[k] \in Seq(Block) /\ Len(file'[k]) \in Nat
  BY <1>0, NoFilesType, LenProperties DEF TypeInv, FilesType
<1>2. FilesType'
  <2>1. CASE Reuse
    BY <1>0, <2>1 DEF TypeInv, FilesType, NotAhead
  <2>2. CASE ~Reuse
    <3>1. file' \in [Part -> Seq(Block)] /\ \A k \in Part : Len(file'[k]) = 0
      BY <1>0, <2>2, NoFilesType
    <3> QED
      BY <1>0, <2>2, <3>1 DEF TypeInv, FilesType, NotAhead
  <2> QED
    BY <2>1, <2>2
<1>3. DOMAIN part' = Part /\ \A k \in Part :
        /\ DOMAIN part'[k] = DOMAIN NoPart
        /\ part'[k].saved = Len(file'[k]) /\ part'[k].got = 0 /\ part'[k].mem = <<>> /\ part'[k].ver = 0
        /\ part'[k].st = IF Len(file'[k]) = PartLen THEN "skipped" ELSE "asked"
        /\ part'[k].tag \in {0, t.probe}
  BY <1>p DEF NoPart
<1>4. TypeInv'
  <2>1. {"st", "saved", "got", "mem", "tag", "ver"} \subseteq DOMAIN NoPart
    BY DEF NoPart
  <2>2. t.probe \in Nat /\ t.probe <= srv /\ srv \in Nat
    BY DEF TypeInv, TransferType, FilesType
  <2>3. \A k \in Part : NotAhead(part[k].mem)'
    BY <1>3 DEF NotAhead
  <2>4. PartsType'
    <3> SUFFICES ASSUME NEW k \in Part PROVE PartType(part[k])'
      BY <1>3 DEF PartsType
    <3>1. part'[k].mem \in Seq(Block) /\ NotAhead(part[k].mem)'
      BY <1>3, <2>3, EmptySeq
    <3>2. part'[k].saved \in Nat /\ part'[k].got \in Nat /\ part'[k].ver \in Nat
      BY <1>1, <1>3
    <3>3. part'[k].tag \in Nat /\ part'[k].tag <= srv /\ part'[k].ver <= srv
      BY <1>3, <2>2
    <3> QED
      BY <1>0, <1>3, <2>1, <3>1, <3>2, <3>3 DEF PartType
  <2>5. JobType' /\ TransferType(t)'
    BY <1>0 DEF TypeInv, JobType, TransferType
  <2> QED
    BY <1>2, <2>4, <2>5 DEF TypeInv
<1>5. NoSlip' => NoSlip /\ PartsOnDisk' /\ Offsets'
  BY <1>0 DEF NoSlip, PartsOnDisk, Offsets
<1>6. NoSlip' => Ranging'
  <2> SUFFICES ASSUME NoSlip, NEW k \in Part PROVE InRange(k)'
    BY <1>5 DEF Ranging
  <2>1. Received(k)' = file'[k]
    BY <1>1, <1>3, ConcatEmptySeq DEF Received
  <2>2. InPlace(file'[k], k) /\ Of(file'[k], t.probe) /\ (Len(file'[k]) > 0 => t.probe # 0)
    <3>1. CASE Reuse
      BY <1>0, <3>1 DEF Reuse, PartsOnDisk
    <3>2. CASE ~Reuse
      <4>1. file'[k] = <<>>
        BY <1>0, <3>2, NoFilesType
      <4> QED
        BY <4>1 DEF InPlace, Of
    <3> QED
      BY <3>1, <3>2
  <2>3. /\ Len(Received(k)') = part'[k].saved + part'[k].got
        /\ \A i \in 1 .. Len(Received(k)') :
             Received(k)'[i].ver = IF i <= part'[k].saved THEN t'.probe ELSE part'[k].ver
    <3>1. Len(file'[k]) = part'[k].saved + part'[k].got /\ part'[k].saved = Len(file'[k])
      BY <1>1, <1>3
    <3>2. \A i \in 1 .. Len(file'[k]) :
            file'[k][i].ver = IF i <= part'[k].saved THEN t'.probe ELSE part'[k].ver
      <4>1. \A i \in 1 .. Len(file'[k]) : i <= part'[k].saved
        BY <1>1, <3>1
      <4>2. t'.probe = t.probe
        BY <1>0
      <4>3. \A i \in 1 .. Len(file'[k]) : file'[k][i].ver = t.probe
        BY <2>2 DEF Of
      <4> QED
        BY <4>1, <4>2, <4>3
    <3> QED
      BY <2>1, <3>1, <3>2
  <2>4. InPlace(Received(k), k)'
    BY <2>1, <2>2 DEF InPlace
  <2>5. /\ part'[k].saved > 0 => t'.probe # 0
        /\ part'[k].got = 0 /\ part'[k].ver = 0
        /\ part'[k].st # "open"
        /\ part'[k].st \in {"skipped", "done"} => part'[k].saved + part'[k].got = PartLen
    BY <1>0, <1>1, <1>3, <2>2, Sizes
  <2> QED
    BY <2>3, <2>4, <2>5 DEF InRange
<1>7. risk' = {} => Versions' /\ Finished'
  <2> SUFFICES ASSUME risk = {} PROVE Versions' /\ Finished'
    BY <1>0
  <2> QED
    BY <1>0, <1>3 DEF Versions, Finished
<1> QED
  BY <1>4, <1>5, <1>6, <1>7

\* Steps of one part: what holds of the others stays.
LEMMA OtherPart ==
  ASSUME NEW j \in Part, InRange(j), file'[j] = file[j], part'[j] = part[j], t' = t
  PROVE  InRange(j)'
  BY DEF InRange, Received, InPlace

LEMMA PartKeeps ==
  ASSUME Sound, NEW k \in Part, pc = "ranges",
         UNCHANGED <<srv, kind, ckpt, job, flag, pc, t, risk>>,
         FilesType', DOMAIN part' = Part, PartType(part[k])', NoSlip => InRange(k)',
         part'[k].ver \in {0, srv, part[k].ver},
         \A j \in Part \ {k} : file'[j] = file[j] /\ part'[j] = part[j]
  PROVE  Sound'
<1> USE DEF Sound
<1>1. TypeInv'
  <2>1. JobType' /\ TransferType(t)'
    BY DEF TypeInv, JobType, TransferType
  <2>2. \A j \in Part : PartType(part[j])'
    <3> SUFFICES ASSUME NEW j \in Part PROVE PartType(part[j])'
      OBVIOUS
    <3>1. CASE j = k
      BY <3>1
    <3>2. CASE j # k
      BY <3>2 DEF TypeInv, PartsType, PartType, NotAhead
    <3> QED
      BY <3>1, <3>2
  <2> QED
    BY <2>1, <2>2 DEF TypeInv, PartsType
<1>2. NoSlip' => NoSlip /\ PartsOnDisk' /\ Offsets'
  BY DEF NoSlip, PartsOnDisk, Offsets
<1>3. NoSlip' => Ranging'
  <2> SUFFICES ASSUME NoSlip, NEW j \in Part PROVE InRange(j)'
    BY <1>2 DEF Ranging
  <2>1. CASE j = k
    BY <2>1
  <2>2. CASE j # k
    BY <2>2, OtherPart DEF Ranging
  <2> QED
    BY <2>1, <2>2
<1>4. risk' = {} => Versions' /\ Finished'
  BY DEF Versions, Finished
<1> QED
  BY <1>1, <1>2, <1>3, <1>4

LEMMA HeadersKeep == ASSUME Sound, NEW k \in Part, Headers(k) PROVE Sound'
<1>0. pc = "ranges" /\ part[k].st = "asked" /\ UNCHANGED <<srv, kind, file, ckpt, job, flag, pc, t, risk>>
  BY DEF Headers, disk
<1>t. /\ TypeInv /\ DOMAIN part = Part /\ PartType(part[k]) /\ srv \in Nat \ {0}
  BY DEF Sound, TypeInv, PartsType, FilesType, Version
<1>1. /\ DOMAIN part' = Part /\ \A j \in Part \ {k} : part'[j] = part[j]
      /\ DOMAIN part'[k] = DOMAIN part[k]
      /\ part'[k].saved = part[k].saved /\ part'[k].got = part[k].got /\ part'[k].mem = part[k].mem
      /\ \/ part'[k].st = "open" /\ part'[k].ver = srv /\ part'[k].tag \in {0, srv}
         \/ part'[k].st = "bad" /\ part'[k].ver = part[k].ver /\ part'[k].tag = part[k].tag
  <2>1. CASE part' = [part EXCEPT ![k].st = "bad"]
    BY <1>t, <2>1 DEF PartType
  <2>2. CASE part' = [part EXCEPT ![k].st = "open", ![k].ver = srv,
                                  ![k].tag = IF kind.tagged THEN srv ELSE 0]
    BY <1>t, <2>2 DEF PartType
  <2> QED
    BY <2>1, <2>2 DEF Headers
<1>2. FilesType'
  BY <1>0, <1>t DEF TypeInv, FilesType, NotAhead
<1>3. PartType(part[k])'
  BY <1>0, <1>1, <1>t DEF PartType, NotAhead
<1>4. NoSlip => InRange(k)'
  <2> SUFFICES ASSUME NoSlip PROVE InRange(k)'
    OBVIOUS
  <2>1. InRange(k)
    BY <1>0 DEF Sound, Ranging
  <2>2. Received(k)' = Received(k)
    BY <1>0, <1>1 DEF Received
  <2>3. part[k].got = 0 /\ part[k].saved \in Nat
    BY <1>0, <1>t, <2>1 DEF InRange, PartType
  <2>4. InPlace(Received(k), k)' /\ Len(Received(k)') = part'[k].saved + part'[k].got
    BY <1>1, <2>1, <2>2 DEF InRange, InPlace
  <2>5. \A i \in 1 .. Len(Received(k)') :
          Received(k)'[i].ver = IF i <= part'[k].saved THEN t'.probe ELSE part'[k].ver
    BY <1>0, <1>1, <2>1, <2>2, <2>3 DEF InRange
  <2> QED
    BY <1>0, <1>1, <1>t, <2>1, <2>3, <2>4, <2>5 DEF InRange
<1> QED
  BY <1>0, <1>1, <1>2, <1>3, <1>4, PartKeeps

LEMMA LoseKeeps == ASSUME Sound, NEW k \in Part, Lose(k) PROVE Sound'
<1>0. pc = "ranges" /\ UNCHANGED <<srv, kind, file, ckpt, job, flag, pc, t, risk>>
      /\ part' = [part EXCEPT ![k].st = "lost"]
  BY DEF Lose, disk
<1>t. /\ TypeInv /\ DOMAIN part = Part /\ PartType(part[k])
  BY DEF Sound, TypeInv, PartsType
<1>1. /\ DOMAIN part' = Part /\ \A j \in Part \ {k} : part'[j] = part[j]
      /\ DOMAIN part'[k] = DOMAIN part[k]
      /\ part'[k].saved = part[k].saved /\ part'[k].got = part[k].got /\ part'[k].mem = part[k].mem
      /\ part'[k].st = "lost" /\ part'[k].ver = part[k].ver /\ part'[k].tag = part[k].tag
  BY <1>0, <1>t DEF PartType
<1>2. FilesType'
  BY <1>0, <1>t DEF TypeInv, FilesType, NotAhead
<1>3. PartType(part[k])'
  BY <1>0, <1>1, <1>t DEF PartType, NotAhead
<1>4. NoSlip => InRange(k)'
  <2> SUFFICES ASSUME NoSlip PROVE InRange(k)'
    OBVIOUS
  <2>1. InRange(k)
    BY <1>0 DEF Sound, Ranging
  <2>2. Received(k)' = Received(k)
    BY <1>0, <1>1 DEF Received
  <2> QED
    BY <1>0, <1>1, <2>1, <2>2 DEF InRange, InPlace
<1> QED
  BY <1>0, <1>1, <1>2, <1>3, <1>4, PartKeeps

LEMMA BodyKeeps == ASSUME Sound, NEW k \in Part, Body(k) PROVE Sound'
<1> DEFINE p == part[k]
           s == file[k]
           m == p.mem
           block == [at |-> k * PartLen + p.saved + p.got + 1, ver |-> p.ver]
<1>0. pc = "ranges" /\ p.st = "open" /\ UNCHANGED <<srv, kind, ckpt, job, flag, pc, t, risk>>
  BY DEF Body
<1>t. /\ TypeInv /\ DOMAIN part = Part /\ PartType(part[k]) /\ srv \in Nat
      /\ k * PartLen \in Nat
  BY Sizes DEF Sound, TypeInv, PartsType, FilesType
<1>1. CASE file' = file /\ part' = [part EXCEPT ![k].st = "io"]
  <2>1. /\ DOMAIN part' = Part /\ \A j \in Part \ {k} : part'[j] = part[j]
        /\ DOMAIN part'[k] = DOMAIN part[k]
        /\ part'[k].saved = part[k].saved /\ part'[k].got = part[k].got /\ part'[k].mem = part[k].mem
        /\ part'[k].st = "io" /\ part'[k].ver = part[k].ver /\ part'[k].tag = part[k].tag
    BY <1>1, <1>t DEF PartType
  <2>2. FilesType'
    BY <1>0, <1>1, <1>t DEF TypeInv, FilesType, NotAhead
  <2>3. PartType(part[k])'
    BY <1>0, <1>t, <2>1 DEF PartType, NotAhead
  <2>4. NoSlip => InRange(k)'
    <3> SUFFICES ASSUME NoSlip PROVE InRange(k)'
      OBVIOUS
    <3>1. InRange(k)
      BY <1>0 DEF Sound, Ranging
    <3>2. Received(k)' = Received(k)
      BY <1>1, <2>1 DEF Received
    <3> QED
      BY <1>0, <2>1, <3>1, <3>2 DEF InRange, InPlace
  <2> QED
    BY <1>0, <1>1, <2>1, <2>2, <2>3, <2>4, PartKeeps
<1>2. CASE /\ file' = [file EXCEPT ![k] = s \o m]
           /\ part' = [part EXCEPT ![k].got = p.got + 1, ![k].mem = <<block>>,
                                   ![k].st = IF PartFull(p) THEN "done" ELSE "open"]
  <2>t. /\ s \in Seq(Block) /\ m \in Seq(Block) /\ NotAhead(m) /\ p.saved \in Nat /\ p.got \in Nat
        /\ p.ver \in Nat /\ p.ver <= srv
    BY <1>t DEF TypeInv, FilesType, PartType
  <2>1. block \in Block /\ block.at = k * PartLen + p.saved + p.got + 1 /\ block.ver = p.ver
    BY <1>t, <2>t DEF Block
  <2> HIDE DEF block
  <2>2. /\ DOMAIN part' = Part /\ \A j \in Part \ {k} : part'[j] = part[j]
        /\ DOMAIN part'[k] = DOMAIN part[k]
        /\ part'[k].saved = p.saved /\ part'[k].got = p.got + 1 /\ part'[k].mem = <<block>>
        /\ part'[k].st = (IF PartFull(p) THEN "done" ELSE "open")
        /\ part'[k].ver = p.ver /\ part'[k].tag = p.tag
    BY <1>2, <1>t DEF PartType
  <2>3. /\ s \o m = Received(k) /\ s \o m \in Seq(Block) /\ NotAhead(s \o m)
    BY <1>t, ReceivedType DEF Received
  <2>4. file' \in [Part -> Seq(Block)] /\ file'[k] = s \o m /\ \A j \in Part \ {k} : file'[j] = file[j]
    BY <1>2, <1>t, <2>3 DEF TypeInv, FilesType
  <2> HIDE DEF s, m
  <2>5. FilesType'
    <3>1. \A j \in Part : NotAhead(file'[j])
      BY <1>t, <2>3, <2>4 DEF TypeInv, FilesType
    <3> QED
      BY <1>0, <1>t, <2>4, <3>1 DEF TypeInv, FilesType, NotAhead
  <2>6. PartType(part[k])'
    <3>1. <<block>> \in Seq(Block) /\ Len(<<block>>) = 1 /\ <<block>>[1] = block
      BY <2>1
    <3>2. part'[k].mem \in Seq(Block) /\ NotAhead(part[k].mem)'
      BY <1>0, <2>1, <2>2, <2>t, <3>1 DEF NotAhead
    <3>3. /\ part'[k].saved \in Nat /\ part'[k].got \in Nat /\ part'[k].ver \in Nat /\ part'[k].ver <= srv'
      BY <1>0, <2>2, <2>t
    <3>4. /\ part'[k].tag \in Nat /\ part'[k].tag <= srv'
          /\ {"st", "saved", "got", "mem", "tag", "ver"} \subseteq DOMAIN part'[k]
      BY <1>0, <1>t, <2>2 DEF PartType
    <3> QED
      BY <3>2, <3>3, <3>4 DEF PartType
  <2>7. NoSlip => InRange(k)'
    <3> SUFFICES ASSUME NoSlip PROVE InRange(k)'
      OBVIOUS
    <3> DEFINE r == s \o m
               new == Received(k)'
    <3>1. InRange(k)
      BY <1>0 DEF Sound, Ranging
    <3>2. new = Append(r, block)
      <4>1. new = r \o <<block>>
        BY <2>2, <2>4 DEF Received
      <4> QED
        BY <2>1, <2>3, <4>1, AppendIsConcat
    <3>3. /\ Len(r) = p.saved + p.got /\ InPlace(r, k)
          /\ \A i \in 1 .. Len(r) : r[i].ver = IF i <= p.saved THEN t.probe ELSE p.ver
          /\ p.saved > 0 => t.probe # 0
          /\ p.ver # 0
          /\ p.ver # 0 => p.tag \in {0, p.ver}
      BY <1>0, <2>3, <3>1 DEF InRange
    <3> HIDE DEF r, new
    <3>4. /\ new \in Seq(Block) /\ Len(new) = Len(r) + 1 /\ \A i \in 1 .. Len(r) : new[i] = r[i]
          /\ new[Len(r) + 1] = block
      BY <2>1, <2>3, <3>2, AppendProperties DEF r
    <3> HIDE DEF p
    <3>5. Len(new) = part'[k].saved + part'[k].got /\ Len(r) \in Nat
      BY <2>2, <2>t, <3>3, <3>4
    <3>6. \A i \in 1 .. Len(new) : new[i].at = k * PartLen + i
      <4> SUFFICES ASSUME NEW i \in 1 .. Len(new) PROVE new[i].at = k * PartLen + i
        OBVIOUS
      <4>1. CASE i \in 1 .. Len(r)
        BY <3>3, <3>4, <4>1 DEF InPlace
      <4>2. CASE i = Len(r) + 1
        BY <1>t, <2>1, <2>t, <3>3, <3>4, <4>2
      <4> QED
        BY <3>4, <3>5, <4>1, <4>2
    <3>7. \A i \in 1 .. Len(new) : new[i].ver = IF i <= part'[k].saved THEN t'.probe ELSE part'[k].ver
      <4> SUFFICES ASSUME NEW i \in 1 .. Len(new)
                   PROVE  new[i].ver = IF i <= p.saved THEN t.probe ELSE p.ver
        BY <1>0, <2>2
      <4>1. CASE i \in 1 .. Len(r)
        BY <3>3, <3>4, <4>1
      <4>2. CASE i = Len(r) + 1
        BY <2>1, <2>t, <3>3, <3>4, <4>2
      <4> QED
        BY <3>4, <3>5, <4>1, <4>2
    <3>8. /\ part'[k].st \in {"open", "done"}
          /\ part'[k].st = "done" => part'[k].saved + part'[k].got = PartLen
      BY <2>2, <2>t DEF PartFull
    <3>9. Len(Received(k)') = part'[k].saved + part'[k].got /\ InPlace(Received(k), k)'
      BY <3>5, <3>6 DEF InPlace, new
    <3>10. \A i \in 1 .. Len(Received(k)') :
             Received(k)'[i].ver = IF i <= part'[k].saved THEN t'.probe ELSE part'[k].ver
      BY <3>7 DEF new
    <3>11. /\ part'[k].saved > 0 => t'.probe # 0
           /\ part'[k].ver # 0 /\ part'[k].tag \in {0, part'[k].ver}
           /\ part'[k].st \notin {"asked", "skipped"}
           /\ part'[k].st \in {"skipped", "done"} => part'[k].saved + part'[k].got = PartLen
      BY <1>0, <2>2, <3>3, <3>8
    <3> QED
      BY <3>9, <3>10, <3>11 DEF InRange
  <2> QED
    BY <1>0, <2>2, <2>4, <2>5, <2>6, <2>7, PartKeeps
<1>3. \/ file' = file /\ part' = [part EXCEPT ![k].st = "io"]
      \/ /\ file' = [file EXCEPT ![k] = s \o m]
         /\ part' = [part EXCEPT ![k].got = p.got + 1, ![k].mem = <<block>>,
                                 ![k].st = IF PartFull(p) THEN "done" ELSE "open"]
  <2>1. file \in [Part -> Seq(Block)]
    BY <1>t DEF TypeInv, FilesType
  <2> QED
    BY <1>t, <2>1 DEF Body, Flushed
<1> QED
  BY <1>1, <1>2, <1>3

\* Leaving the ranges with what is safe under a checkpoint.
LEMMA SavedKeeps ==
  ASSUME Sound, pc = "ranges", RangeSafe, SaveRanges, CloseParts,
         UNCHANGED <<srv, kind, job, flag, risk>>,
         TransferType(t)', t'.tag = t.tag,
         \/ pc' = "setup" /\ t'.probe = Capture
         \/ pc' = "judge" /\ t'.res \notin {"Ok", "Segmented"}
  PROVE  Sound'
<1> USE DEF Sound
<1>0. file' = FlushAll /\ ckpt' = Capture
  BY DEF SaveRanges
<1>1. TypeInv'
  <2>1. FilesType'
    BY <1>0, FlushAllFacts, CaptureFacts DEF TypeInv, FilesType, NotAhead
  <2>2. PartsType'
    <3>1. PartType(NoPart)'
      BY NoPartType DEF TypeInv, FilesType, PartType, NotAhead
    <3> QED
      BY <3>1 DEF CloseParts, PartsType, PartType, NotAhead
  <2>3. JobType'
    BY DEF TypeInv, JobType
  <2> QED
    BY <2>1, <2>2, <2>3 DEF TypeInv
<1>2. NoSlip' => /\ NoSlip
                 /\ \A k \in Part : InPlace(file'[k], k) /\ Of(file'[k], ckpt')
  BY <1>0, SafeFacts DEF NoSlip
<1>3. NoSlip' => PartsOnDisk' /\ Ranging' /\ Offsets'
  <2> SUFFICES ASSUME NoSlip' PROVE PartsOnDisk' /\ Ranging' /\ Offsets'
    OBVIOUS
  <2>1. ckpt' \in Nat
    BY <1>1 DEF TypeInv, FilesType
  <2>2. \A k \in Part : \A i \in 1 .. Len(file'[k]) : ckpt' <= file'[k][i].ver
    BY <1>2, <2>1 DEF Of
  <2> QED
    BY <1>2, <2>2 DEF PartsOnDisk, InPlace, Of, Ranging, Offsets
<1>4. risk' = {} => Versions' /\ Finished'
  <2> SUFFICES ASSUME risk = {} PROVE Versions' /\ Finished'
    OBVIOUS
  <2>1. Capture \in {0, srv} /\ Capture # 0
    <3>1. t.probe \in {0, srv} /\ \A k \in Part : part[k].ver \in {0, srv}
      BY DEF Versions
    <3>2. \A k \in Part : part[k].ver # 0 => part[k].tag \in {0, part[k].ver}
      BY DEF NoSlip, Ranging, InRange
    <3> QED
      BY <3>1, <3>2, CaptureFacts DEF RangeSafe
  <2>2. Of(file[0], srv)'
    BY <1>0, <1>2, <2>1, Sizes DEF NoSlip, Of
  <2> QED
    BY <2>1, <2>2 DEF Versions, Finished
<1> QED
  BY <1>1, <1>2, <1>3, <1>4

LEMMA RangesStopKeeps == Sound /\ RangesStop => Sound'
<1> SUFFICES ASSUME Sound, RangesStop, ~Clear PROVE Sound'
  BY LeaveKeeps
<1>1. /\ pc = "ranges" /\ RangeSafe /\ SaveRanges /\ Return("Cancelled") /\ CloseParts
      /\ UNCHANGED <<srv, kind, job, flag, risk>>
  BY DEF RangesStop, RangesOver
<1>2. pc' = "judge" /\ Steady /\ t'.attempt = t.attempt /\ t'.res = "Cancelled"
  BY <1>1, ReturnFacts DEF Sound, TypeInv
<1>3. TransferType(t)' /\ t'.tag = t.tag
  BY <1>1, <1>2 DEF Sound, TypeInv, TransferType, Steady
<1> QED
  BY <1>1, <1>2, <1>3, SavedKeeps

LEMMA RangesRetryKeeps == Sound /\ RangesRetry => Sound'
<1> SUFFICES ASSUME Sound, RangesRetry PROVE Sound'
  OBVIOUS
<1>1. /\ pc = "ranges" /\ RangeSafe /\ SaveRanges /\ CloseParts
      /\ UNCHANGED <<srv, kind, job, flag, risk>>
  BY DEF RangesRetry, RangesOver
<1>2. CASE pc' = "setup" /\ t' = [t EXCEPT !.probe = Capture, !.retry = t.retry + 1]
  <2>1. /\ DOMAIN t' = DOMAIN t /\ t'.arg = t.arg /\ t'.probe = Capture /\ t'.attempt = t.attempt
        /\ t'.off = t.off /\ t'.got = t.got /\ t'.pos = t.pos /\ t'.append = t.append
        /\ t'.tag = t.tag /\ t'.ver = t.ver
    BY <1>2 DEF Sound, TypeInv, TransferType
  <2>2. TransferType(t)'
    BY <1>1, <2>1, CaptureFacts DEF Sound, TypeInv, TransferType
  <2> QED
    BY <1>1, <1>2, <2>1, <2>2, SavedKeeps
<1>3. CASE Return("NetworkError")
  <2>2. pc' = "judge" /\ Steady /\ t'.attempt = t.attempt /\ t'.res = "NetworkError"
    BY <1>3, ReturnFacts DEF Sound, TypeInv
  <2>3. TransferType(t)' /\ t'.tag = t.tag
    BY <1>1, <2>2 DEF Sound, TypeInv, TransferType, Steady
  <2> QED
    BY <1>1, <2>2, <2>3, SavedKeeps
<1> QED
  BY <1>2, <1>3 DEF RangesRetry

LEMMA RangesCompleteKeeps == Sound /\ RangesComplete => Sound'
<1> SUFFICES ASSUME Sound, RangesComplete PROVE Sound'
  OBVIOUS
<1> USE DEF Sound
<1> DEFINE result == IF kind.keep THEN "Segmented" ELSE "Ok"
           whole == Joined(FlushAll)
<1>0. /\ pc = "ranges" /\ flag = "none" /\ ckpt' = 0 /\ Return(result) /\ CloseParts
      /\ UNCHANGED <<srv, kind, job, flag, risk>>
      /\ file' = IF kind.keep THEN FlushAll ELSE [NoFiles EXCEPT ![0] = whole]
      /\ \A k \in Part : part[k].st \in {"skipped", "done"}
  BY DEF RangesComplete, RangesOver, NetworkOk
<1>1. pc' = "judge" /\ Steady /\ t'.attempt = t.attempt /\ t'.res = result
  BY <1>0, ReturnFacts DEF TypeInv
<1>2. /\ FlushAll \in [Part -> Seq(Block)] /\ \A k \in Part : NotAhead(FlushAll[k])
      /\ \A k \in Part : FlushAll[k] = Received(k)
  BY <1>0, FlushAllFacts
<1>3. whole \in Seq(Block) /\ NotAhead(whole)
  BY <1>2, JoinType
<1> HIDE DEF whole
<1>4. file' \in [Part -> Seq(Block)] /\ \A k \in Part : NotAhead(file'[k])
  <2>1. CASE kind.keep
    BY <1>0, <1>2, <2>1
  <2>2. CASE ~kind.keep
    <3>1. file' = [NoFiles EXCEPT ![0] = whole]
      BY <1>0, <2>2
    <3>2. file' \in [Part -> Seq(Block)] /\ file'[0] = whole /\ \A k \in Part : k # 0 => file'[k] = <<>>
      BY <1>3, <3>1, NoFilesType, Sizes
    <3> QED
      BY <1>3, <3>2 DEF NotAhead
  <2> QED
    BY <2>1, <2>2
<1>5. TypeInv'
  <2>1. FilesType'
    BY <1>0, <1>4 DEF TypeInv, FilesType, NotAhead
  <2>2. PartsType'
    <3>1. PartType(NoPart)'
      BY <1>0, NoPartType DEF TypeInv, FilesType, PartType, NotAhead
    <3> QED
      BY <1>0, <3>1 DEF CloseParts, PartsType, PartType, NotAhead
  <2>3. JobType' /\ TransferType(t)'
    BY <1>0, <1>1 DEF TypeInv, JobType, TransferType, Steady
  <2> QED
    BY <2>1, <2>2, <2>3 DEF TypeInv
<1>6. NoSlip => \A k \in Part : Len(FlushAll[k]) = PartLen /\ InPlace(FlushAll[k], k)
  BY <1>0, <1>2 DEF Ranging, InRange
<1>7. NoSlip => InPlace(whole, 0)
  <2> SUFFICES ASSUME NoSlip PROVE InPlace(whole, 0)
    OBVIOUS
  <2>1. \A k \in Part : FlushAll[k] \in Seq(Block) /\ From(FlushAll[k], Nat)
    <3> SUFFICES ASSUME NEW k \in Part, NEW i \in 1 .. Len(FlushAll[k])
                 PROVE  FlushAll[k] \in Seq(Block) /\ FlushAll[k][i].ver \in Nat
      BY <1>2 DEF From
    <3>1. FlushAll[k][i] \in Block
      BY <1>2, ElementOfSeq
    <3> QED
      BY <1>2, <3>1 DEF Block
  <2>2. Beginning(Joined(FlushAll), Total, Nat)
    BY <1>2, <1>6, <2>1, JoinIsWhole
  <2> QED
    BY <2>2 DEF Beginning, whole
<1>8. NoSlip' => NoSlip /\ PartsOnDisk' /\ Ranging' /\ Offsets'
  <2> SUFFICES ASSUME NoSlip' PROVE NoSlip /\ PartsOnDisk' /\ Ranging' /\ Offsets'
    OBVIOUS
  <2>1. NoSlip
    BY <1>0 DEF NoSlip
  <2>2. \A k \in Part : InPlace(file'[k], k)
    <3>1. CASE kind.keep
      BY <1>0, <1>6, <2>1, <3>1
    <3>2. CASE ~kind.keep
      <4>1. file'[0] = whole /\ \A k \in Part : k # 0 => file'[k] = <<>>
        BY <1>0, <3>2, NoFilesType, Sizes
      <4> QED
        BY <1>7, <2>1, <4>1 DEF InPlace
    <3> QED
      BY <3>1, <3>2
  <2>3. \A k \in Part : \A i \in 1 .. Len(file'[k]) : 0 <= file'[k][i].ver
    <3> SUFFICES ASSUME NEW k \in Part, NEW i \in 1 .. Len(file'[k]) PROVE 0 <= file'[k][i].ver
      OBVIOUS
    <3>1. file'[k][i] \in Block
      BY <1>4, ElementOfSeq
    <3> QED
      BY <3>1 DEF Block
  <2> QED
    BY <1>0, <1>1, <2>1, <2>2, <2>3 DEF PartsOnDisk, InPlace, Ranging, Offsets
<1>9. risk' = {} => Versions' /\ Finished'
  <2> SUFFICES ASSUME risk = {} PROVE Versions' /\ Finished'
    BY <1>0
  <2>0. NoSlip /\ srv \in Version
    BY DEF NoSlip, TypeInv, FilesType
  <2>1. \A k \in Part : Of(FlushAll[k], srv)
    <3> SUFFICES ASSUME NEW k \in Part, NEW i \in 1 .. Len(Received(k)) PROVE Received(k)[i].ver = srv
      BY <1>2 DEF Of
    <3>1. InRange(k) /\ part[k].saved \in Nat /\ part[k].got \in Nat
      BY <1>0, <2>0 DEF Ranging, TypeInv, PartsType, PartType
    <3>2. t.probe \in {0, srv} /\ part[k].ver \in {0, srv}
      BY <1>0 DEF Versions
    <3>3. CASE i <= part[k].saved
      BY <3>1, <3>2, <3>3 DEF InRange
    <3>4. CASE ~(i <= part[k].saved)
      <4>1. part[k].got > 0
        BY <3>1, <3>4 DEF InRange
      <4> QED
        BY <3>1, <3>2, <3>4, <4>1 DEF InRange
    <3> QED
      BY <3>3, <3>4
  <2>2. Beginning(whole, Total, {srv})
    <3>1. \A k \in Part : From(FlushAll[k], {srv})
      BY <2>1 DEF Of, From
    <3> QED
      BY <1>2, <1>6, <2>0, <3>1, JoinIsWhole DEF whole
  <2>3. WholeFile(whole) /\ Of(whole, srv)
    BY <2>0, <2>2, BeginningIsWhole DEF Beginning, From, Of
  <2>4. WholeFile(Content)' /\ Of(file[0], srv)'
    <3>1. CASE kind.keep
      <4>1. file' = FlushAll /\ t'.res = "Segmented"
        BY <1>0, <1>1, <3>1
      <4>2. Content' = whole
        BY <4>1 DEF Content, Joined, whole
      <4> QED
        BY <1>0, <2>1, <2>3, <4>1, <4>2, Sizes DEF WholeFile, Of
    <3>2. CASE ~kind.keep
      <4>1. file'[0] = whole /\ t'.res = "Ok"
        BY <1>0, <1>1, <3>2, NoFilesType, Sizes
      <4>2. Content' = whole
        BY <4>1 DEF Content
      <4> QED
        BY <1>0, <2>3, <4>1, <4>2 DEF WholeFile, Of
    <3> QED
      BY <3>1, <3>2
  <2> QED
    BY <1>0, <1>1, <2>4 DEF Versions, Finished, Steady
<1> QED
  BY <1>5, <1>8, <1>9

-----------------------------------------------------------------------------
(* The theorems *)

LEMMA SoundInit == Init => Sound
<1> SUFFICES ASSUME Init PROVE Sound
  OBVIOUS
<1>1. TypeInv
  <2>1. srv = 1 /\ srv \in Nat /\ srv \in Version
    BY LimitAssumption DEF Init, Version
  <2>2. FilesType
    BY <2>1, NoFilesType, KindAssumption DEF Init, FilesType, NotAhead
  <2>3. JobType
    BY <2>1 DEF Init, JobType
  <2>4. TransferType(t) /\ PartsType
    BY <2>1, NoTransferType, NoPartType DEF Init, PartsType
  <2> QED
    BY <2>2, <2>3, <2>4 DEF TypeInv
<1>2. \A k \in Part : file[k] = <<>>
  BY NoFilesType DEF Init
<1>3. PartsOnDisk /\ Ranging /\ Offsets
  BY <1>2 DEF Init, PartsOnDisk, InPlace, Ranging, Offsets
<1>4. Versions /\ Finished
  BY <1>2, Sizes DEF Init, Versions, Of, Finished
<1> QED
  BY <1>1, <1>3, <1>4 DEF Sound

\* Every action of the worker, the network, the user and the server keeps the invariant.
LEMMA SoundStep == Sound /\ [Next]_vars => Sound'
<1> SUFFICES ASSUME Sound, [Next]_vars PROVE Sound'
  OBVIOUS
<1>0. TypeInv
  BY DEF Sound
<1>1. CASE \/ ProbeFails \/ Exhausted \/ Unreachable \/ Transient \/ Permanent \/ Satisfied \/ Ended
           \/ Break \/ Stop \/ Pause \/ Cancel
  BY <1>0, <1>1, PlainActions, PlainKeeps
<1>2. CASE Start \/ Open \/ (\E s \in BOOLEAN : ProbeAnswers(s)) \/ Again \/ Settle \/ Replace
  BY <1>2, StartKeeps, OpenKeeps, ProbeKeeps, AgainKeeps, SettleKeeps, ReplaceKeeps
<1>3. CASE Attempt \/ Full \/ Partial \/ Mismatch \/ Write
  BY <1>3, AttemptKeeps, FullKeeps, PartialKeeps, MismatchKeeps, WriteKeeps
<1>4. CASE Skip \/ SetupFails \/ RangesGiveUp \/ RangesIoError
  BY <1>4, LeaveKeeps
<1>5. CASE Setup \/ RangesStop \/ RangesRetry \/ RangesComplete
  BY <1>5, SetupKeeps, RangesStopKeeps, RangesRetryKeeps, RangesCompleteKeeps
<1>6. CASE \E k \in Part : Headers(k) \/ Body(k) \/ Lose(k)
  BY <1>6, HeadersKeep, BodyKeeps, LoseKeeps
<1>7. CASE UNCHANGED vars
  <2>1. UNCHANGED <<srv, kind, file, ckpt, job, flag, pc, t, part, risk>>
    BY <1>7 DEF vars, disk
  <2>2. TypeInv'
    BY <1>0, <2>1 DEF TypeInv, FilesType, NotAhead, JobType, TransferType, PartsType, PartType
  <2>3. PartsOnDisk' = PartsOnDisk /\ Ranging' = Ranging /\ Offsets' = Offsets /\ NoSlip' = NoSlip
    BY <2>1 DEF PartsOnDisk, InPlace, Of, Ranging, InRange, Received, Offsets, Saved, PrefixesValid, NoSlip
  <2>4. Versions' = Versions
    BY <2>1 DEF Versions, Of
  <2>5. Finished' = Finished
    <3>1. WholeFile(Content)' = WholeFile(Content)
      BY <2>1 DEF Content, Joined, WholeFile
    <3> QED
      BY <2>1, <3>1 DEF Finished
  <2> QED
    BY <2>1, <2>2, <2>3, <2>4, <2>5 DEF Sound
<1> QED
  BY <1>1, <1>2, <1>3, <1>4, <1>5, <1>6, <1>7 DEF Next, Work, Ranges, Serial

LEMMA SoundAlways == Spec => []Sound
  BY SoundInit, SoundStep, PTL DEF Spec

\* Whatever was saved, resumed, replaced or left behind by a serial transfer, the
\* ranges a probe would accept are prefixes of their parts, of the version in the
\* checkpoint: what downloadArchiveRanges keeps of them is never of another file.
THEOREM CheckpointTells == Spec => []CheckpointHonest
<1>1. Sound => CheckpointHonest
  <2> SUFFICES ASSUME Sound, Saved, ckpt = srv, pc # "ranges", NoSlip,
                      NEW k \in Part, NEW i \in 1 .. Len(file[k])
               PROVE  file[k][i] = [at |-> k * PartLen + i, ver |-> ckpt]
    BY DEF CheckpointHonest, NoSlip
  <2>1. file[k][i].at = k * PartLen + i /\ ckpt <= file[k][i].ver
    BY DEF Sound, PartsOnDisk, InPlace
  <2>2. file[k] \in Seq(Block) /\ file[k][i].ver <= srv /\ srv \in Nat
    BY DEF Sound, TypeInv, FilesType, NotAhead
  <2>3. file[k][i] \in Block
    BY <2>2, ElementOfSeq
  <2> QED
    BY <2>1, <2>2, <2>3 DEF Block
<1> QED
  BY <1>1, SoundAlways, PTL

\* A job that runJob completes has the file, every block in its place and all of one
\* version, through any number of pauses, resumes, retries, broken connections and
\* rejected ranges, unless the server replaced the file during a session, the
\* resume had no validator, or a descriptor slipped.
THEOREM DownloadWhole == Spec => []CompletedIsWhole
<1>1. Sound => CompletedIsWhole
  BY DEF Sound, Finished, CompletedIsWhole
<1> QED
  BY <1>1, SoundAlways, PTL

-----------------------------------------------------------------------------
(* The self update: its invariant *)

\* Who runs at a time: the helper or the client, an update or a homebrew install.
Single ==
    /\ updater # "off" => main = "off"
    /\ main \in {"off", "maintenance", "bubble", "check"} =>
         applying = "off" /\ hb = "off" /\ found = None
    /\ main \in {"loop", "join"} => hb = "off"
    /\ applying # "off" => hb = "off" /\ found # None

\* The release applyUpdate was asked for is newer than the client as long as it is
\* remembered: only the helper changes the client.
Newer == found # None => client < found

\* What each place of applyUpdate has found in the staging directory, but for the
\* failed removals it takes to leave something else there.
Staged ==
    /\ applying \in {"extract", "build", "helper", "applied"} => vpk = found
    /\ applying \in {"download", "extract"} => stage = Empty \/ failures >= 1
    /\ applying = "build" => stage.eboot = found /\ (stage.head = None \/ failures >= 2)
    /\ applying \in {"helper", "applied"} => stage = Whole(found) \/ failures >= 2

UpdateInv == TypeOK /\ Single /\ Newer /\ Staged

LEMMA PieceFacts ==
    /\ None \in Piece /\ Torn \in Piece /\ Other \in Piece
    /\ ClientVersion \subseteq Piece /\ Empty \in Package
    /\ \A v \in Piece : Whole(v) \in Package
    /\ \A v \in ClientVersion : v # None
<1>1. None \in Piece /\ Torn \in Piece /\ Other \in Piece /\ ClientVersion \subseteq Piece
    BY BoundAssumption DEF None, Torn, Other, ClientVersion, Piece
<1>2. Empty \in Package /\ \A v \in Piece : Whole(v) \in Package
    BY <1>1 DEF Empty, Package, Whole
<1>3. \A v \in ClientVersion : v # None
    BY DEF None, ClientVersion
<1> QED BY <1>1, <1>2, <1>3

LEMMA LeftIsPackage ==
    ASSUME NEW dir \in Package
    PROVE  Left(dir) \subseteq Package
BY PieceFacts DEF Left, Package

\* What a removal leaves, or what it was asked to leave.
LEMMA ClearedFacts ==
    ASSUME StageCleared, stage \in Package, failures \in 0 .. MaxFailures
    PROVE  /\ stage' \in Package /\ failures' \in 0 .. MaxFailures
           /\ failures' >= failures
           /\ stage' = Empty \/ failures' >= 1
BY PieceFacts, LeftIsPackage, BoundAssumption DEF StageCleared, Smooth, Failure

LEMMA UpdateInitInv == UpdateInit => UpdateInv
<1> SUFFICES ASSUME UpdateInit PROVE UpdateInv
    OBVIOUS
<1>1. 1 \in ClientVersion /\ 1 \in Piece /\ None \in None .. MaxClient
    BY BoundAssumption DEF ClientVersion, Piece, None, Other
<1>a. failures \in 0 .. MaxFailures /\ whims \in 0 .. MaxWhims /\ releases \in 0 .. MaxReleases
    BY BoundAssumption DEF UpdateInit
<1>b. TypeOK
    BY <1>1, <1>a, PieceFacts, Zenon DEF UpdateInit, TypeOK
<1>2. Single /\ Newer /\ Staged
    BY DEF UpdateInit, Single, Newer, Staged
<1> QED BY <1>b, <1>2 DEF UpdateInv

-----------------------------------------------------------------------------
(* Every step keeps the types *)

LEMMA UpdateTypeStep == TypeOK /\ [UpdateNext]_updateVars => TypeOK'
<1> SUFFICES ASSUME TypeOK, [UpdateNext]_updateVars PROVE TypeOK'
    OBVIOUS
<1> USE PieceFacts, BoundAssumption
<1>0. None \in None .. MaxClient
    BY DEF None
<1>1. CASE OpenClient
    BY <1>1 DEF TypeOK, OpenClient, storage, memory, world
<1>2. CASE Maintenance
    BY <1>2, ClearedFacts DEF TypeOK, Maintenance, memory, world
<1>3. CASE CleanBubble
    <2>1. failures' \in 0 .. MaxFailures
        BY <1>3 DEF TypeOK, CleanBubble, Smooth, Failure
    <2>2. bubble' \in BOOLEAN /\ vpk' \in Piece
        BY <1>3, Zenon DEF TypeOK, CleanBubble
    <2> QED BY <1>3, <2>1, <2>2 DEF TypeOK, CleanBubble, memory, world
<1>4. CASE StartupCheck
    BY <1>4 DEF TypeOK, StartupCheck, Smooth, Failure, Latest, IsUpdate, storage, world,
                ClientVersion, None
<1>5. CASE WorkerEnds
    BY <1>5 DEF TypeOK, WorkerEnds, Restarts, storage, world
<1>6. CASE Join
    BY <1>6, <1>0, Zenon DEF TypeOK, Join, Reset, storage, world
<1>7. CASE Leave
    BY <1>7, <1>0, Zenon DEF TypeOK, Leave, Reset, storage, world
<1>8. CASE SettingsDone
    BY <1>8 DEF TypeOK, SettingsDone, storage, world
<1>9. CASE Clean
    <2>1. stage' \in Package /\ legacy' \in Package /\ failures' \in 0 .. MaxFailures
        BY <1>9, ClearedFacts, LeftIsPackage DEF TypeOK, Clean, Failure
    <2> QED BY <1>9, <2>1 DEF TypeOK, Clean, AfterClean, Alone, world
<1>10. CASE Download
    BY <1>10 DEF TypeOK, Download, Smooth, Failure, Alone, world, ClientVersion, Piece, None, Torn
<1>11. CASE Extract
    <2>1. stage' \in Package
        BY <1>11, LeftIsPackage DEF TypeOK, Extract, Package
    <2> QED BY <1>11, <2>1 DEF TypeOK, Extract, Smooth, Failure, Alone, world
<1>12. CASE Build
    <2>1. stage' \in Package
        BY <1>12 DEF TypeOK, Build, Headed, Package
    <2> QED BY <1>12, <2>1 DEF TypeOK, Build, Smooth, Failure, Alone, world
<1>13. CASE Helper
    <2>1. failures' \in 0 .. MaxFailures
        BY <1>13 DEF TypeOK, Helper, Smooth, Failure
    <2>2. bubble' \in BOOLEAN
        BY <1>13, Zenon DEF TypeOK, Helper
    <2> QED BY <1>13, <2>1, <2>2 DEF TypeOK, Helper, Alone, world
<1>14. CASE Find
    <2>1. stage' \in Package /\ legacy' \in Package
        BY <1>14, LeftIsPackage DEF TypeOK, Find
    <2> QED BY <1>14, <2>1 DEF TypeOK, Find, Smooth, Failure, Calm, memory, world
<1>15. CASE Promote
    <2>1. stage' \in Package /\ client' \in ClientVersion /\ updater' \in {"failed", "verify"}
        BY <1>15 DEF TypeOK, Promote
    <2>2. failures' \in 0 .. MaxFailures
        BY <1>15 DEF TypeOK, Promote, Smooth, Failure
    <2> QED BY <1>15, <2>1, <2>2 DEF TypeOK, Promote, Calm, memory, world
<1>16. CASE Verify
    <2>1. stage' \in Package /\ legacy' \in Package /\ failures' \in 0 .. MaxFailures
        BY <1>16, ClearedFacts, LeftIsPackage DEF TypeOK, Verify, Failure
    <2> QED BY <1>16, <2>1 DEF TypeOK, Verify, memory, world
<1>17. CASE CloseUpdater
    BY <1>17 DEF TypeOK, CloseUpdater, storage, memory, world
<1>18. CASE CancelUpdate
    BY <1>18 DEF TypeOK, CancelUpdate, Whim, storage, world
<1>19. CASE SettingsCheck
    BY <1>19 DEF TypeOK, SettingsCheck, Whim, Smooth, Failure, Latest, IsUpdate, storage, world,
                 ClientVersion, None
<1>20. CASE SettingsApply
    BY <1>20 DEF TypeOK, SettingsApply, Whim, storage, world
<1>21. CASE Homebrew
    <2>1. stage' \in Package
        BY <1>21 DEF TypeOK, Homebrew, Install, Package
    <2> QED BY <1>21, <2>1 DEF TypeOK, Homebrew, Install, Whim, Smooth, Failure, world
<1>22. CASE OpenUpdater
    <2>1. whims' \in 0 .. MaxWhims
        BY <1>22 DEF TypeOK, OpenUpdater, Whim
    <2> QED BY <1>22, <1>0, <2>1, Zenon DEF TypeOK, OpenUpdater, Reset, storage, world
<1>23. CASE PowerCut
    <2>1. found \in Piece
        BY DEF TypeOK, ClientVersion, Piece, None, Other
    <2>2. stage' \in Package /\ vpk' \in Piece
        BY <1>23, <2>1 DEF TypeOK, PowerCut, Package
    <2>3. failures' \in 0 .. MaxFailures
        BY <1>23 DEF TypeOK, PowerCut, Failure
    <2> QED BY <1>23, <1>0, <2>2, <2>3, Zenon DEF TypeOK, PowerCut, Reset, world
<1>24. CASE \E v \in ClientVersion : Publish(v)
    BY <1>24 DEF TypeOK, Publish, storage, memory
<1>25. CASE UNCHANGED updateVars
    BY <1>25 DEF TypeOK, updateVars, storage, memory, world
<1> QED
    BY <1>1, <1>2, <1>3, <1>4, <1>5, <1>6, <1>7, <1>8, <1>9, <1>10, <1>11, <1>12, <1>13, <1>14,
       <1>15, <1>16, <1>17, <1>18, <1>19, <1>20, <1>21, <1>22, <1>23, <1>24, <1>25
    DEF UpdateNext, Running, Apply, Helping

-----------------------------------------------------------------------------
(* Every step keeps the invariant *)

LEMMA SingleStep == TypeOK /\ Single /\ [UpdateNext]_updateVars => Single'
<1> SUFFICES ASSUME TypeOK, Single, [UpdateNext]_updateVars PROVE Single'
    OBVIOUS
<1>1. CASE Running
    <2>1. CASE StartupCheck
        BY <1>1, <2>1 DEF Single, StartupCheck
    <2>2. CASE OpenClient \/ Maintenance \/ CleanBubble \/ WorkerEnds \/ Join \/ Leave \/ SettingsDone
        BY <2>2 DEF Single, OpenClient, Maintenance, CleanBubble, WorkerEnds, Join, Leave, SettingsDone,
                    Reset, storage, memory, world
    <2> QED BY <1>1, <2>1, <2>2 DEF Running
<1>2. CASE Apply
    BY <1>2 DEF Single, Apply, Clean, AfterClean, Download, Extract, Build, Helper, Alone
<1>3. CASE Helping
    BY <1>3 DEF Single, Helping, Find, Promote, Verify, CloseUpdater, Calm, storage, memory, world
<1>4. CASE CancelUpdate \/ SettingsCheck \/ SettingsApply
    BY <1>4 DEF Single, CancelUpdate, SettingsCheck, SettingsApply, Idle, storage, memory, world
<1>5. CASE Homebrew
    BY <1>5 DEF Single, Homebrew, Install, Idle
<1>6. CASE OpenUpdater \/ PowerCut
    BY <1>6 DEF Single, OpenUpdater, PowerCut, Reset
<1>7. CASE (\E v \in ClientVersion : Publish(v)) \/ UNCHANGED updateVars
    BY <1>7 DEF Single, Publish, updateVars, storage, memory, world
<1> QED
    BY <1>1, <1>2, <1>3, <1>4, <1>5, <1>6, <1>7 DEF UpdateNext

LEMMA NewerStep == TypeOK /\ Single /\ Newer /\ [UpdateNext]_updateVars => Newer'
<1> SUFFICES ASSUME TypeOK, Single, Newer, [UpdateNext]_updateVars PROVE Newer'
    OBVIOUS
<1>1. CASE Running
    BY <1>1 DEF Newer, Running, OpenClient, Maintenance, CleanBubble, StartupCheck, WorkerEnds, Join, Leave,
                SettingsDone, Reset, Latest, IsUpdate, storage, memory, world
<1>2. CASE Apply
    BY <1>2 DEF Newer, Apply, Clean, Download, Extract, Build, Helper, Alone
<1>3. CASE Helping
    BY <1>3 DEF Newer, Single, Helping, Find, Promote, Verify, CloseUpdater, Calm, storage, memory, world
<1>4. CASE CancelUpdate \/ SettingsCheck \/ SettingsApply
    BY <1>4 DEF Newer, CancelUpdate, SettingsCheck, SettingsApply, Latest, IsUpdate, storage, memory, world
<1>5. CASE Homebrew
    BY <1>5 DEF Newer, Homebrew, Install
<1>6. CASE OpenUpdater \/ PowerCut
    BY <1>6 DEF Newer, OpenUpdater, PowerCut, Reset
<1>7. CASE (\E v \in ClientVersion : Publish(v)) \/ UNCHANGED updateVars
    BY <1>7 DEF Newer, Publish, updateVars, storage, memory, world
<1> QED
    BY <1>1, <1>2, <1>3, <1>4, <1>5, <1>6, <1>7 DEF UpdateNext

\* One job at most writes to the staging: each case says who.
LEMMA StagedStep == TypeOK /\ Single /\ Staged /\ [UpdateNext]_updateVars => Staged'
<1> SUFFICES ASSUME TypeOK, Single, Staged, [UpdateNext]_updateVars PROVE Staged'
    OBVIOUS
<1> USE BoundAssumption
<1>1. CASE Running
    <2>1. CASE Maintenance \/ CleanBubble
        BY <2>1 DEF Single, Staged, Maintenance, CleanBubble, memory
    <2>2. CASE OpenClient \/ StartupCheck \/ WorkerEnds \/ Join \/ Leave \/ SettingsDone
        BY <2>2 DEF Single, Staged, OpenClient, StartupCheck, WorkerEnds, Join, Leave, SettingsDone, Reset,
                    storage, memory, world, Smooth, Failure
    <2> QED BY <1>1, <2>1, <2>2 DEF Running
<1>2. CASE Clean
    <2>1. CASE applying' = "download"
        <3>1. CASE StageCleared
            BY <1>2, <2>1, <3>1, ClearedFacts DEF TypeOK, Staged
        <3>2. CASE stage' = Empty
            BY <1>2, <2>1, <3>2 DEF Staged
        <3> QED BY <1>2, <2>1, <3>1, <3>2 DEF Clean
    <2>2. CASE applying' = "failed"
        BY <2>2 DEF Staged
    <2> QED BY <1>2, <2>1, <2>2 DEF Clean, AfterClean
<1>3. CASE Download
    BY <1>3 DEF Staged, Download, Smooth, Failure, Alone, TypeOK
<1>4. CASE Extract
    <2>1. CASE applying' = "build"
        <3>1. stage'.eboot = found /\ vpk' = found /\ found' = found
            BY <1>4, <2>1 DEF Extract, Staged, Alone, Left, TypeOK, Package
        <3>2. stage'.head = None \/ failures' >= 2
            <4>1. CASE stage = Empty
                BY <1>4, <2>1, <4>1 DEF Extract, Left, Empty, None
            <4>2. CASE stage # Empty
                BY <1>4, <2>1, <4>2 DEF Extract, Staged, Failure, TypeOK
            <4> QED BY <4>1, <4>2
        <3> QED BY <2>1, <3>1, <3>2 DEF Staged
    <2>2. CASE applying' = "failed"
        BY <2>2 DEF Staged
    <2> QED BY <1>4, <2>1, <2>2 DEF Extract
<1>5. CASE Build
    <2>1. CASE applying' = "helper"
        <3>1. stage' = Whole(found) \/ failures' >= 2
            BY <1>5, <2>1 DEF Build, Staged, Headed, Whole, Smooth, TypeOK, Package
        <3> QED BY <1>5, <2>1, <3>1 DEF Build, Staged, Alone
    <2>2. CASE applying' = "failed"
        BY <2>2 DEF Staged
    <2> QED BY <1>5, <2>1, <2>2 DEF Build
<1>6. CASE Helper
    BY <1>6 DEF Staged, Helper, Smooth, Failure, Alone, TypeOK
<1>7. CASE Helping
    BY <1>7 DEF Staged, Single, Helping, Find, Promote, Verify, CloseUpdater, Calm, storage, memory, world
<1>8. CASE CancelUpdate \/ SettingsCheck \/ SettingsApply
    BY <1>8 DEF Staged, Single, CancelUpdate, SettingsCheck, SettingsApply, Idle, storage, memory, world
<1>9. CASE Homebrew
    BY <1>9 DEF Staged, Single, Homebrew, Install, Idle
<1>10. CASE OpenUpdater \/ PowerCut
    BY <1>10 DEF Staged, OpenUpdater, PowerCut, Reset
<1>11. CASE (\E v \in ClientVersion : Publish(v)) \/ UNCHANGED updateVars
    BY <1>11 DEF Staged, Publish, updateVars, storage, memory, world
<1> QED
    BY <1>1, <1>2, <1>3, <1>4, <1>5, <1>6, <1>7, <1>8, <1>9, <1>10, <1>11 DEF UpdateNext, Apply

\* The types hold in every state, for any number of versions, faults and whims.
THEOREM TypeCorrect == UpdateSpec => []TypeOK
BY UpdateInitInv, UpdateTypeStep, PTL DEF UpdateSpec, UpdateInv

LEMMA UpdateInvHolds == UpdateSpec => []UpdateInv
<1>1. UpdateInv /\ [UpdateNext]_updateVars => UpdateInv'
    BY UpdateTypeStep, SingleStep, NewerStep, StagedStep DEF UpdateInv
<1> QED BY UpdateInitInv, <1>1, PTL DEF UpdateSpec

\* applyUpdate never calls an update ready whose payload, head.bin and .vpk are not
\* of the one release it was asked for, newer than the client, with one failed
\* removal, power cut or refused helper anywhere before it.
THEOREM AppliedWhole == UpdateSpec => []AppliedIsWhole
<1>1. UpdateInv => AppliedIsWhole
    <2> SUFFICES ASSUME UpdateInv, applying = "applied", failures <= 1
                 PROVE  stage = Whole(found) /\ vpk = found /\ client < found
        BY DEF AppliedIsWhole
    <2> QED BY DEF UpdateInv, TypeOK, Single, Newer, Staged
<1> QED BY UpdateInvHolds, <1>1, PTL
=============================================================================
