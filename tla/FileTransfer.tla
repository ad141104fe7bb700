---------------------------- MODULE FileTransfer ----------------------------
(***************************************************************************)
(* One file fetched by DownloadManager::runJob through                     *)
(* HttpClient::downloadToFile: the parallel ranges of                      *)
(* parallel_archive_download.cpp with their checkpoint, the serial loop of *)
(* attempts, and the pauses and resumes of the job in between.             *)
(*                                                                         *)
(* The file has Parts * PartLen blocks.  A block on disk is its place in   *)
(* the file and the version of the file it was read from; the server may   *)
(* replace the file at any time.  A validator (ETag or Last-Modified) is   *)
(* the version it stands for, 0 for none.  Every version has the same      *)
(* size: the code rejects another one.  Node selection, TLS modes, delays  *)
(* and progress figures are left out.  A pause lives within one run of the *)
(* program: startup purges what is incomplete (InstallJob).                *)
(***************************************************************************)
EXTENDS Naturals, SequencesExt

CONSTANTS
    Kinds,        \* the downloads there may be, see kind
    Parts,        \* partCount
    PartLen,      \* blocks of a part
    MaxVersion,   \* bound on the versions of the file
    MaxAttempts,  \* kMaxAttempts of downloadToFile
    MaxOuter,     \* outerAttempts of runJob
    MaxRetry,     \* retryIndex limit of downloadArchiveRanges
    MaxSessions,  \* bound on the resumes
    MaxFaults     \* bound on the failures of the storage

ASSUME KindAssumption == Kinds \subseteq [archive : BOOLEAN, tagged : BOOLEAN, keep : BOOLEAN]
ASSUME SizeAssumption == Parts \in Nat \ {0, 1} /\ PartLen \in Nat \ {0}
ASSUME LimitAssumption ==
    /\ MaxVersion \in Nat \ {0} /\ MaxAttempts \in Nat \ {0} /\ MaxOuter \in Nat \ {0}
    /\ MaxRetry \in Nat /\ MaxSessions \in Nat /\ MaxFaults \in Nat

VARIABLES
    srv,    \* the version the server has
    kind,   \* the download: from archive.org, with validators, kept as ranges
    file,   \* payload.part (part 0) and its .range files
    ckpt,   \* the identity in .range.resume, 0 when there is none
    job,    \* state, and etag or last_modified
    flag,   \* pauseRequested and cancelRequested
    pc, t,  \* where the worker is, and the locals of runJob and downloadToFile
    part,   \* the Part records of downloadArchiveRanges
    sessions, faults,
    risk    \* history: what may mix versions or displace blocks

disk   == <<file, ckpt>>
bounds == <<sessions, faults>>
vars == <<srv, kind, disk, job, flag, pc, t, part, bounds, risk>>

Part == 0 .. Parts - 1
Total == Parts * PartLen
Version == 1 .. MaxVersion
Tag == 0 .. MaxVersion

NoPart == [st |-> "none", saved |-> 0, got |-> 0, mem |-> <<>>, tag |-> 0, ver |-> 0]
NoTransfer ==
    [outer |-> 0, arg |-> 0, ifRange |-> 0, probe |-> 0, retry |-> 0,
     attempt |-> 0, off |-> 0, got |-> 0, pos |-> 0, append |-> FALSE,
     used |-> FALSE, dead |-> 0, tag |-> 0, ver |-> 0,
     res |-> "none", gone |-> FALSE]

-----------------------------------------------------------------------------
(* The files *)

NoFiles == [k \in Part |-> <<>>]

\* parallelSavedPrefixValid of every part.
PrefixesValid == \A k \in Part : Len(file[k]) <= PartLen

\* parallelSavedBytes is not zero: there is a checkpoint, and valid prefixes that hold
\* something.
Saved == ckpt # 0 /\ PrefixesValid /\ \E k \in Part : file[k] # <<>>

\* joinParts: every range appended to the first one.
Joined(f) == FlattenSeq([i \in 1 .. Parts |-> f[i - 1]])

Fault == faults < MaxFaults /\ faults' = faults + 1

\* The return of downloadToFile.
Return(res) == pc' = "judge" /\ t' = [t EXCEPT !.res = res]

-----------------------------------------------------------------------------
(* runJob and the opening of downloadToFile *)

\* processQueue takes the job, new or resumed: with a checkpoint the ranges are
\* taken up, otherwise the length of payload.part is the offset.
Start ==
    /\ pc = "idle" /\ job.state \in {"new", "paused"}
    /\ sessions < MaxSessions /\ sessions' = sessions + 1
    /\ flag' = "none" /\ job' = [job EXCEPT !.state = "running"]
    /\ pc' = "open"
    /\ t' = [NoTransfer EXCEPT !.arg = IF Saved THEN 0 ELSE Len(file[0])]
    /\ UNCHANGED <<srv, kind, disk, part, faults, risk>>

\* downloadToFile opens payload.part, appending only to what it is to resume; a
\* resume sends the validator with If-Range.  Only a start from zero that is
\* not stopped looks for ranges.
Open ==
    /\ pc = "open"
    /\ \/ /\ Fault /\ Return("IoError")
          /\ UNCHANGED <<file, risk>>
       \/ LET tag == IF t.arg > 0 THEN job.tag ELSE 0 IN
          /\ file' = IF t.arg = 0 /\ ~Saved THEN [file EXCEPT ![0] = <<>>] ELSE file
          /\ t' = [t EXCEPT !.ifRange = tag, !.off = t.arg, !.got = 0, !.pos = 0,
                            !.append = (t.arg > 0 \/ Saved), !.attempt = 0,
                            !.used = FALSE, !.dead = 0, !.tag = 0, !.ver = 0, !.probe = 0,
                            !.retry = 0, !.res = "none", !.gone = FALSE]
          /\ pc' = IF t.arg = 0 /\ flag = "none" THEN "probe" ELSE "attempt"
          /\ risk' = IF t.arg > 0 /\ tag = 0 THEN risk \cup {"untagged"} ELSE risk
          /\ UNCHANGED faults
    /\ UNCHANGED <<srv, kind, ckpt, job, flag, part, sessions>>

\* The 206 probe; the node selector of archive.org may have made its own when
\* nothing is saved, and reports no validator.  Any other source must have one.
\* Without a probe nothing that is saved is touched.
ProbeAnswers(selected) ==
    /\ pc = "probe" /\ (kind.archive \/ kind.tagged)
    /\ selected => kind.archive /\ ~Saved
    /\ pc' = "setup"
    /\ t' = [t EXCEPT !.probe = IF kind.tagged /\ ~selected THEN srv ELSE 0]
    /\ UNCHANGED <<srv, kind, disk, job, flag, part, bounds, risk>>

ProbeFails ==
    /\ pc = "probe"
    /\ IF Saved
       THEN Return(IF flag = "none" THEN "NetworkError" ELSE "Cancelled")
       ELSE pc' = "attempt" /\ UNCHANGED t
    /\ UNCHANGED <<srv, kind, disk, job, flag, part, bounds, risk>>

-----------------------------------------------------------------------------
(* downloadArchiveRanges *)

\* discardParallelSavedRanges and the reopening of payload.part: from here on
\* the transfer is serial, from zero.
GoSerial ==
    /\ file' = NoFiles /\ ckpt' = 0
    /\ pc' = "attempt"
    /\ t' = [t EXCEPT !.off = 0, !.got = 0, !.pos = 0, !.append = FALSE]

\* Skipped: the space for staging is short.
Skip ==
    /\ pc = "setup" /\ Fault /\ GoSerial
    /\ UNCHANGED <<srv, kind, job, flag, part, sessions, risk>>

\* A checkpoint is used only with the identity of the probe; any other one is
\* removed with its files.
Reuse == ckpt # 0 /\ t.probe # 0 /\ ckpt = t.probe /\ PrefixesValid

\* Every part is asked for its missing bytes; a whole one stands with the
\* validator of the probe.
Setup ==
    /\ pc = "setup" /\ pc' = "ranges"
    /\ file' = IF Reuse THEN file ELSE NoFiles
    /\ ckpt' = IF Reuse THEN ckpt ELSE 0
    /\ part' = [k \in Part |->
         LET saved == Len(file'[k]) IN
         [NoPart EXCEPT !.saved = saved,
                        !.st  = IF saved = PartLen THEN "skipped" ELSE "asked",
                        !.tag = IF saved = PartLen THEN t.probe ELSE 0]]
    /\ UNCHANGED <<srv, kind, job, flag, t, bounds, risk>>

\* clearPartFiles, on the way out with nothing that may be used again.
Clear == file' = NoFiles /\ ckpt' = 0

SetupFails ==
    /\ pc = "setup" /\ Fault /\ Clear
    /\ Return(IF flag = "none" THEN "IoError" ELSE "Cancelled")
    /\ UNCHANGED <<srv, kind, job, flag, part, sessions, risk>>

\* onHeader: the part's own 206 with its validator, or an answer that is no 206
\* for this range.
Headers(k) ==
    /\ pc = "ranges" /\ part[k].st = "asked"
    /\ \/ /\ part' = [part EXCEPT ![k].st = "open", ![k].ver = srv,
                                  ![k].tag = IF kind.tagged THEN srv ELSE 0]
       \/ part' = [part EXCEPT ![k].st = "bad"]
    /\ UNCHANGED <<srv, kind, disk, job, flag, pc, t, bounds, risk>>

\* flushPartBuffer of part k.
Flushed(f, k) == [f EXCEPT ![k] = @ \o part[k].mem]

PartFull(p) == p.saved + p.got + 1 = PartLen

\* onWrite: a full buffer goes to disk before the next block is buffered.
Body(k) ==
    LET p == part[k]
        block == [at |-> k * PartLen + p.saved + p.got + 1, ver |-> p.ver] IN
    /\ pc = "ranges" /\ p.st = "open" /\ flag = "none"
    /\ \/ /\ file' = Flushed(file, k)
          /\ part' = [part EXCEPT ![k].got = @ + 1, ![k].mem = <<block>>,
                        ![k].st = IF PartFull(p) THEN "done" ELSE "open"]
          /\ UNCHANGED faults
       \/ /\ p.mem # <<>> /\ Fault
          /\ part' = [part EXCEPT ![k].st = "io"]
          /\ UNCHANGED file
    /\ UNCHANGED <<srv, kind, ckpt, job, flag, pc, t, sessions, risk>>

Lose(k) ==
    /\ pc = "ranges" /\ part[k].st \in {"asked", "open"}
    /\ part' = [part EXCEPT ![k].st = "lost"]
    /\ UNCHANGED <<srv, kind, disk, job, flag, pc, t, bounds, risk>>

\* The transfer loop ends with every part, or with a stop.
RangesOverWhenDone ==
    pc = "ranges" /\ (flag # "none" \/ \A k \in Part : part[k].st \in {"skipped", "done"})
RangesOver ==
    pc = "ranges" /\ (flag # "none" \/ \A k \in Part : part[k].st \notin {"asked", "open"})

\* The tests of a complete transfer: a source other than archive.org must show
\* the validator of the probe, and the parts must agree with each other.
Agree ==
    /\ kind.archive \/ \A k \in Part : part[k].tag = t.probe
    /\ \A k \in Part : part[k].tag = part[0].tag
NetworkOk == Agree /\ \A k \in Part : part[k].st \in {"skipped", "done"}

\* The buffers written before the files are closed.
FlushAll ==
    [k \in Part |-> IF part[k].st \in {"bad", "io"} THEN file[k] ELSE file[k] \o part[k].mem]

\* captureValidator: the probe's, or the first part's.
Capture ==
    LET seen == {k \in Part : part[k].ver # 0 /\ part[k].tag # 0} IN
    CASE t.probe # 0 -> t.probe
      [] t.probe = 0 /\ seen # {} -> part[CHOOSE k \in seen : \A j \in seen : k <= j].tag
      [] OTHER -> 0

\* rangeSafe: all that was received belongs to the version captured.
RangeSafeUnchecked ==
    Capture # 0 /\ \A k \in Part : part[k].st \notin {"bad", "io"}
RangeSafe ==
    /\ Capture # 0
    /\ \A k \in Part : part[k].st \notin {"bad", "io"}
    /\ \A k \in Part : part[k].st # "skipped" /\ part[k].got > 0 => part[k].tag = Capture

\* closeParts: the records are local to one call.
CloseParts == part' = [k \in Part |-> NoPart]

\* saveCheckpoint.
SaveRanges == file' = FlushAll /\ ckpt' = Capture

\* Stopped: a pause keeps the ranges when they are safe and the checkpoint can
\* be written, a cancellation keeps nothing.
RangesStop ==
    /\ RangesOver /\ flag # "none"
    /\ IF flag = "pause" /\ RangeSafe
       THEN (SaveRanges /\ UNCHANGED faults) \/ (Clear /\ Fault)
       ELSE Clear /\ UNCHANGED faults
    /\ Return("Cancelled")
    /\ CloseParts /\ UNCHANGED <<srv, kind, job, flag, sessions, risk>>

\* The network failed: the safe ranges are tried again, at last left for
\* another session; unsafe ones give way to the serial transfer.
RangesRetry ==
    /\ RangesOver /\ flag = "none" /\ ~NetworkOk /\ RangeSafe
    /\ SaveRanges
    /\ IF t.retry < MaxRetry
       THEN pc' = "setup" /\ t' = [t EXCEPT !.probe = Capture, !.retry = @ + 1]
       ELSE Return("NetworkError")
    /\ CloseParts /\ UNCHANGED <<srv, kind, job, flag, bounds, risk>>

RangesGiveUp ==
    /\ RangesOver /\ flag = "none" /\ ~NetworkOk
    /\ ~RangeSafe /\ \A k \in Part : part[k].st # "io"
    /\ GoSerial
    /\ CloseParts /\ UNCHANGED <<srv, kind, job, flag, bounds, risk>>

\* A part could not be written, or the last buffers, the join or the checkpoint.
RangesIoError ==
    /\ RangesOver /\ flag = "none"
    /\ ((\E k \in Part : part[k].st = "io") /\ UNCHANGED faults) \/ Fault
    /\ Clear /\ Return("IoError")
    /\ CloseParts /\ UNCHANGED <<srv, kind, job, flag, sessions, risk>>

\* Complete: a ZIP stays in its ranges, another file is joined.
RangesComplete ==
    /\ RangesOver /\ flag = "none" /\ NetworkOk
    /\ ckpt' = 0
    /\ file' = IF kind.keep THEN FlushAll ELSE [NoFiles EXCEPT ![0] = Joined(FlushAll)]
    /\ Return(IF kind.keep THEN "Segmented" ELSE "Ok")
    /\ CloseParts /\ UNCHANGED <<srv, kind, job, flag, bounds, risk>>

-----------------------------------------------------------------------------
(* The serial attempts of downloadToFile *)

\* Where the descriptor of payload.part stands when an attempt is repeated, and
\* the offset it asks for: what was received joins the offset, and a descriptor
\* of a transfer that received nothing goes back to the beginning.
Repositioned ==
    IF t.got > 0
    THEN [t EXCEPT !.off = t.off + t.got, !.got = 0, !.pos = Len(file[0])]
    ELSE [t EXCEPT !.pos = IF t.arg = 0 THEN 0 ELSE t.pos]

\* An attempt begins: its headers are forgotten, then the request is sent, unless
\* the callbacks see a stop that is already there while it connects.
Attempt ==
    /\ pc = "attempt" /\ t.attempt < MaxAttempts
    /\ LET u == [IF t.attempt > 0 THEN Repositioned ELSE t EXCEPT !.tag = 0, !.ver = 0]
       IN IF flag = "none" THEN pc' = "wait" /\ t' = u
          ELSE pc' = "judge" /\ t' = [u EXCEPT !.res = "Cancelled"]
    /\ risk' = IF t.attempt > 0 /\ t.got = 0 /\ t.arg = 0 /\ t.off > 0 /\ ~t.append
               THEN risk \cup {"slipped"} ELSE risk
    /\ UNCHANGED <<srv, kind, disk, job, flag, part, bounds>>

Exhausted ==
    /\ pc = "attempt" /\ t.attempt = MaxAttempts /\ Return("NetworkError")
    /\ UNCHANGED <<srv, kind, disk, job, flag, part, bounds, risk>>

NextAttempt(u) == pc' = "attempt" /\ t' = [u EXCEPT !.attempt = @ + 1]

NoBytes == t.off = 0

\* No answer: UnreachableSourceDetector stops at the second one in a row, when
\* nothing has been received.
Unreachable ==
    /\ pc = "wait"
    /\ LET dead == IF NoBytes THEN t.dead + 1 ELSE 0 IN
       IF dead = 2
       THEN pc' = "judge" /\ t' = [t EXCEPT !.dead = 2, !.gone = TRUE, !.res = "NetworkError"]
       ELSE NextAttempt([t EXCEPT !.dead = dead])
    /\ UNCHANGED <<srv, kind, disk, job, flag, part, bounds, risk>>

\* 429 or 5xx is tried again, 404 and the like is not.
Transient ==
    /\ pc = "wait" /\ NextAttempt([t EXCEPT !.dead = 0])
    /\ UNCHANGED <<srv, kind, disk, job, flag, part, bounds, risk>>
Permanent ==
    /\ pc = "wait"
    /\ pc' = "judge" /\ t' = [t EXCEPT !.gone = TRUE, !.res = "HttpError"]
    /\ UNCHANGED <<srv, kind, disk, job, flag, part, bounds, risk>>

Answered(u) == [u EXCEPT !.ver = srv, !.tag = IF kind.tagged THEN srv ELSE 0, !.dead = 0]

\* A resume is honoured while If-Range names the server's version.
ResumableAny == t.off > 0
Resumable == t.off > 0 /\ t.ifRange \in {0, srv}

\* 200, the first body, or the whole file to a resume: payload.part is begun anew.
Full ==
    /\ pc = "wait"
    /\ pc' = "body"
    /\ IF t.off > 0
       THEN /\ file' = [file EXCEPT ![0] = <<>>]
            /\ t' = Answered([t EXCEPT !.off = 0, !.got = 0, !.pos = 0, !.append = FALSE])
       ELSE t' = Answered(t) /\ UNCHANGED file
    /\ UNCHANGED <<srv, kind, ckpt, job, flag, part, bounds, risk>>

\* 206 from the offset asked for.
Partial ==
    /\ pc = "wait" /\ Resumable /\ t.off < Total
    /\ pc' = "body" /\ t' = Answered(t)
    /\ UNCHANGED <<srv, kind, disk, job, flag, part, bounds, risk>>

\* 416, and the offset is the size of the file.
Satisfied ==
    /\ pc = "wait" /\ Resumable /\ t.off = Total
    /\ IF Len(file[0]) = Total THEN Return("Ok") ELSE Return("NetworkError")
    /\ UNCHANGED <<srv, kind, disk, job, flag, part, bounds, risk>>

\* A range other than the one asked for, or none: once, all over again.
Mismatch ==
    /\ pc = "wait" /\ t.off > 0
    /\ IF t.used
       THEN Return("NetworkError") /\ UNCHANGED file
       ELSE /\ file' = [file EXCEPT ![0] = <<>>]
            /\ NextAttempt([t EXCEPT !.used = TRUE, !.off = 0, !.got = 0, !.pos = 0,
                                     !.append = FALSE])
    /\ UNCHANGED <<srv, kind, ckpt, job, flag, part, bounds, risk>>

\* writeCallback: the next block, at the end of a file opened to append, else
\* where the descriptor stands.
Write ==
    LET pos == IF t.append THEN Len(file[0]) ELSE t.pos
        block == [at |-> t.off + t.got + 1, ver |-> t.ver] IN
    /\ pc = "body" /\ flag = "none" /\ t.off + t.got < Total
    /\ \/ /\ file' = [file EXCEPT ![0] =
                        IF pos < Len(@) THEN ReplaceAt(@, pos + 1, block) ELSE Append(@, block)]
          /\ t' = [t EXCEPT !.got = @ + 1, !.pos = pos + 1]
          /\ UNCHANGED <<pc, faults>>
       \/ Fault /\ Return("IoError") /\ UNCHANGED file
    /\ UNCHANGED <<srv, kind, ckpt, job, flag, part, sessions, risk>>

\* The body ends; the size on disk is compared with the remote total.
Ended ==
    /\ pc = "body" /\ t.off + t.got = Total
    /\ IF Len(file[0]) = Total THEN Return("Ok") ELSE Return("NetworkError")
    /\ UNCHANGED <<srv, kind, disk, job, flag, part, bounds, risk>>

Break ==
    /\ pc = "body" /\ t.off + t.got < Total /\ NextAttempt([t EXCEPT !.dead = 0])
    /\ UNCHANGED <<srv, kind, disk, job, flag, part, bounds, risk>>

\* The callbacks see the stop.
Stop ==
    /\ pc \in {"wait", "body"} /\ flag # "none" /\ Return("Cancelled")
    /\ UNCHANGED <<srv, kind, disk, job, flag, part, bounds, risk>>

-----------------------------------------------------------------------------
(* runJob after downloadToFile *)

Flag ==
    IF t.res = "NetworkError" /\ flag = "none" /\ Saved THEN "pause" ELSE flag

KeptTag == IF t.tag # 0 THEN t.tag ELSE job.tag

Over ==
    \/ t.gone \/ Flag # "none" \/ t.res \in {"Ok", "Segmented", "Cancelled"}
    \/ t.outer + 1 = MaxOuter

\* Another session of the client, from the length of payload.part.
Again ==
    /\ pc = "judge" /\ ~Over
    /\ pc' = "open" /\ job' = [job EXCEPT !.tag = KeptTag]
    /\ t' = [t EXCEPT !.outer = @ + 1, !.arg = Len(file[0])]
    /\ UNCHANGED <<srv, kind, disk, flag, part, bounds, risk>>

\* What the job becomes.  A pause is looked at first, whatever was returned.
Outcome ==
    CASE Flag = "pause" -> "paused"
      [] Flag = "cancel" \/ t.res = "Cancelled" -> "cancelled"
      [] t.res \in {"Ok", "Segmented"} /\ Flag = "none" -> "completed"
      [] OTHER -> "failed"

Settle ==
    /\ pc = "judge" /\ Over
    /\ pc' = "idle" /\ flag' = Flag
    /\ job' = [state |-> Outcome, tag |-> KeptTag]
    /\ t' = [NoTransfer EXCEPT !.res = t.res]
    /\ file' = IF Outcome \in {"cancelled", "failed"} THEN [file EXCEPT ![0] = <<>>] ELSE file
    /\ UNCHANGED <<srv, kind, ckpt, part, bounds, risk>>

-----------------------------------------------------------------------------
(* The user and the server *)

Pause ==
    /\ pc # "idle" /\ flag = "none" /\ flag' = "pause"
    /\ UNCHANGED <<srv, kind, disk, job, pc, t, part, bounds, risk>>
Cancel ==
    /\ pc # "idle" /\ flag # "cancel" /\ flag' = "cancel"
    /\ UNCHANGED <<srv, kind, disk, job, pc, t, part, bounds, risk>>

Replace ==
    /\ srv < MaxVersion /\ srv' = srv + 1
    /\ risk' = IF pc # "idle" THEN risk \cup {"raced"} ELSE risk
    /\ UNCHANGED <<kind, disk, job, flag, pc, t, part, bounds>>

-----------------------------------------------------------------------------
Init ==
    /\ srv = 1 /\ kind \in Kinds
    /\ file = NoFiles /\ ckpt = 0
    /\ job = [state |-> "new", tag |-> 0] /\ flag = "none"
    /\ pc = "idle" /\ t = NoTransfer /\ part = [k \in Part |-> NoPart]
    /\ sessions = 0 /\ faults = 0 /\ risk = {}

Ranges ==
    \/ Skip \/ Setup \/ SetupFails
    \/ \E k \in Part : Headers(k) \/ Body(k) \/ Lose(k)
    \/ RangesStop \/ RangesRetry \/ RangesGiveUp \/ RangesIoError \/ RangesComplete
Serial ==
    \/ Attempt \/ Exhausted \/ Unreachable \/ Transient \/ Permanent
    \/ Full \/ Partial \/ Satisfied \/ Mismatch \/ Write \/ Ended \/ Break \/ Stop
Work == Open \/ (\E s \in BOOLEAN : ProbeAnswers(s)) \/ ProbeFails \/ Ranges \/ Serial \/ Again \/ Settle
Next == Start \/ Work \/ Pause \/ Cancel \/ Replace

\* Every request has a timeout, so the worker always goes on.
Spec == Init /\ [][Next]_vars /\ WF_vars(Work)

-----------------------------------------------------------------------------
(* Properties *)

Content == IF t.res = "Segmented" THEN Joined(file) ELSE file[0]
WholeFile(s) == \E v \in Version : s = [i \in 1 .. Total |-> [at |-> i, ver |-> v]]

\* A completed download is the file, whole, and of one version, through ranges,
\* serial attempts, restarts and resumes, unless the server replaced it during a
\* session, the resume had no validator, or a descriptor slipped (Attempt).
CompletedIsWhole == job.state = "completed" /\ risk = {} => WholeFile(Content)

\* Saved ranges a probe would accept are what the part files hold: a prefix of
\* every part, of the version in the identity.  A checkpoint written before the
\* first block arrived outlives a serial transfer (Open, ProbeFails), which then
\* fills the first part under it: it must hold for that one as well.
CheckpointHonest ==
    Saved /\ ckpt = srv /\ pc # "ranges" /\ "slipped" \notin risk =>
        \A k \in Part : \A i \in 1 .. Len(file[k]) :
            file[k][i] = [at |-> k * PartLen + i, ver |-> ckpt]

\* Whatever the network does, a session ends.
SessionEnds == pc # "idle" ~> pc = "idle"
=============================================================================
