---------------------------- MODULE PluginInstall -----------------------------
(***************************************************************************)
(* The plugin branch of the install worker (install_controller.cpp) with   *)
(* TaiConfigEditor: a downloaded plugin is copied beside the old one, the  *)
(* two change places, and taiHEN's config.txt gets a line for it.  Every   *)
(* file operation is a step that may fail; the power may go at any step.   *)
(*                                                                         *)
(* A plugin's file is the version it holds, None or Torn.  config.txt is a *)
(* sequence of rows: a section's header, the line of a plugin, or such a   *)
(* line commented out.  Rows are compared trimmed, so white space is left  *)
(* out.  sceIoRename fails when the new name is taken.  What the worker    *)
(* does before and after is in InstallJob.                                 *)
(***************************************************************************)
EXTENDS Naturals, SequencesExt

CONSTANTS
    Plugin,       \* plugins, each with its file and its line
    Section,      \* sections of config.txt
    NoSection,    \* section "none"
    SectionOf,    \* the section a plugin's link names
    Configs,      \* the config.txt there may be at first
    MaxInstalls,  \* bound on the requests
    MaxFaults     \* bound on failed file operations and power cuts

Row == {"header"} \X Section \cup {"line", "comment"} \X Plugin

ASSUME SectionAssumption == SectionOf \in [Plugin -> Section \cup {NoSection}] /\ NoSection \notin Section
IsHeader(row) == row[1] = "header"
\* Each plugin has one line at most, and it stands in its own section.
Orderly(rows) ==
    \A i, j \in DOMAIN rows : \A q \in Plugin :
        rows[i] = <<"line", q>> =>
            /\ rows[j] = <<"line", q>> => i = j
            /\ \E h \in 1 .. i - 1 :
                 /\ rows[h] = <<"header", SectionOf[q]>>
                 /\ \A k \in h + 1 .. i : ~IsHeader(rows[k])

\* The first text is orderly; what the installer makes of one that is not is not asked.
ASSUME ConfigAssumption ==
    \A c \in Configs : /\ c \in [there : BOOLEAN, rows : Seq(Row)]
                       /\ ~c.there => c.rows = <<>>
                       /\ Orderly(c.rows)
ASSUME BoundAssumption == MaxInstalls \in Nat /\ MaxFaults \in Nat

VARIABLES
    dest, new, bak,  \* destPath, stagePath and backupPath of each plugin
    conf, tmp,       \* config.txt and config.txt.psva_tmp
    out,             \* the rows writeAllAtomic is to write
    pc,              \* where the worker is; "off" when there is none
    p, replacing,    \* its plugin; whether one was there
    ver,             \* the version downloaded last
    faults,
    owned,           \* history: the version of each plugin the user has
    own              \* history: the rows of the user

files == <<dest, new, bak>>
texts == <<conf, tmp, out>>
story == <<owned, own>>
vars == <<files, texts, pc, p, replacing, ver, faults, story>>

None == 0
Torn == MaxInstalls + 2
Content == None .. Torn
Text == [there : BOOLEAN, rows : Seq(Row)]
NoText == [there |-> FALSE, rows |-> <<>>]

TypeOK ==
    /\ {dest, new, bak} \subseteq [Plugin -> Content]
    /\ conf \in Text /\ tmp \in Text /\ out \in Seq(Row)
    /\ pc \in {"off", "check", "copy", "aside", "activate", "back", "edit", "remove",
               "swap", "direct", "undo", "restore", "tidy"}
    /\ p \in Plugin /\ replacing \in BOOLEAN
    /\ ver \in 1 .. MaxInstalls + 1 /\ faults \in 0 .. MaxFaults
    /\ owned \in [Plugin -> Content] /\ own \subseteq Row

-----------------------------------------------------------------------------
(* config.txt *)

Lists(text, q) == text.there /\ \E i \in DOMAIN text.rows : text.rows[i] = <<"line", q>>

\* The rows with the line of q, at the end of its section; a section that is
\* missing is made at the end.
InsertedLast(rows, q) == Append(rows, <<"line", q>>)
Inserted(rows, q) ==
    LET start == {i \in DOMAIN rows : rows[i] = <<"header", SectionOf[q]>>}
        first == CHOOSE i \in start : \A j \in start : i <= j
        after == {i \in DOMAIN rows : i > first /\ IsHeader(rows[i])}
        next  == CHOOSE i \in after : \A j \in after : i <= j
    IN  IF start = {} THEN rows \o << <<"header", SectionOf[q]>>, <<"line", q>> >>
        ELSE IF after = {} THEN Append(rows, <<"line", q>>)
        ELSE InsertAt(rows, next, <<"line", q>>)

Whole(rows) == [there |-> TRUE, rows |-> rows]
Cut(rows) == {[there |-> TRUE, rows |-> SubSeq(rows, 1, n)] : n \in 0 .. Len(rows)}

-----------------------------------------------------------------------------
(* The worker *)

Fault == faults < MaxFaults /\ faults' = faults + 1
Sound == UNCHANGED faults

Request(q) ==
    /\ pc = "off" /\ ver <= MaxInstalls
    /\ pc' = "check" /\ p' = q /\ ver' = ver + 1
    /\ replacing' = (dest[q] # None)
    /\ UNCHANGED <<files, texts, faults, story>>

\* The stage is removed; whether that worked is not looked at.
DropStage == new' = [new EXCEPT ![p] = None] \/ UNCHANGED new

\* failPluginInstall.
Fail == pc' = "off"

\* A backup is left alone; a stage left behind is removed; the download is
\* measured and both files are opened.
MayGoOn == bak[p] = None
Check ==
    /\ pc = "check"
    /\ \/ ~MayGoOn /\ Fail /\ Sound /\ UNCHANGED files
       \/ MayGoOn /\ Fail /\ Fault /\ UNCHANGED files
       \/ MayGoOn /\ Fail /\ Fault /\ new' = [new EXCEPT ![p] = None] /\ UNCHANGED <<dest, bak>>
       \/ MayGoOn /\ pc' = "copy" /\ Sound /\ new' = [new EXCEPT ![p] = Torn] /\ UNCHANGED <<dest, bak>>
    /\ UNCHANGED <<texts, p, replacing, ver, story>>

Copy ==
    /\ pc = "copy"
    /\ \/ pc' = "aside" /\ Sound /\ new' = [new EXCEPT ![p] = ver]
       \/ Fail /\ Fault /\ DropStage
    /\ UNCHANGED <<dest, bak, texts, p, replacing, ver, story>>

\* The old plugin becomes the backup.
Aside ==
    /\ pc = "aside"
    /\ \/ ~replacing /\ pc' = "activate" /\ Sound /\ UNCHANGED files
       \/ /\ replacing /\ bak[p] = None /\ pc' = "activate" /\ Sound
          /\ bak' = [bak EXCEPT ![p] = dest[p]] /\ dest' = [dest EXCEPT ![p] = None]
          /\ UNCHANGED new
       \/ /\ replacing /\ Fail
          /\ ((bak[p] # None /\ Sound) \/ Fault)
          /\ DropStage /\ UNCHANGED <<dest, bak>>
    /\ UNCHANGED <<texts, p, replacing, ver, story>>

\* The new one takes its place.
ActivateAndForget ==
    /\ pc = "activate" /\ pc' = "edit" /\ Sound
    /\ dest' = [dest EXCEPT ![p] = new[p]] /\ new' = [new EXCEPT ![p] = None]
    /\ bak' = [bak EXCEPT ![p] = None]
    /\ UNCHANGED <<texts, p, replacing, ver, story>>
Activate ==
    /\ pc = "activate"
    /\ \/ /\ pc' = "edit" /\ Sound
          /\ dest' = [dest EXCEPT ![p] = new[p]] /\ new' = [new EXCEPT ![p] = None]
       \/ pc' = "back" /\ Fault /\ UNCHANGED <<dest, new>>
    /\ UNCHANGED <<bak, texts, p, replacing, ver, story>>

\* The old one is put back after a failed activation.
Back ==
    /\ pc = "back" /\ Fail /\ DropStage
    /\ \/ /\ replacing /\ Sound
          /\ dest' = [dest EXCEPT ![p] = bak[p]] /\ bak' = [bak EXCEPT ![p] = None]
       \/ ((replacing /\ Fault) \/ (~replacing /\ Sound)) /\ UNCHANGED <<dest, bak>>
    /\ UNCHANGED <<texts, p, replacing, ver, story>>

\* The plugin counts as the user's from here on.
Edited == pc' = "tidy" /\ owned' = [owned EXCEPT ![p] = ver]

\* appendLineToSection: a plugin without a section or with its line in place
\* needs no line.
NeedsLine == SectionOf[p] # NoSection /\ ~Lists(conf, p)
Registered ==
    /\ pc = "edit" /\ ~NeedsLine /\ Edited /\ Sound
    /\ UNCHANGED <<files, texts, p, replacing, ver, own>>

\* There is no config.txt, or it cannot be read, or the .psva_tmp not written.
EditFails ==
    /\ pc = "edit" /\ SectionOf[p] # NoSection /\ pc' = "undo"
    /\ \/ ~conf.there /\ Sound /\ UNCHANGED tmp
       \/ conf.there /\ Fault /\ UNCHANGED tmp
       \/ NeedsLine /\ conf.there /\ Fault /\ tmp' \in Cut(Inserted(conf.rows, p)) \cup {NoText}
    /\ UNCHANGED <<files, conf, out, p, replacing, ver, story>>

\* The new text is in .psva_tmp.
WriteTmpUnchecked ==
    /\ pc = "edit" /\ NeedsLine /\ conf.there /\ pc' = "remove"
    /\ out' = Inserted(conf.rows, p)
    /\ (Sound /\ tmp' = Whole(out')) \/ (Fault /\ tmp' \in Cut(out'))
    /\ UNCHANGED <<files, conf, p, replacing, ver, story>>
WriteTmp ==
    /\ pc = "edit" /\ NeedsLine /\ conf.there /\ pc' = "remove" /\ Sound
    /\ out' = Inserted(conf.rows, p)
    /\ tmp' = Whole(out')
    /\ UNCHANGED <<files, conf, p, replacing, ver, story>>

\* writeAllAtomic: config.txt is removed; it does not look whether that worked.
RemoveConfig ==
    /\ pc = "remove" /\ pc' = "swap"
    /\ (Sound /\ conf' = NoText) \/ (Fault /\ UNCHANGED conf)
    /\ UNCHANGED <<files, tmp, out, p, replacing, ver, story>>

\* The rename, which fails while config.txt is there.
Swap ==
    /\ pc = "swap"
    /\ \/ /\ ~conf.there /\ Edited /\ Sound
          /\ conf' = tmp /\ tmp' = NoText
       \/ /\ ((conf.there /\ Sound) \/ (~conf.there /\ Fault))
          /\ pc' = "direct" /\ UNCHANGED <<conf, owned>>
          /\ tmp' \in {NoText, tmp}
    /\ UNCHANGED <<files, out, p, replacing, ver, own>>

\* The fallback: config.txt is written in place.
Direct ==
    /\ pc = "direct"
    /\ \/ Edited /\ Sound /\ conf' = Whole(out)
       \/ pc' = "undo" /\ Fault /\ conf' \in Cut(out) \cup {conf} /\ UNCHANGED owned
    /\ UNCHANGED <<files, tmp, out, p, replacing, ver, own>>

\* A plugin that taiHEN does not know of is taken away, and the old one put back.
Undo ==
    /\ pc = "undo"
    /\ \/ /\ Sound /\ dest' = [dest EXCEPT ![p] = None]
          /\ pc' = IF replacing THEN "restore" ELSE "off"
       \/ Fault /\ Fail /\ UNCHANGED dest
    /\ UNCHANGED <<new, bak, texts, p, replacing, ver, story>>

Restore ==
    /\ pc = "restore" /\ Fail
    /\ \/ /\ Sound /\ dest' = [dest EXCEPT ![p] = bak[p]]
          /\ bak' = [bak EXCEPT ![p] = None]
       \/ Fault /\ UNCHANGED <<dest, bak>>
    /\ UNCHANGED <<new, texts, p, replacing, ver, story>>

\* Completed; a backup that cannot be removed stays.
Tidy ==
    /\ pc = "tidy" /\ pc' = "off"
    /\ \/ Sound /\ bak' = IF replacing THEN [bak EXCEPT ![p] = None] ELSE bak
       \/ replacing /\ Fault /\ UNCHANGED bak
    /\ UNCHANGED <<dest, new, texts, p, replacing, ver, story>>

\* The power goes; a text being written is cut anywhere.
PowerCut ==
    /\ pc # "off" /\ pc' = "off" /\ Fault
    /\ tmp' \in IF pc = "edit" /\ NeedsLine /\ conf.there
                THEN Cut(Inserted(conf.rows, p)) \cup {NoText, tmp} ELSE {tmp}
    /\ conf' \in IF pc = "direct" THEN Cut(out) \cup {conf} ELSE {conf}
    /\ UNCHANGED <<files, out, p, replacing, ver, story>>

\* AutoPlugin, another program, comments a line out.
Disable(q) ==
    /\ pc = "off" /\ Lists(conf, q)
    /\ conf' = Whole([i \in DOMAIN conf.rows |->
                        IF conf.rows[i] = <<"line", q>> THEN <<"comment", q>> ELSE conf.rows[i]])
    /\ own' = (own \ {<<"line", q>>}) \cup {<<"comment", q>>}
    /\ UNCHANGED <<files, tmp, out, pc, p, replacing, ver, faults, owned>>

-----------------------------------------------------------------------------
\* A plugin may be there at first, and is when config.txt names it.
Init ==
    /\ conf \in Configs /\ tmp = NoText /\ out = <<>>
    /\ dest \in [Plugin -> {None, 1}]
    /\ \A q \in Plugin : Lists(conf, q) => dest[q] # None
    /\ new = [q \in Plugin |-> None] /\ bak = new
    /\ pc = "off" /\ p \in Plugin /\ replacing = FALSE
    /\ ver = 1 /\ faults = 0
    /\ owned = dest /\ own = ToSet(conf.rows)

Next ==
    \/ \E q \in Plugin : Request(q) \/ Disable(q)
    \/ Check \/ Copy \/ Aside \/ Activate \/ Back
    \/ Registered \/ EditFails \/ WriteTmp \/ RemoveConfig \/ Swap \/ Direct \/ Undo \/ Restore \/ Tidy
    \/ PowerCut

Spec == Init /\ [][Next]_vars

-----------------------------------------------------------------------------
(* Properties *)

\* "A leftover backup could be the user's only intact plugin": whatever fails and
\* wherever the power goes, the plugin the user has is in its place or in the
\* backup, until another one has been installed and registered.
OldOrNew == \A q \in Plugin : owned[q] # None => owned[q] \in {dest[q], bak[q]}

RowsKept(text) == text.there /\ own \subseteq ToSet(text.rows)

\* After one failure or one power cut the rows of the user are still all in
\* config.txt or all in the .psva_tmp beside it (writeAllAtomic), but for the
\* moment in which the fallback holds them in memory.
RowsRecoverable ==
    faults <= 1 /\ own # {} /\ pc # "direct" => RowsKept(conf) \/ RowsKept(tmp)

\* "Append `line` at the end of `section`": a plugin has one active line and it
\* stands in its own section, also in a text that was cut and written again.
InItsSection == Orderly(conf.rows)
=============================================================================
