------------------------------ MODULE Organize ------------------------------
(***************************************************************************)
(* The organize command (cmd/file-search-on/organize_cmd.go): one link or  *)
(* copy per search result, at the place a template gives it.  Several      *)
(* results may be given one place, and a place may already hold a file, a  *)
(* link of an earlier run, or an original.                                 *)
(*                                                                         *)
(* A place holds Nothing, a file with some text, or a link to an original. *)
(* The text of an original is its own path; Scrap is that of a copy that   *)
(* broke off, or of a file truncated while it was its own source.          *)
(***************************************************************************)
EXTENDS Integers, Sequences, FiniteSets, FiniteSetsExt, Functions

CONSTANTS
  Places,     \* paths
  Originals,  \* the results
  Templates,  \* where each result goes: functions from originals to places
  Variants,   \* per place its numbered variants, in order
  OldFile,    \* text of a file that was there before
  Scrap       \* text of a spoilt file

ASSUME OrganizeAssumption ==
  /\ Originals \subseteq Places /\ OldFile \notin Places /\ Scrap \notin Places
  /\ Templates \subseteq [Originals -> Places] /\ Variants \in [Places -> Seq(Places)]

VARIABLES
  fs,       \* what each place holds
  before,   \* what it held at first
  policy,   \* "skip", "overwrite" or "number"
  copying,  \* --copy-instead
  dryRun,   \* --dry-run
  template, \* the template
  outcome,  \* per result: "todo", "created", "skipped" or "failed"
  madeAt    \* the place it was given in the end

organizeVars == <<fs, before, policy, copying, dryRun, template, outcome, madeAt>>

Nothing == [kind |-> "nothing"]
File(text) == [kind |-> "file", text |-> text]
LinkTo(o) == [kind |-> "link", text |-> o]

(* Disks a command may find: elsewhere than at the originals there may be  *)
(* an old file or a link to an original.                                   *)
Disks ==
  {[p \in Places |-> IF p \in Originals THEN File(p) ELSE d[p]]
   : d \in [Places \ Originals -> {Nothing, File(OldFile)} \cup {LinkTo(o) : o \in Originals}]}

OrganizeStart(disk, rule, copies, dry, to) ==
  /\ fs = disk /\ before = disk /\ policy = rule /\ copying = copies /\ dryRun = dry
  /\ template = to
  /\ outcome = [o \in Originals |-> "todo"]
  /\ madeAt = [o \in Originals |-> template[o]]

OrganizeInit ==
  \E disk \in Disks, rule \in {"skip", "overwrite", "number"}, copies, dry \in BOOLEAN,
     to \in Templates : OrganizeStart(disk, rule, copies, dry, to)

Exists(p) == fs[p] # Nothing

(* numberedPath: the place itself when no variant is free.                 *)
FreeVariants(p) == {i \in DOMAIN Variants[p] : ~Exists(Variants[p][i])}
NumberedPath(p) == IF FreeVariants(p) = {} THEN p ELSE Variants[p][Min(FreeVariants(p))]

(* resolveConflict.                                                        *)
FinalTarget(o) ==
  IF Exists(template[o]) /\ policy = "number" THEN NumberedPath(template[o]) ELSE template[o]
Skips_Never(o) == FALSE
Skips(o) == Exists(template[o]) /\ policy = "skip"
Cleared(o) ==
  IF Exists(template[o]) /\ policy = "overwrite" THEN [fs EXCEPT ![template[o]] = Nothing] ELSE fs

(* copyFile: os.Create writes through a link and truncates a file, the     *)
(* source too when that is where it ends up.                               *)
WriteAt(disk, p) == IF disk[p].kind = "link" THEN disk[p].text ELSE p
Copied(disk, o, p) ==
  LET end == WriteAt(disk, p)
  IN  [disk EXCEPT ![end] = File(IF end = o THEN Scrap ELSE disk[o].text)]

MarkAs(o, how) == outcome' = [outcome EXCEPT ![o] = how]
Give(o) == madeAt' = [madeAt EXCEPT ![o] = FinalTarget(o)]
organizeFlags == <<before, policy, copying, dryRun, template>>

SkipExisting(o) ==
  /\ outcome[o] = "todo" /\ Skips(o) /\ MarkAs(o, "skipped")
  /\ UNCHANGED <<fs, organizeFlags, madeAt>>

Plan(o) ==
  /\ outcome[o] = "todo" /\ ~Skips(o) /\ dryRun /\ MarkAs(o, "created")
  /\ Give(o) /\ UNCHANGED <<fs, organizeFlags>>

CopyTo(o) ==
  /\ outcome[o] = "todo" /\ ~Skips(o) /\ ~dryRun /\ copying
  /\ IF Cleared(o)[o] = Nothing
       THEN fs' = Cleared(o) /\ MarkAs(o, "failed")
       ELSE fs' = Copied(Cleared(o), o, FinalTarget(o)) /\ MarkAs(o, "created")
  /\ Give(o) /\ UNCHANGED organizeFlags

Link(o) ==
  /\ outcome[o] = "todo" /\ ~Skips(o) /\ ~dryRun /\ ~copying
  /\ IF Cleared(o)[FinalTarget(o)] # Nothing
       THEN fs' = Cleared(o) /\ MarkAs(o, "failed")
       ELSE fs' = [Cleared(o) EXCEPT ![FinalTarget(o)] = LinkTo(o)] /\ MarkAs(o, "created")
  /\ Give(o) /\ UNCHANGED organizeFlags

(* The disk fails: before anything is made, or in the middle of a copy.    *)
DiskFails(o) ==
  /\ outcome[o] = "todo" /\ ~Skips(o) /\ ~dryRun /\ MarkAs(o, "failed")
  /\ \/ fs' = fs
     \/ fs' = Cleared(o)
     \/ /\ copying /\ Cleared(o)[o] # Nothing
        /\ fs' = [Cleared(o) EXCEPT ![WriteAt(Cleared(o), FinalTarget(o))] = File(Scrap)]
  /\ Give(o) /\ UNCHANGED organizeFlags

OrganizeNext ==
  \E o \in Originals : SkipExisting(o) \/ Plan(o) \/ CopyTo(o) \/ Link(o) \/ DiskFails(o)

OrganizeSpec == OrganizeInit /\ [][OrganizeNext]_organizeVars

-----------------------------------------------------------------------------
(* A result for which no variant was free: it went where something was.    *)
RanOut ==
  policy = "number" /\ \E o \in Originals :
    /\ outcome[o] \in {"created", "failed"} /\ madeAt[o] = template[o]
    /\ \/ before[template[o]] # Nothing
       \/ \E q \in Originals \ {o} :
            outcome[q] \in {"created", "failed"} /\ madeAt[q] = template[o]

Reads(p) == IF fs[p].kind = "link" THEN fs[fs[p].text] ELSE fs[p]

(* What organize does to a disk, whatever fails and in whatever order the  *)
(* results came.  Without "overwrite" nothing that was there changes, an   *)
(* original least of all, even where the template points into the searched *)
(* tree or at a link to an original, unless a copy has run out of numbers. *)
(* Then every result reported as created has a place of its own, where its *)
(* text is found.  A dry run changes nothing, and "overwrite" nothing that *)
(* the template does not name.                                             *)
OrganizeSafe ==
  /\ dryRun => fs = before
  /\ policy = "overwrite" =>
       \A p \in Places : p \notin Range(template) => fs[p] = before[p]
  /\ policy # "overwrite" /\ ~(copying /\ RanOut) =>
       /\ \A p \in Places : before[p] # Nothing => fs[p] = before[p]
       /\ ~dryRun =>
            \A o \in Originals : outcome[o] = "created" =>
              /\ Reads(madeAt[o]) = File(o)
              /\ \A q \in Originals \ {o} : outcome[q] = "created" => madeAt[q] # madeAt[o]
=============================================================================
