----------------------------- MODULE FullQuality -----------------------------
(***************************************************************************)
(* What a Full task must show before it starts and before it closes        *)
(* (core/src/task/full-quality.ts, called by the kernel's create, patch,   *)
(* record-gate, start and archive): the files of its controls, a ledger    *)
(* from every acceptance criterion to its evidence, and the verdict of a   *)
(* check.  Authors edit the files and the code all the while; a ledger is  *)
(* built from what is there, and sent with a later command.  The kernel    *)
(* takes whatever it is sent: a caller may as well write ledger and check  *)
(* by hand, and leave fingerprints out.  Create, start, record-gate and    *)
(* archive take them too: here that is a patch, and then the command.      *)
(*                                                                         *)
(* A text is None where there is no file; its version stands for its       *)
(* fingerprint, 0 for an empty text, and so does the version of the code,  *)
(* 0 for the empty fingerprint; a fingerprint that is left out is None.  A *)
(* reference is real, a placeholder or empty.                              *)
(***************************************************************************)
EXTENDS Naturals, FiniteSets, Functions

CONSTANTS
  None,
  ControlRequests,   \* what the callers of resolveRequiredControls ask for
  RawControls,       \* required_controls written by hand; None: the field is null
  FileEdits,         \* [surface, items, real]: what a surface may be edited to
  Mappings,          \* references a ledger may be built from: criterion -> reference
  Checks,            \* [mode, worker] of an independent check
  HandLedgers, HandChecks,   \* what a caller writes by hand
  CheckRecords,      \* records of the gate independent-check
  MaxEdits, MaxCommands

VARIABLES
  files,    \* surface -> [version, items, real], or None
  code,     \* the version of the code
  extras,   \* the task's [controls, ledger, check]
  phase,    \* "none", "define", "execute" or "close"
  draft,    \* a ledger that was built and is not sent yet
  closed,   \* history: files, code and extras the archive command saw
  spent     \* edits and commands so far

-----------------------------------------------------------------------------
(* Required controls.                                                       *)
FullBaseline == {"definition", "execution-contract", "verification-plan",
                 "evidence", "independent-check"}
LiteBaseline == {"definition", "evidence"}
DesignRisks  == {"architecture", "public-contract", "schema", "security",
                 "secret", "framework-semantics", "runtime-semantics"}

Surface == [c \in {"definition", "execution-contract", "verification-plan",
                   "evidence", "design"} |->
              CASE c = "definition" -> "prd"
                [] c = "evidence"   -> "verify"
                [] c = "design"     -> "design"
                [] OTHER            -> "implement"]
Surfaces == {"prd", "implement", "verify", "design"}

BaselineOf(rigor) == IF rigor = "full" THEN FullBaseline ELSE LiteBaseline

DesignRequired(ask) ==
  ask.rigor = "full"
    /\ (ask.policy \/ ask.profile = "architecture" \/ ask.risks \cap DesignRisks # {})

\* resolveRequiredControls
ResolveControls(ask) ==
  [rigor    |-> ask.rigor,
   controls |-> (IF ask.explicit # {} THEN ask.explicit ELSE BaselineOf(ask.rigor))
                \cup (IF DesignRequired(ask) THEN {"design"} ELSE {})]

LiteControls == [rigor |-> "lite", controls |-> LiteBaseline]

\* What a command leaves in the task of what it was sent; None: nothing was.
ControlsKept(raw) ==
  IF raw = None THEN LiteControls
  ELSE [raw EXCEPT !.controls = IF @ = None THEN BaselineOf(raw.rigor) ELSE @]

ControlsAccepted(raw) == raw # None => raw.rigor \in {"lite", "full"}

-----------------------------------------------------------------------------
(* The ledger and the check.                                                *)
Blank == [version |-> 0, items |-> {}, real |-> FALSE]

TextOf(surface) == IF files[surface] = None THEN Blank ELSE files[surface]

\* parseAcceptanceItems
Acceptance == TextOf("prd").items

LedgerBuilds(items, refs) == \A ac \in items : ac \in DOMAIN refs /\ refs[ac] = "real"

Ledger(refs, coded) ==
  [refs |-> refs, source |-> TextOf("prd").version, evidence |-> TextOf("verify").version,
   code |-> IF coded THEN code ELSE None, hand |-> FALSE]

\* evaluateIndependentCheck
Verdict(mode, worker) ==
  [mode |-> mode, readonly |-> TRUE, worker |-> worker, evidence |-> "real",
   result |-> IF mode = "true-independent" /\ ~worker THEN "BLOCKED" ELSE "PASS",
   code |-> code, hand |-> FALSE]

\* assertIndependentCheckGateRecord
CheckHonest(r) ==
  /\ r.mode \in {"self-review", "true-independent"} /\ r.readonly
  /\ r.mode = "true-independent" => r.worker

\* assertHonestGateRecord
GateRecordHonest(r) ==
  /\ r.result \in {"PASS", "FAIL", "SKIPPED"}
  /\ r.result = "PASS" => r.evidence # "empty"
  /\ r.result = "SKIPPED" => r.approved

-----------------------------------------------------------------------------
(* What start and archive ask of a Full task.                               *)
FileControls(when) == IF when = "start" THEN DOMAIN Surface \ {"evidence"} ELSE DOMAIN Surface

SurfacesThere(bundle, when) ==
  \A c \in bundle.controls \cap FileControls(when) : TextOf(Surface[c]).version > 0

EvidenceReal(bundle) ==
  "evidence" \in bundle.controls /\ files["verify"] # None => files["verify"].real

\* Mutant: only the evidence is compared with what is there.
LedgerFreshOfEvidence(l) ==
  /\ l # None /\ Acceptance # {} /\ l.evidence \in {None, TextOf("verify").version}
  /\ LedgerBuilds(Acceptance, l.refs)

LedgerFresh(l) ==
  /\ l # None /\ Acceptance # {}
  /\ l.source \in {None, TextOf("prd").version}
  /\ l.evidence \in {None, TextOf("verify").version}
  /\ LedgerBuilds(Acceptance, l.refs)

\* The code's own fingerprint is not among the arguments: only the two
\* records are compared with each other, where both name one.
CheckCloses(v, l) ==
  /\ v # None /\ CheckHonest(v) /\ v.result = "PASS" /\ v.evidence # "empty"
  /\ l.code # None /\ v.code # None => v.code = l.code

QualityHolds(x, when) ==
  x.controls.rigor = "full" =>
    /\ SurfacesThere(x.controls, when)
    /\ when = "archive" => /\ EvidenceReal(x.controls)
                           /\ LedgerFresh(x.ledger) /\ CheckCloses(x.check, x.ledger)

-----------------------------------------------------------------------------
(* The authors.                                                             *)
AnotherEdit == spent.edits < MaxEdits /\ spent' = [spent EXCEPT !.edits = @ + 1]

EditFile(surface, items, real) ==
  /\ AnotherEdit
  /\ files' = [files EXCEPT ![surface] =
                 [version |-> spent.edits + 1, items |-> items, real |-> real]]
  /\ UNCHANGED <<code, extras, phase, draft, closed>>

RemoveFile(surface, left) ==
  /\ AnotherEdit /\ files[surface] # None
  /\ files' = [files EXCEPT ![surface] = left]
  /\ UNCHANGED <<code, extras, phase, draft, closed>>

EditCode == /\ AnotherEdit /\ code' = code + 1
            /\ UNCHANGED <<files, extras, phase, draft, closed>>

\* buildAcEvidenceLedger: what was verified, not yet part of the task.
Verify(refs, coded) ==
  /\ draft = None /\ LedgerBuilds(Acceptance, refs)
  /\ draft' = Ledger(refs, coded)
  /\ UNCHANGED <<files, code, extras, phase, closed, spent>>

-----------------------------------------------------------------------------
(* The commands.                                                            *)
Commanded == spent.commands < MaxCommands /\ spent' = [spent EXCEPT !.commands = @ + 1]

Create(raw) ==
  /\ phase = "none" /\ Commanded /\ ControlsAccepted(raw)
  /\ extras' = [controls |-> ControlsKept(raw), ledger |-> None, check |-> None]
  /\ phase' = "define"
  /\ UNCHANGED <<files, code, draft, closed>>

\* A patch with the field; a null is sent as None.
PatchControls(raw) ==
  /\ phase # "none" /\ Commanded /\ ControlsAccepted(raw)
  /\ extras' = [extras EXCEPT !.controls = ControlsKept(raw)]
  /\ UNCHANGED <<files, code, phase, draft, closed>>

\* The ledger that was built, or any other.
LedgersSent == HandLedgers \cup ({draft} \ {None})

PatchLedger(l) ==
  /\ phase # "none" /\ Commanded
  /\ extras' = [extras EXCEPT !.ledger = l]
  /\ draft' = IF draft = l THEN None ELSE draft
  /\ UNCHANGED <<files, code, phase, closed>>

\* A verdict on the code that is there, or any other check.
ChecksSent == HandChecks \cup {Verdict(c.mode, c.worker) : c \in Checks}

PatchCheck(v) ==
  /\ phase # "none" /\ Commanded
  /\ extras' = [extras EXCEPT !.check = v]
  /\ UNCHANGED <<files, code, phase, draft, closed>>

\* The record becomes the verdict only where there is none yet.
CheckOfGate(r) ==
  [mode |-> r.mode, readonly |-> TRUE, worker |-> r.worker, evidence |-> r.evidence,
   result |-> r.result, code |-> IF r.code = None THEN 0 ELSE r.code, hand |-> FALSE]

RecordCheckGate(r) ==
  /\ phase # "none" /\ Commanded /\ GateRecordHonest(r) /\ CheckHonest(r)
  /\ extras' = [extras EXCEPT !.check = IF @ = None THEN CheckOfGate(r) ELSE @]
  /\ UNCHANGED <<files, code, phase, draft, closed>>

Start ==
  /\ phase \in {"define", "execute"} /\ Commanded /\ QualityHolds(extras, "start")
  /\ phase' = "execute"
  /\ UNCHANGED <<files, code, extras, draft, closed>>

Archive ==
  /\ phase # "none" /\ Commanded /\ QualityHolds(extras, "archive")
  /\ phase' = "close"
  /\ closed' = [files |-> files, code |-> code, extras |-> extras]
  /\ UNCHANGED <<files, code, extras, draft>>

-----------------------------------------------------------------------------
QualityInit ==
  /\ files = [s \in Surfaces |-> None] /\ code = 1
  /\ extras = [controls |-> LiteControls, ledger |-> None, check |-> None]
  /\ phase = "none" /\ draft = None /\ closed = None
  /\ spent = [edits |-> 0, commands |-> 0]

Bundles == RawControls \cup {ResolveControls(ask) : ask \in ControlRequests}

QualityNext ==
  \/ \E s \in Surfaces, left \in {None, Blank} : RemoveFile(s, left)
  \/ \E e \in FileEdits : EditFile(e.surface, e.items, e.real)
  \/ EditCode
  \/ \E refs \in Mappings, coded \in BOOLEAN : Verify(refs, coded)
  \/ \E raw \in Bundles : Create(raw) \/ PatchControls(raw)
  \/ \E l \in LedgersSent : PatchLedger(l)
  \/ \E v \in ChecksSent : PatchCheck(v)
  \/ \E r \in CheckRecords : RecordCheckGate(r)
  \/ Start \/ Archive

-----------------------------------------------------------------------------
(* A Full task that closes shows what is there at that moment: every        *)
(* acceptance criterion of its definition has real evidence in its ledger,  *)
(* and definition, evidence and checked code are those that the ledger and  *)
(* the check were made for.  Only one written by hand may leave out what it *)
(* was made for, and nothing then tells that it is stale; what a command or *)
(* an evaluation produced is never excused.  The check that passed was      *)
(* read-only, and independent where it says so.                             *)
ClosedOnItsEvidence == closed # None /\ closed.extras.controls.rigor = "full" =>
  LET l == closed.extras.ledger
      v == closed.extras.check
      Now(surface) == IF closed.files[surface] = None THEN Blank ELSE closed.files[surface]
  IN /\ Now("prd").items # {}
     /\ \A ac \in Now("prd").items : ac \in DOMAIN l.refs /\ l.refs[ac] = "real"
     /\ l.source = Now("prd").version \/ (l.hand /\ l.source = None)
     /\ l.evidence = Now("verify").version \/ (l.hand /\ l.evidence = None)
     /\ v.result = "PASS" /\ v.readonly /\ (v.mode = "true-independent" => v.worker)
     /\ v.code = l.code \/ l.code = None \/ (v.hand /\ v.code = None)

=============================================================================
