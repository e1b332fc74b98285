------------------------------- MODULE Report -------------------------------
(***************************************************************************)
(* What the reports say of one audited commit.  Three pieces of code read  *)
(* its row, each with conditions of its own: the SQL of the Summary sheet  *)
(* (internal/report/report.go), the cells of the Decision Matrix in Go     *)
(* (rules.go), from which the By Rule sheet and the Action Queue follow,   *)
(* and the Waivers Log (xlsx.go).                                          *)
(*                                                                         *)
(* d is a row of audit_results.  Its empty-commit flag is why = "empty",   *)
(* its reason "exempt: configured author" is why = "exempt".               *)
(***************************************************************************)
EXTENDS AuditVerdict

-----------------------------------------------------------------------------
(* The Decision Matrix, and what follows from its cells. *)

\* Mutant: the flag, which a voided exemption has too, for the waiver.
R1Exempt_ByFlag(d) ==
    IF d.exemptAuthor /\ d.compliant
    THEN IF d.forgeable THEN "waived-weak" ELSE "waived"
    ELSE "skip"

R1Exempt(d) ==
    IF d.exemptAuthor /\ d.compliant /\ d.why = "exempt"
    THEN IF d.forgeable THEN "waived-weak" ELSE "waived"
    ELSE "skip"

R3HasPR(d) ==
    CASE d.signals.hasPR -> "pass"
      [] ~d.signals.hasPR /\ (R1Exempt(d) = "waived" \/ d.why = "empty") -> "n/a"
      [] OTHER -> "fail"

\* A cell that is about a pull request.
OfPR(d, cell) == IF d.signals.hasPR THEN cell ELSE "n/a"
PassUnless(bad) == IF bad THEN "fail" ELSE "pass"

\* Mutant: a check that never ran is like one that nobody requires.
R6OwnerCheck_MissingIsNA(d) ==
    CASE d.signals.ownerCheck = "success" -> "pass"
      [] d.signals.ownerCheck = "failure" -> "fail"
      [] OTHER -> "n/a"

R6OwnerCheck(d) ==
    CASE d.signals.ownerCheck = "success" -> "pass"
      [] d.signals.ownerCheck = "failure" -> "fail"
      [] d.signals.ownerCheck = "missing" -> "missing"
      [] OTHER -> "n/a"

DeriveRuleOutcomes(d) ==
    [R1  |-> R1Exempt(d),
     R2  |-> IF d.why = "empty" THEN "waived" ELSE "skip",
     R3  |-> R3HasPR(d),
     R4  |-> OfPR(d, PassUnless(~d.signals.finalApproval)),
     R4b |-> OfPR(d, PassUnless(d.signals.stale)),
     R4c |-> OfPR(d, PassUnless(d.signals.concern)),
     R5  |-> OfPR(d, IF d.signals.selfApproved THEN "fail" ELSE IF d.signals.finalApproval THEN "pass" ELSE "n/a"),
     R6  |-> R6OwnerCheck(d),
     R7  |-> PassUnless(~d.compliant),
     R8  |-> IF d.known.clean THEN "waived" ELSE "n/a"]

\* By Rule counts the rows at which a rule fires.
Fires(d) ==
    LET o == DeriveRuleOutcomes(d)
    IN  {r \in {"R1", "R2", "R8"} : o[r] = "waived"} \cup
        {r \in {"R3", "R4", "R4b", "R4c", "R5", "R7"} : o[r] = "fail"} \cup
        {r \in {"R6"} : o[r] \in {"fail", "missing"}}

\* The Action Queue holds the failed verdicts.
RequiresAction(d) == DeriveRuleOutcomes(d).R7 = "fail"

\* The rule whose remedy the Action Queue prescribes: the first that fails.
SynthesizeAction(d) ==
    LET Fails(r) == r \in Fires(d)
        order    == <<"R3", "R5", "R6", "R4b", "R4", "R4c", "R7">>
    IN  order[SelectInSeq(order, Fails)]

-----------------------------------------------------------------------------
(* The other two accounts. *)

\* The filters of GetSummary: which of its columns count the row.
GetSummary(d) ==
    [forgeable |-> d.compliant /\ d.forgeable,
     queue     |-> ~d.compliant,
     waived    |-> d.compliant /\ \/ d.exemptAuthor /\ d.why = "exempt"
                                  \/ d.why = "empty"
                                  \/ d.known.clean
                                  \/ CleanMerge(d.commit),
     noPR      |-> ~d.signals.hasPR /\ d.why # "empty" /\ ~(d.compliant /\ d.exemptAuthor),
     noFinal   |-> d.signals.hasPR /\ ~d.signals.finalApproval,
     checks    |-> d.signals.ownerCheck \in {"failure", "missing"}]

\* The entries of the Waivers Log, those of bot authors left out: nothing else
\* counts them.
writeWaiversLog(d) ==
    {kind \in {"exempt-author", "empty-commit", "clean-revert", "clean-merge"} :
        /\ kind = "exempt-author" => d.exemptAuthor /\ d.compliant /\ d.why = "exempt"
        /\ kind = "empty-commit"  => d.why = "empty"
        /\ kind = "clean-revert"  => d.compliant /\ d.known.clean
        /\ kind = "clean-merge"   => d.compliant /\ CleanMerge(d.commit)}

-----------------------------------------------------------------------------
(* Properties. *)

\* report.go: "Summary, By Rule, and Decision Matrix agree".  Whatever audit
\* wrote the row, and after annotate-commits, the SQL counts it where the cells
\* fire and the Waivers Log lists what is counted as waived; a waiver is counted
\* as weak or fires as rule 1, never both.  (The cell of rule 3 fails at a weakly
\* waived commit that the Summary does not count.)
AccountsAgree ==
    row # NoRow =>
        LET count == GetSummary(row)
            fires == Fires(row)
            log   == writeWaiversLog(row)
        IN  /\ count.noPR    <=> ("R3" \in fires /\ R1Exempt(row) # "waived-weak")
            /\ count.noFinal <=> "R4" \in fires
            /\ count.checks  <=> "R6" \in fires
            /\ count.queue   <=> RequiresAction(row)
            /\ count.waived  <=> log # {}
            /\ "exempt-author" \in log <=> (count.forgeable # ("R1" \in fires))

\* The Action Queue sends an auditor after something the verdict was refused
\* for, though the cells are derived from the signals and know no reasons.
\* (Landing scope has no cell: a commit refused for it alone gets any remedy.)
ActionNamesAReason ==
    row # NoRow /\ RequiresAction(row) /\ "not delivered" \notin row.reasons =>
        LET Reason == [R3 |-> "no pull request", R5 |-> "self-approved", R6 |-> "checks",
                       R4b |-> "stale", R4 |-> "no approval", R4c |-> "", R7 |-> ""]
        IN  Reason[SynthesizeAction(row)] \in row.reasons
=============================================================================
