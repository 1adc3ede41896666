------------------------------ MODULE CaseForms ------------------------------
(***************************************************************************)
(* What the forms of enforcement cases and those of insurance cases        *)
(* promise alike to the people who fill them in.  The two share no state.  *)
(***************************************************************************)
EXTENDS EnforcementCases, InsuranceCases

\* No save of an enforcement or insurance case overwrites what its form was not
\* opened with (update-case.ts:49, insurance-arbitration/service.ts:117).
ReplacedWasShown == FileReplacedWasShown /\ ClaimReplacedWasShown

\* What a save of an enforcement or insurance case sent is stored when its form reports
\* it as saved, with everything attached to it, whatever was typed meanwhile
\* (NewCaseForm.tsx:488, NewInsuranceCaseForm.tsx:31).
SavedIsStored == FileSavedIsStored /\ ClaimSavedIsStored
=============================================================================
