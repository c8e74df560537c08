---------------------------- MODULE DiscReports ----------------------------
(***************************************************************************)
(* What is asked of a disc after the censuses, one tool after the other:   *)
(* which members of its SCPK bundles are copies (ScpkDupes), what each of  *)
(* those bundles holds (ScpkListing), what its movies look like (Movies),  *)
(* and what is in the archives that members decode to (Archives).          *)
(***************************************************************************)
EXTENDS DiscCensus, ScpkDupes, ScpkListing, Movies, Archives

reportVars == <<dupesVars, scpkListVars, rows, listingVars>>

ReportsInit == DiscInit /\ DupesInit /\ ScpkListInit /\ MoviesInit /\ ListingInit

Reported == pc = "reported" /\ k > Len(container) /\ scpkPc = "reported"

ReportsDone ==
  /\ Reported
  /\ DupesDone
  /\ ScpkListDone
  /\ MoviesDone
  /\ ListingDone
  /\ UNCHANGED <<allVars, reportVars>>

Report ==
  \/ DupesStep /\ UNCHANGED <<scpkListVars, rows, listingVars>>
  \/ DupesDone /\ ScpkListStep /\ UNCHANGED <<dupesVars, rows, listingVars>>
  \/ ScpkListDone /\ MoviesStep /\ UNCHANGED <<dupesVars, scpkListVars, listingVars>>
  \/ ScpkListDone /\ MoviesDone /\ ListingStep /\ UNCHANGED <<dupesVars, scpkListVars, rows>>

ReportsNext ==
  \/ (Codec \/ BinStep) /\ UNCHANGED <<scpkVars, reportVars>>
  \/ ScpkStep /\ UNCHANGED <<vars, reportVars>>
  \/ Reported /\ Report /\ UNCHANGED allVars
  \/ ReportsDone

ReportsSpec == ReportsInit /\ [][ReportsNext]_<<allVars, reportVars>>

=============================================================================
