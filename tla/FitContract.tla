---------------------------- MODULE FitContract ----------------------------
(***************************************************************************)
(* What one ellipsoid fit promises to its caller, whatever the data: it    *)
(* may not answer at all, and if it does the answer is one of Answers.     *)
(***************************************************************************)
EXTENDS FitCodes

VARIABLE answer

ContractInit == answer = NoAnswer
Ask  == answer' = NoAnswer
Reply == answer = NoAnswer /\ answer' \in Answers
ContractNext == Ask \/ Reply
ContractSpec == ContractInit /\ [][ContractNext]_answer
=============================================================================
