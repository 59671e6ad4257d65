------------------------------- MODULE MCJPath -------------------------------
(* All texts up to MaxText characters.                                       *)
EXTENDS JPath, SequencesExt

CONSTANT MaxText

MCTexts == BoundedSeq(Chars, MaxText)
=============================================================================
