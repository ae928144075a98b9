------------------------ MODULE MCAnalyzerInference ------------------------
(* AnalyzerInference for TLC.                                              *)
EXTENDS AnalyzerInference, TLC

Symmetry == Permutations(Handlers) \cup Permutations(Pipelines)
=============================================================================
