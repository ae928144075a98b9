------------------------ MODULE MCAnalyzerPipeline ------------------------
(* AnalyzerPipeline for TLC: handler threads and pipeline objects are      *)
(* interchangeable model values.                                           *)
EXTENDS AnalyzerPipeline, TLC

Symmetry == Permutations(Handlers) \cup Permutations(Pipelines)
=============================================================================
