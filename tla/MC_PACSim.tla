----------------------------- MODULE MC_PACSim -----------------------------
(* Instantiation of PACSim for TLC: pipelines of length 3 over a small     *)
(* version grid, and workloads chosen so that hits, evictions, major-only  *)
(* and minor-only version moves all occur.                                 *)
EXTENDS PACSim, TLC

\* A pipeline of length 3 from its three versions.
Pipe(a, b, c) == (0 :> a) @@ (1 :> b) @@ (2 :> c)

\* Versions on a 2 x 2 grid: repeats, a minor move at position 0, major
\* moves at positions 1 and 2.
MCInputs ==
    { Pipe(<<0, 0>>, <<0, 0>>, <<0, 0>>),
      Pipe(<<0, 1>>, <<0, 0>>, <<1, 0>>),
      Pipe(<<1, 1>>, <<0, 1>>, <<0, 0>>),
      Pipe(<<0, 0>>, <<1, 1>>, <<0, 1>>) }

\* Versions on a 1 x 3 grid: the last position moves along the minor axis.
MCInputsMinor ==
    { Pipe(<<0, 0>>, <<0, 0>>, <<0, 1>>),
      Pipe(<<0, 0>>, <<0, 0>>, <<0, 2>>),
      Pipe(<<0, 0>>, <<0, 1>>, <<0, 0>>) }
=============================================================================
