---------------------------- MODULE ReassemblyMC ----------------------------
(* Reassembly on small instances.                                             *)
EXTENDS Reassembly

Call(block, check, next, ops, lens, variants, limit) ==
    [block |-> block, check |-> check, next |-> next, fallback |-> FALSE, ops |-> ops,
     short |-> FALSE, lens |-> lens, variants |-> variants, limit |-> limit]

\* The same calls where frames may be short.
Short(call) == [call EXCEPT !.short = TRUE]

\* By offset: fragments alone, with extensions, truncations and contradictions,
\* moved when complete, late, and without offsets; by block number the same.
MCCalls ==
    {Call(FALSE, FALSE, FALSE, {}, 0 .. 3, {1}, 4),
     Call(FALSE, FALSE, FALSE, {"partial"}, 0 .. 3, {1, 2}, 3),
     Short(Call(FALSE, FALSE, FALSE, {"set_tot_len", "reset_tot_len", "truncate", "delete"}, 1 .. 3, {1, 2}, 2)),
     Call(FALSE, FALSE, FALSE, {"partial", "reset_tot_len", "truncate"}, 1 .. 2, {1}, 3),
     Short(Call(FALSE, TRUE, FALSE, {"set_tot_len"}, 1 .. 2, {1}, 3)),
     [Short(Call(FALSE, TRUE, FALSE, {}, 1 .. 2, {1, 2}, 3)) EXCEPT !.fallback = TRUE],
     Call(FALSE, TRUE, TRUE, {}, 0 .. 2, {1}, 4),
     Short(Call(TRUE, FALSE, FALSE, {"partial"}, 0 .. 1, {1, 2}, 3)),
     Short(Call(TRUE, FALSE, FALSE, {"set_tot_len", "reset_tot_len", "partial"}, {1}, {1}, 3)),
     Short(Call(TRUE, TRUE, FALSE, {"start", "set_tot_len", "end"}, 1 .. 2, {1}, 3)),
     Short(Call(TRUE, TRUE, TRUE, {"start", "end"}, 0 .. 1, {1}, 4))}
=============================================================================
