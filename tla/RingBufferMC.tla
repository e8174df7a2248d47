---------------------------- MODULE RingBufferMC ----------------------------
(* RingBuffer on a small instance: RINGBUFFER_MAX_NUM_FILES is 3, so that the *)
(* numbers in file names wrap around within the bound on curr_file_num.       *)
EXTENDS RingBuffer

\* No files: criterion, a ring of one, of two, of the maximum and above it.
MCRequests == {0, 1, 2, 3, 5}
\* Two stamps: the clock may stand still, advance or be set back.
MCTimes == {10, 11}
MCAllFaults == FaultKinds
=============================================================================
