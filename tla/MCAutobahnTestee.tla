-------------------------- MODULE MCAutobahnTestee --------------------------
(***************************************************************************)
(* Small instances of AutobahnTestee for TLC. The accumulator holds three  *)
(* bytes and the client reads at most two at a time, so a frame of two or  *)
(* three bytes may arrive in several chunks and a frame of four bytes does *)
(* not fit (the ratio of BUFFER_SIZE 16384 to MAX_FRAGMENTED_PAYLOAD 65537 *)
(* in the code is about the same). Two connection attempts per client let  *)
(* a client reconnect after a disconnect inside one case; two cases share  *)
(* the global accumulator.                                                 *)
(***************************************************************************)
EXTENDS AutobahnTestee

MCMaxFrag   == 3
MCBufSize   == 2
MCMaxLen    == 4
MCMaxFrames == 3
MCMaxConns  == 2
MCNumCases  == 2
\* The runs that let malloc fail explore a second frame less.
MCMaxFramesFew == 2

=============================================================================
