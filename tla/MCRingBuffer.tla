---------------------------- MODULE MCRingBuffer ----------------------------
(* Instances of RingBuffer for TLC.                                        *)
EXTENDS RingBuffer

CONSTANTS hdr1, hdr2

=============================================================================
