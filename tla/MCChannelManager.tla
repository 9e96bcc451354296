-------------------------- MODULE MCChannelManager --------------------------
(* Small instances of ChannelManager for TLC.                              *)
EXTENDS ChannelManager, TLC

\* Clients are interchangeable: no operator names one of them.
ClientSymmetry == Permutations(Client)
=============================================================================
