------------------------- MODULE MCStabilizerState -------------------------
(* Two qubits: every tableau that gates, measurements and resets can reach.  The
   configuration leaves Y2P and Y2M out of OneQubitGates: README, Divergences,
   says what the simulator does with them. *)
EXTENDS StabilizerState

=============================================================================
