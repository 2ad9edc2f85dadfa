------------------------------ MODULE MCScreen ------------------------------
(* What changes in one behaviour of the screen. *)
EXTENDS Screen

MCGroups == {{"battery", "ports"}, {"ports", "state"}, {"state", "host"},
             {"host", "detail"}, {"detail", "response"}}

MCDetailGroups == {{"detail", "response"}}

=============================================================================
