----------------------------- MODULE MCVerified -----------------------------
(* Two turns, two acceptable hook configurations and one that is not, and   *)
(* one kind of disturbance, or two that meet, in each behaviour.            *)
EXTENDS VerifiedSuccess

ThreeConfigs == {1, 2, 3}
TwoConfigs == {1, 2}
ManyWays ==
    { {"agent_only"}, {"cancel"}, {"session_end"}, {"interrupt", "server_exits"}, {"continue"}, {"expires"},
      {"others"}, {"reconfigured"}, {"hook_crash", "stranger"}, {"restart"}, {"event_loss"},
      {"gate_refuses", "launch_fails"} }
=============================================================================
