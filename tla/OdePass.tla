------------------------------ MODULE OdePass ------------------------------
(***************************************************************************)
(* One ODE layer at one position: forward through the RK4 steps with the   *)
(* cache, then backward through them from the gradient of the output, in   *)
(* the two integrations the tiers choose between (ode_backward.rs,         *)
(* ode_split_band.rs).  One action is one step of the loop.                *)
(*                                                                         *)
(* odeJob  [kind |-> "rk4" | "split", n, chi, steps, seed]: which inputs   *)
(* w    the weights; z the state, at the states at the start of each step, *)
(*      ks the slopes kept per step, ns the frozen neighbour sums          *)
(* dz   gradient of the state, acc of the parameters, dNs of the sums      *)
(***************************************************************************)
EXTENDS SplitBand

CONSTANT Jobs

ASSUME OdePassAssumption == \A j \in Jobs : j.n \in Nat /\ j.steps \in Nat /\ j.seed \in Nat

VARIABLES odeJob, stage, w, gamma, z, at, ks, ns, dz, acc, dNs

odeVars == <<odeJob, stage, w, gamma, z, at, ks, ns, dz, acc, dNs>>

Input     == Row(odeJob.n, odeJob.seed, 10)
OutGrad   == Row(odeJob.n, odeJob.seed, 11)
Split     == odeJob.kind = "split"
dt        == StepOf(w)

OdeInit ==
  /\ odeJob \in Jobs
  /\ odeJob.kind = "split" => ~odeJob.chi     \* the split-band code asserts chi == 0
  /\ stage = "forward"
  /\ w = Weights(odeJob.n, odeJob.seed, odeJob.chi, odeJob.steps)
  /\ gamma = Gamma(w)
  /\ z = Row(odeJob.n, odeJob.seed, 10)
  /\ at = <<>> /\ ks = <<>> /\ ns = <<>>
  /\ dz = <<>> /\ acc = NoGrads(odeJob.n) /\ dNs = <<>>

Stepping == stage = "forward" /\ Len(at) < w.steps

Rk4Forward ==
  /\ Stepping /\ ~Split
  /\ at' = Append(at, z)
  /\ ks' = Append(ks, Stages(odeJob.n, w, gamma, dt, z))
  /\ z' = Rk4Step(w, dt, z, ks'[Len(ks')])
  /\ UNCHANGED <<odeJob, stage, w, gamma, ns, dz, acc, dNs>>

(* The sums are frozen before the first step and again before step A + 1.  *)
SplitForward ==
  /\ Stepping /\ Split
  /\ LET frozen == IF Len(at) \in {0, StepsA(w)} THEN Freeze(odeJob.n, z) ELSE ns[Len(ns)]
     IN  /\ ns' = Append(ns, frozen)
         /\ z' = [k \in 0 .. odeJob.n - 1 |-> Rk4StepBand(w, gamma, dt, k, ns'[Len(ns')][k], z[k])]
  /\ at' = Append(at, z)
  /\ UNCHANGED <<odeJob, stage, w, gamma, ks, dz, acc, dNs>>

(* The loss's gradient arrives; the row the forward pass left stays in z.  *)
StartBackward ==
  /\ stage = "forward" /\ Len(at) = w.steps
  /\ stage' = "backward"
  /\ dz' = OutGrad
  /\ dNs' = Vec(odeJob.n, Zero)
  /\ UNCHANGED <<odeJob, w, gamma, z, at, ks, ns, acc>>

Rk4Backward ==
  /\ stage = "backward" /\ ~Split /\ at # <<>>
  /\ LET s == Len(at)
     IN  /\ \E b \in {StepBackward(odeJob.n, w, gamma, dt, at[s], ks[s], dz, acc)} :
              dz' = b.d /\ acc' = b.acc
         /\ at' = SubSeq(at, 1, s - 1)
         /\ ks' = SubSeq(ks, 1, s - 1)
  /\ UNCHANGED <<odeJob, stage, w, gamma, z, ns, dNs>>

SplitBackward ==
  /\ stage = "backward" /\ Split /\ at # <<>>
  /\ LET s == Len(at)
     IN  /\ \E b \in {SplitStepBackward(w, gamma, at[s], ns[s], s, [d |-> dz, dNs |-> dNs, acc |-> acc])} :
              dz' = b.d /\ dNs' = b.dNs /\ acc' = b.acc
         /\ at' = SubSeq(at, 1, s - 1)
  /\ UNCHANGED <<odeJob, stage, w, gamma, z, ks, ns>>

Finish ==
  /\ stage = "backward" /\ at = <<>>
  /\ stage' = "done"
  /\ acc' = ToRaw(w, acc)
  /\ UNCHANGED <<odeJob, w, gamma, z, at, ks, ns, dz, dNs>>

OdeNext == Rk4Forward \/ SplitForward \/ StartBackward \/ Rk4Backward \/ SplitBackward \/ Finish

OdeSpec == OdeInit /\ [][OdeNext]_odeVars

-----------------------------------------------------------------------------
(* The reverse pass computes the derivative of the loss along any          *)
(* direction of the input, gamma, alpha, beta, chi and the RK4 weights: a  *)
(* term of the Jacobian with a wrong sign, neighbour or step, or a cached  *)
(* state of the wrong step, changes the number.                            *)
OdeGradientExact ==
  stage = "done" => (ZPair(odeJob.n, dz, Input) + ParamPair(odeJob.n, acc, w)) % P
                   = ZPair(odeJob.n, OutGrad, z)

(* What four-wave mixing feeds one band it takes from others: it changes   *)
(* the phase of the row's energy flow but never the energy itself, at any  *)
(* state an integration passes through.                                    *)
MixingConservesEnergy ==
  Mixes(odeJob.n, w) =>
    LET m == Mixing(odeJob.n, w.chi, z)
    IN  SumTo(odeJob.n, [k \in 0 .. odeJob.n - 1 |-> CDot(z[k], m[k])]) = Zero
=============================================================================
