----------------------------- MODULE EscrowExit -----------------------------
(***************************************************************************)
(* The owner of an escrow decides to leave.  From then on he only takes    *)
(* the steps that lead out - unpause once the cooldown allows it, revoke   *)
(* what is delegated, withdraw, close - while the authorities and everyone *)
(* else who can send tokens go on as before.                               *)
(***************************************************************************)
EXTENDS Escrow

CONSTANT Horizon \* bound: the owner takes no new business after this time

ASSUME HorizonAssumption ==
  Horizon \in Nat /\ Horizon + UnpauseCooldown <= MaxTime

VARIABLES leaving, \* the owner has decided to leave
          wallet   \* tokens in the owner's own token account

exitVars == <<vars, leaving, wallet>>

ExitInit == Init /\ leaving = FALSE /\ wallet \in 0..Supply

(* Leaving makes sense only while the owner's withdrawals of all the       *)
(* tokens there are would not overflow total_withdrawn.                    *)
Decide ==
  /\ ~leaving /\ exists /\ now <= Horizon
  /\ total["withdrawn"] + Supply <= MaxU64
  /\ leaving' = TRUE
  /\ UNCHANGED <<vars, wallet>>

(* What the owner deposits comes from his wallet, what he withdraws goes   *)
(* there.                                                                  *)
WalletPays == wallet' = wallet + balance - balance' /\ wallet' >= 0

Business ==
  /\ ~leaving /\ now <= Horizon
  /\ Owner
  /\ WalletPays
  /\ UNCHANGED leaving

ExitStep(A) == leaving /\ A /\ WalletPays /\ UNCHANGED leaving

ExitUnpause == ExitStep(paused /\ UnpauseEscrow)
ExitRevoke(r) == ExitStep(active[r] /\ RevokeAuthority(r))
ExitWithdraw == ExitStep(WithdrawToken(balance))

ExitClose ==
  /\ leaving
  /\ CloseEscrow
  /\ leaving' = FALSE
  /\ UNCHANGED wallet

(* Nobody else can send tokens that are in the owner's wallet.             *)
OthersGoOn ==
  /\ Others
  /\ balance' + wallet <= Supply
  /\ UNCHANGED <<leaving, wallet>>

ClockTicks == Tick /\ UNCHANGED <<leaving, wallet>>

ExitNext ==
  \/ Decide \/ Business
  \/ ExitUnpause \/ ExitWithdraw \/ ExitClose
  \/ \E r \in Role : ExitRevoke(r)
  \/ OthersGoOn \/ ClockTicks

(* Time passes, and an owner who is leaving takes each step that stays     *)
(* possible.  Nothing is asked of the authorities or of third parties.     *)
ExitSpec ==
  /\ ExitInit /\ [][ExitNext]_exitVars
  /\ WF_exitVars(ClockTicks)
  /\ WF_exitVars(ExitUnpause)
  /\ \A r \in Role : WF_exitVars(ExitRevoke(r))
  /\ WF_exitVars(ExitWithdraw)
  /\ WF_exitVars(ExitClose)
-----------------------------------------------------------------------------
(* An owner who decides to leave gets out: no pause, delegation, expiry,   *)
(* dust or stream of incoming transfers can hold the escrow open for ever. *)
OwnerGetsOut == leaving ~> ~exists
=============================================================================
