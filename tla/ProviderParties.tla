---------------------------- MODULE ProviderParties ----------------------------
(***************************************************************************)
(* Whose accounts at the settlement provider one instruction pays: the      *)
(* registry of verified accounts, their binding to the instruction, the     *)
(* provider's instruction made from them and the promotion that relies on   *)
(* them later (provider_parties.ts, lockSettlement, settlement_http.ts).    *)
(***************************************************************************)
EXTENDS Naturals, Sequences

CONSTANTS
    PartyRole,      \* "BUYER", "SUPPLIER" and "SABLESTONE" in the code
    LastAccount,    \* bound: accounts registered for one role
    Rail,           \* providers in the order routeSettlement prefers them
    Splitting,      \* rails whose split is ordered after the buyer has paid
    Caller,         \* activities that lock the settlement
    Promoter,       \* processes that handle the provider's webhooks
    PartyFaults     \* bound: revocations, expiries, failures, crashes, outages

VARIABLES
    ledger,         \* ledger[r]: the states of r's accounts, oldest first
    open,           \* rails whose capability is AVAILABLE
    rail,           \* the provider of the instruction, "NONE" before it exists
    agreed,         \* both sides accepted the exact instruction
    bound,          \* bound[r]: the account bound to the instruction, 0 for none
    told,           \* told[r]: the account named in the provider's instruction
    acknowledged,   \* settlement_instructions.acknowledged
    paid,           \* the buyer's money is at the provider
    split,          \* the supplier's account that the ordered split pays
    entitled,       \* the entitlement is promoted
    caller, promoter,   \* what a process has resolved and how far it is
    partyFaults

instructionRow == <<rail, agreed, bound, acknowledged>>
atProvider     == <<told, paid, split>>
partyVars      == <<ledger, open, instructionRow, atProvider, entitled, caller, promoter, partyFaults>>

Rails  == {Rail[i] : i \in 1..Len(Rail)}

ASSUME PartyAssumption ==
    /\ "SUPPLIER" \in PartyRole /\ "NONE" \notin Rails
    /\ LastAccount \in Nat /\ PartyFaults \in Nat

Nowhere == [r \in PartyRole |-> 0]
Parties == [PartyRole -> 0..LastAccount]
Free   == [step |-> "NONE", parties |-> Nowhere]

PartyTypeOK ==
    /\ \A r \in PartyRole : ledger[r] \in Seq({"CURRENT", "ENDED"}) /\ Len(ledger[r]) <= LastAccount
    /\ open \subseteq Rails /\ rail \in Rails \cup {"NONE"}
    /\ {bound, told} \subseteq Parties /\ split \in 0..LastAccount
    /\ {agreed, acknowledged, paid, entitled} \subseteq BOOLEAN
    /\ caller \in [Caller -> [step : {"NONE", "BOUND", "CREATED"}, parties : Parties]]
    /\ promoter \in [Promoter -> [step : {"NONE", "RESOLVED", "PROVEN"}, parties : Parties]]
    /\ partyFaults \in 0..PartyFaults

PartyInit ==
    /\ ledger = [r \in PartyRole |-> <<>>] /\ open = Rails
    /\ rail = "NONE" /\ agreed = FALSE /\ bound = Nowhere /\ acknowledged = FALSE
    /\ told = Nowhere /\ paid = FALSE /\ split = 0 /\ entitled = FALSE
    /\ caller = [c \in Caller |-> Free] /\ promoter = [p \in Promoter |-> Free]
    /\ partyFaults = 0

PartyFault == partyFaults < PartyFaults /\ partyFaults' = partyFaults + 1

\* register, for references not known yet; known ones return the row there is,
\* and those of another organisation throw.
RegisterAccount(r) ==
    /\ Len(ledger[r]) < LastAccount /\ ledger' = [ledger EXCEPT ![r] = Append(@, "CURRENT")]
    /\ UNCHANGED <<open, instructionRow, atProvider, entitled, caller, promoter, partyFaults>>

\* revoke, or the end of its verification receipt or of valid_until.
EndAccount(r, n) ==
    /\ n \in DOMAIN ledger[r] /\ ledger[r][n] = "CURRENT" /\ PartyFault
    /\ ledger' = [ledger EXCEPT ![r][n] = "ENDED"]
    /\ UNCHANGED <<open, instructionRow, atProvider, entitled, caller, promoter>>

\* A credential or approval of the rail lapses or is renewed
\* (evaluateProviderCapability).
RailChanges(x) ==
    /\ IF x \in open THEN PartyFault /\ open' = open \ {x}
                     ELSE UNCHANGED partyFaults /\ open' = open \cup {x}
    /\ UNCHANGED <<ledger, instructionRow, atProvider, entitled, caller, promoter>>

\* routeSettlement takes the first rail of the preference that is available.
Preferred(x) == \E i \in 1..Len(Rail) : Rail[i] = x /\ \A j \in 1..i - 1 : Rail[j] \notin open

DraftInstruction ==
    /\ rail = "NONE"
    /\ \E x \in open : Preferred(x) /\ rail' = x
    /\ UNCHANGED <<ledger, open, agreed, bound, acknowledged, atProvider, entitled, caller, promoter, partyFaults>>

Agree ==
    /\ rail # "NONE" /\ ~agreed /\ agreed' = TRUE
    /\ UNCHANGED <<ledger, open, rail, bound, acknowledged, atProvider, entitled, caller, promoter, partyFaults>>

Usable(r, n) == n \in DOMAIN ledger[r] /\ ledger[r][n] = "CURRENT"
Latest(r, n) == Usable(r, n) /\ \A k \in DOMAIN ledger[r] : k > n => ~Usable(r, k)

\* resolveWithClient: the bound account, which must still be current, or else
\* the latest current one.  A bound account that ended is never replaced.
Mapping(parties) ==
    \A r \in PartyRole : IF bound[r] = 0 THEN Latest(r, parties[r])
                         ELSE parties[r] = bound[r] /\ Usable(r, bound[r])

\* resolveAndBind, in lockSettlement.
Bind(c) ==
    /\ caller[c] = Free /\ agreed /\ rail \in open /\ ~acknowledged
    /\ \E parties \in Parties :
         /\ Mapping(parties) /\ bound' = parties
         /\ caller' = [caller EXCEPT ![c] = [step |-> "BOUND", parties |-> parties]]
    /\ UNCHANGED <<ledger, open, rail, agreed, acknowledged, atProvider, entitled, promoter, partyFaults>>

\* createInstruction; the provider keeps what the key settlement:trade named
\* first.
Create(c) ==
    /\ caller[c].step = "BOUND" /\ rail \in open
    /\ told' = IF told = Nowhere THEN caller[c].parties ELSE told
    /\ caller' = [caller EXCEPT ![c].step = "CREATED"]
    /\ UNCHANGED <<ledger, open, instructionRow, paid, split, entitled, promoter, partyFaults>>

\* Guarded by acknowledged = false: a second acknowledgement throws.
Acknowledge(c) ==
    /\ caller[c].step = "CREATED" /\ acknowledged' = TRUE
    /\ caller' = [caller EXCEPT ![c] = Free]
    /\ UNCHANGED <<ledger, open, rail, agreed, bound, atProvider, entitled, promoter, partyFaults>>

CallerFails(c) ==
    /\ caller[c] # Free /\ PartyFault /\ caller' = [caller EXCEPT ![c] = Free]
    /\ UNCHANGED <<ledger, open, instructionRow, atProvider, entitled, promoter>>

RailRefuses(c) ==
    /\ caller[c].step = "BOUND" /\ rail \notin open /\ caller' = [caller EXCEPT ![c] = Free]
    /\ UNCHANGED <<ledger, open, instructionRow, atProvider, entitled, promoter, partyFaults>>

Pay ==
    /\ told # Nowhere /\ ~paid /\ paid' = TRUE
    /\ UNCHANGED <<ledger, open, instructionRow, told, split, entitled, caller, promoter, partyFaults>>

\* The provider's event, whose signature or whose transaction read back from the
\* provider verifyWebhook has checked, names an acknowledged instruction.
Resolve(p) ==
    /\ promoter[p] = Free /\ paid /\ acknowledged /\ ~entitled
    /\ \E parties \in Parties :
         /\ Mapping(parties) /\ bound' = parties
         /\ promoter' = [promoter EXCEPT ![p] = [step |-> "RESOLVED", parties |-> parties]]
    /\ UNCHANGED <<ledger, open, rail, agreed, acknowledged, atProvider, entitled, caller, partyFaults>>

\* A splitting rail is told now whom to pay, once for its idempotency key, and
\* its answer is compared; the other rails' event must name the parties.
Prove(p) ==
    /\ promoter[p].step = "RESOLVED"
    /\ IF rail \in Splitting
       THEN /\ rail \in open
            /\ split' = IF split = 0 THEN promoter[p].parties["SUPPLIER"] ELSE split
            /\ split' = promoter[p].parties["SUPPLIER"]
       ELSE told = promoter[p].parties /\ UNCHANGED split
    /\ promoter' = [promoter EXCEPT ![p].step = "PROVEN"]
    /\ UNCHANGED <<ledger, open, instructionRow, told, paid, entitled, caller, partyFaults>>

\* Mutant: the accounts are not looked at again.
StillBoundTrusted(parties) == parties = bound

\* resolveBoundCurrent and sameProviderPartyMappings, inside the transaction.
StillBound(parties) == parties = bound /\ Mapping(bound)

Promote(p) ==
    /\ promoter[p].step = "PROVEN" /\ StillBound(promoter[p].parties) /\ rail \in open
    /\ entitled' = TRUE /\ promoter' = [promoter EXCEPT ![p] = Free]
    /\ UNCHANGED <<ledger, open, instructionRow, atProvider, caller, partyFaults>>

\* The event fails and is handled again; nothing that it stored remains.
PromoterFails(p) ==
    /\ promoter[p] # Free
    /\ \/ PartyFault
       \/ /\ UNCHANGED partyFaults
          /\ rail \notin open \/ ~StillBound(promoter[p].parties)
    /\ promoter' = [promoter EXCEPT ![p] = Free]
    /\ UNCHANGED <<ledger, open, instructionRow, atProvider, entitled, caller>>

CallerStep(c) == Create(c) \/ Acknowledge(c) \/ RailRefuses(c)
PromoterStep(p) == Prove(p) \/ Promote(p) \/ PromoterFails(p)

PartyNext ==
    \/ DraftInstruction \/ Agree \/ Pay
    \/ \E r \in PartyRole : RegisterAccount(r) \/ \E n \in 1..LastAccount : EndAccount(r, n)
    \/ \E x \in Rails : RailChanges(x)
    \/ \E c \in Caller : Bind(c) \/ CallerStep(c) \/ CallerFails(c)
    \/ \E p \in Promoter : Resolve(p) \/ PromoterStep(p)

PartySpec == PartyInit /\ [][PartyNext]_partyVars
-----------------------------------------------------------------------------
PaysTheBound == IF rail \in Splitting THEN split = bound["SUPPLIER"] ELSE told = bound

\* An entitlement is promoted only while every account that the provider pays
\* is verified and not revoked, and is the one bound to the instruction, however
\* registrations, revocations, retries and webhooks interleave
\* (provider_parties.ts:305-323, inbox_processors.ts:1009-1016).
EntitledAreTheBound ==
    [][entitled' /\ ~entitled =>
         PaysTheBound /\ \A r \in PartyRole : Usable(r, bound[r])]_partyVars
===============================================================================
