----------------------------- MODULE Compliance -----------------------------
(***************************************************************************)
(* fracks-compliance and the eight rule modules behind it, for one mint.    *)
(* The router keeps the set of bound modules; each stateful module keeps    *)
(* its counters in accounts of its own.  EvaluateCompliance is the check    *)
(* the token program makes before it approves a movement; Transferred,      *)
(* Created and Destroyed are the updates the router forwards to the bound   *)
(* modules.  The token program and the hook call them after a movement, and *)
(* as they ask for no signature anybody else may call them with any         *)
(* arguments (CallRouter).  A failed requirement aborts the transaction, so *)
(* it is a conjunct of the action that makes the call.                      *)
(*                                                                          *)
(* A module is a PDA of (module program, mint): there is one per kind, and  *)
(* the kind stands for it.  "Unknown" is any other public key the owner     *)
(* binds.  The order of the bound modules decides which error is reported   *)
(* and nothing else.  Every module's hook_authority is the router, as it    *)
(* must be before the router can update the module.                         *)
(***************************************************************************)
EXTENDS Parties

CONSTANTS
    ModuleAccounts,     \* the modules initialised for this mint
    max_investors,      \* parameters fixed by each module's initialize_module
    max_balance,
    max_amount,
    lockup_end,
    daily_limit,
    allowed_countries,
    country_caps,       \* country -> cap, for the countries that have one
    SupplyCaps,         \* max_supply values passed to the supply cap module
    DaySeconds,         \* 86400
    MaxNow              \* bound on the clock

ModuleKinds == {"MaxInvestors", "CountryRestrict", "MaxBalance", "MaxTransfer",
                "Lockup", "DailyLimit", "SupplyCap", "CountryCap", "Unknown"}

ASSUME ComplianceAssumption ==
    /\ ModuleAccounts \subseteq ModuleKinds
    /\ max_investors \in Nat /\ max_balance \in Nat /\ max_amount \in Nat
    /\ daily_limit \in Nat /\ lockup_end \in Int
    /\ allowed_countries \subseteq Countries
    /\ DOMAIN country_caps \subseteq Countries
    /\ SupplyCaps \subseteq 0..MaxU64
    /\ DaySeconds \in Nat \ {0}
    /\ MaxNow \in Nat \ {0}

VARIABLES
    now,             \* Clock::get().unix_timestamp
    modules,         \* ComplianceState.modules
    modules_paused,  \* ComplianceState.modules_paused
    holder_count,    \* MaxInvestorsModule.holder_count
    total_supply,    \* SupplyCapModule.total_supply
    max_supply,      \* SupplyCapModule.max_supply
    country_count,   \* country -> CountryInvestorCount.count, or NoCount
    usage,           \* wallet -> DailyWalletUsage, or NoUsage
    misled,          \* history: modules that were not told of a movement, or
                     \* were told of one that did not take place
    waived           \* history: modules whose rule was not applied to one

counters == <<holder_count, total_supply, country_count, usage>>
router == <<modules, modules_paused, max_supply>>
complianceVars == <<now, modules, modules_paused, holder_count, total_supply,
                    max_supply, country_count, usage, misled, waived>>

NoCount == -1
NoUsage == [window |-> -1, volume |-> 0]

(* The factory binds the modules the issuer selected; others may have state  *)
(* accounts already and be bound later.                                      *)
ComplianceInit ==
    /\ now = 1
    /\ modules \in SUBSET (ModuleAccounts \ {"Unknown"})
    /\ modules_paused = FALSE
    /\ holder_count = 0
    /\ total_supply = 0
    /\ max_supply \in SupplyCaps
    /\ country_count = [c \in Countries |-> NoCount]
    /\ usage = [w \in Wallets |-> NoUsage]
    /\ misled = {}
    /\ waived = {}

(* The modules whose rules apply now. *)
InForce == IF modules_paused THEN {} ELSE modules

-----------------------------------------------------------------------------
(* Reads.  A support account that does not exist reads as zero, and so does  *)
(* one that the caller of the instruction leaves out: `passed` is the set of *)
(* the optional accounts it names.                                           *)
SupportAccounts == {"daily_usage", "country_count"}

CountOf(country) == IF country_count[country] = NoCount THEN 0 ELSE country_count[country]
CountRead(country, passed) == IF "country_count" \in passed THEN CountOf(country) ELSE 0

WindowOverAtMidnight(wallet) ==               \* mutant: calendar days
    now \div DaySeconds # usage[wallet].window \div DaySeconds
WindowOver(wallet) == now - usage[wallet].window >= DaySeconds
DailyUsed(wallet, passed) ==
    IF "daily_usage" \notin passed \/ usage[wallet] = NoUsage \/ WindowOver(wallet)
    THEN 0 ELSE usage[wallet].volume

(* evaluate_compliance.  is_mint stands for from == Pubkey::default(). *)
EvaluateCompliance(is_mint, from, amount, to_balance, from_country, to_country, passed) ==
    LET entering == to_balance = 0 /\ amount > 0 IN
    /\ to_balance <= MaxU64 - amount
    /\ "MaxInvestors" \in InForce => ~(entering /\ holder_count >= max_investors)
    /\ "CountryRestrict" \in InForce =>
         /\ is_mint \/ from_country \in allowed_countries
         /\ to_country \in allowed_countries
    /\ "MaxBalance" \in InForce => to_balance + amount <= max_balance
    /\ "MaxTransfer" \in InForce => amount <= max_amount
    /\ "Lockup" \in InForce => now >= lockup_end
    /\ "DailyLimit" \in InForce => is_mint \/ DailyUsed(from, passed) + amount <= daily_limit
    /\ "CountryCap" \in InForce =>
         (entering /\ to_country \in DOMAIN country_caps
            => CountRead(to_country, passed) < country_caps[to_country])
    /\ "Unknown" \notin InForce

-----------------------------------------------------------------------------
(* Updates the router forwards.  A holder leaves when the balance after is   *)
(* zero and enters when the balance after is the amount itself.              *)
Exits(amount, balance_after) == amount > 0 /\ balance_after = 0
EntersWhenHolding(amount, balance_after) ==   \* mutant: any holder enters
    amount > 0 /\ balance_after >= amount
Enters(amount, balance_after) == amount > 0 /\ balance_after = amount

One(b) == IF b THEN 1 ELSE 0

CountHoldersUnchecked(told, exits, enters) == \* mutant: plain subtraction
    holder_count' = holder_count + (IF "MaxInvestors" \in told
                                    THEN One(enters) - One(exits) ELSE 0)

(* mod-max-investors: transferred, created, destroyed *)
CountHolders(told, exits, enters) ==
    IF "MaxInvestors" \in told
    THEN /\ exits => holder_count > 0
         /\ holder_count - One(exits) + One(enters) <= MaxU64
         /\ holder_count' = holder_count - One(exits) + One(enters)
    ELSE holder_count' = holder_count

CountCountriesAbroad(told, exits, enters, from_country, to_country) == \* mutant: same country returns early
    country_count' = [c \in Countries |->
        IF "CountryCap" \notin told \/ from_country = to_country THEN country_count[c]
        ELSE country_count[c] - One(exits /\ c = from_country) + One(enters /\ c = to_country)]

(* mod-country-cap: transferred, created, destroyed.  The count accounts of  *)
(* both countries must exist; leaving and entering the same country cancel.  *)
CountCountries(told, exits, enters, from_country, to_country) ==
    IF "CountryCap" \in told
    THEN /\ NoCount \notin {country_count[from_country], country_count[to_country]}
         /\ exits /\ ~(enters /\ from_country = to_country)
              => country_count[from_country] > 0
         /\ country_count' =
              [c \in Countries |-> country_count[c] - One(exits /\ c = from_country)
                                                    + One(enters /\ c = to_country)]
         /\ country_count'[to_country] <= MaxU64
    ELSE country_count' = country_count

(* mod-daily-limit: transferred *)
CountUsage(told, from, amount) ==
    IF "DailyLimit" \in told
    THEN LET fresh == usage[from].window = 0 \/ WindowOver(from)
             volume == (IF fresh THEN 0 ELSE usage[from].volume) + amount
             window == IF fresh THEN now ELSE usage[from].window IN
         /\ usage[from] # NoUsage
         /\ volume <= MaxU64
         /\ usage' = [usage EXCEPT ![from] = [window |-> window, volume |-> volume]]
    ELSE usage' = usage

Transferred(from, amount, from_after, to_after, from_country, to_country) ==
    LET exits == Exits(amount, from_after)
        enters == Enters(amount, to_after) IN
    /\ CountHolders(modules, exits, enters)
    /\ CountCountries(modules, exits, enters, from_country, to_country)
    /\ CountUsage(modules, from, amount)
    /\ UNCHANGED <<total_supply, now, router>>

AddSupplyUncapped(told, amount) ==            \* mutant: no cap check
    total_supply' = total_supply + (IF "SupplyCap" \in told THEN amount ELSE 0)

(* mod-supply-cap: created *)
AddSupply(told, amount) ==
    IF "SupplyCap" \in told
    THEN /\ total_supply + amount <= max_supply
         /\ total_supply' = total_supply + amount
    ELSE total_supply' = total_supply

(* Created repeats the four stateless rules and returns early when paused. *)
Created(amount, to_after, to_country) ==
    LET enters == Enters(amount, to_after) IN
    /\ "CountryRestrict" \in InForce => to_country \in allowed_countries
    /\ "MaxBalance" \in InForce => to_after <= max_balance
    /\ "MaxTransfer" \in InForce => amount <= max_amount
    /\ "Lockup" \in InForce => now >= lockup_end
    /\ CountHolders(InForce, FALSE, enters)
    /\ AddSupply(InForce, amount)
    /\ CountCountries(InForce, FALSE, enters, to_country, to_country)
    /\ UNCHANGED <<usage, now, router>>

(* mod-supply-cap: destroyed *)
SubtractSupply(told, amount) ==
    IF "SupplyCap" \in told
    THEN /\ total_supply >= amount
         /\ total_supply' = total_supply - amount
    ELSE total_supply' = total_supply

(* Destroyed is forwarded even when the modules are paused. *)
Destroyed(amount, from_after, from_country) ==
    LET exits == Exits(amount, from_after) IN
    /\ CountHolders(modules, exits, FALSE)
    /\ SubtractSupply(modules, amount)
    /\ CountCountries(modules, exits, FALSE, from_country, from_country)
    /\ UNCHANGED <<usage, now, router>>

(* What happened to the modules' knowledge (history): a movement was reported *)
(* to the modules told, or they were told of one that did not take place.     *)
Reported(told) == misled' = misled \cup (ModuleKinds \ told)
Invented(told) == misled' = misled \cup told

(* transferred, created and destroyed called by somebody else.  ReadCompliance *)
(* has no signer, and the router signs for the modules whoever calls.          *)
CallRouter(wallet, amount, from_after, to_after, from_country, to_country) ==
    /\ \/ /\ Transferred(wallet, amount, from_after, to_after, from_country, to_country)
          /\ Invented(modules)
       \/ Created(amount, to_after, to_country) /\ Invented(InForce)
       \/ Destroyed(amount, from_after, from_country) /\ Invented(modules)
    /\ UNCHANGED waived

-----------------------------------------------------------------------------
(* Instructions of the router's owner and of the modules. *)
BindModule(m) ==
    /\ m \notin modules
    /\ modules' = modules \cup {m}
    /\ UNCHANGED <<now, modules_paused, max_supply, counters, misled, waived>>

UnbindModule(m) ==
    /\ m \in modules
    /\ modules' = modules \ {m}
    /\ UNCHANGED <<now, modules_paused, max_supply, counters, misled, waived>>

SetModulesPaused(value) ==
    /\ modules_paused' = value
    /\ UNCHANGED <<now, modules, max_supply, counters, misled, waived>>

SetMaxSupply(value) ==
    /\ "SupplyCap" \in ModuleAccounts
    /\ value >= total_supply
    /\ max_supply' = value
    /\ UNCHANGED <<now, modules, modules_paused, counters, misled, waived>>

InitializeWalletUsage(wallet) ==
    /\ "DailyLimit" \in ModuleAccounts
    /\ usage[wallet] = NoUsage
    /\ usage' = [usage EXCEPT ![wallet] = [window |-> 0, volume |-> 0]]
    /\ UNCHANGED <<now, router, holder_count, total_supply, country_count, misled, waived>>

InitializeCountryCount(country) ==
    /\ "CountryCap" \in ModuleAccounts
    /\ country_count[country] = NoCount
    /\ country_count' = [country_count EXCEPT ![country] = 0]
    /\ UNCHANGED <<now, router, holder_count, total_supply, usage, misled, waived>>

(* The cluster's clock. *)
Tick ==
    /\ now < MaxNow
    /\ now' = now + 1
    /\ UNCHANGED <<router, counters, misled, waived>>

ComplianceNext ==
    \/ \E m \in ModuleAccounts : BindModule(m) \/ UnbindModule(m)
    \/ \E b \in BOOLEAN : SetModulesPaused(b)
    \/ \E n \in SupplyCaps : SetMaxSupply(n)
    \/ \E w \in Wallets : InitializeWalletUsage(w)
    \/ \E c \in Countries : InitializeCountryCount(c)
    \/ Tick
    \/ \E w \in Wallets, n, from_after, to_after \in 0..MaxU64, c, d \in Countries :
         CallRouter(w, n, from_after, to_after, c, d)

-----------------------------------------------------------------------------
(* The accounts of the router and the modules hold values of their types. *)
ComplianceTypeOK ==
    /\ now \in 1..MaxNow
    /\ modules \subseteq ModuleAccounts
    /\ modules_paused \in BOOLEAN
    /\ holder_count \in Nat
    /\ total_supply \in Nat
    /\ max_supply \in SupplyCaps
    /\ country_count \in [Countries -> Nat \cup {NoCount}]
    /\ usage \in [Wallets -> [window : Int, volume : Nat]]
    /\ misled \subseteq ModuleKinds
    /\ waived \subseteq ModuleKinds
=============================================================================
