------------------------------ MODULE Settings ------------------------------
(***************************************************************************)
(* The settings of libs/config/settings.py: which combinations load, and   *)
(* what the loaded ones permit.  No state: load_settings() is a predicate  *)
(* on what the environment holds, and the properties of Settings are       *)
(* operators on it.                                                        *)
(*                                                                         *)
(* A key is told apart by what the validators look at: the 0x prefix, the  *)
(* number of characters after it, and whether all of them are hexadecimal. *)
(* Case, blanks and the wording of a refusal are left out.                 *)
(***************************************************************************)
EXTENDS Naturals, Sequences

CONSTANTS
    PERMITTED_ENVIRONMENTS, \* what Build 0.1 may run in
    SUPPORTED_ASSETS,       \* what the architecture supports
    PrivateKeyHexLength,    \* PRIVATE_KEY_HEX_LENGTH
    None                    \* Python's None

ExecutionEnvironments ==
    {"DEVELOPMENT", "TESTNET", "PAPER", "SHADOW", "LIMITED_LIVE", "PRODUCTION"}
LogLevels == {"DEBUG", "INFO", "WARNING", "ERROR", "CRITICAL"}

(* VENUE_ENDPOINTS: derived, never configured.  Where market data is read  *)
(* from depends on a setting that no guard looks at, and is left out.      *)
VenueEndpoint(environment) ==
    CASE environment = "TESTNET" -> "testnet"
      [] environment \in {"LIMITED_LIVE", "PRODUCTION"} -> "mainnet"
      [] OTHER -> None

ReachesRealCapital(environment) == environment \in {"LIMITED_LIVE", "PRODUCTION"}

(* bool() of the setting, and of what is left without the prefix.          *)
KeyGiven(key) == key.prefixed \/ key.length > 0
KeyLeft(key) == key.length > 0

----------------------------------------------------------------------------
(* The two accepted forms of the list: the JSON one keeps empty names, the *)
(* comma-separated one drops them.                                         *)
CoercedAllowlist(given) ==
    IF given.json THEN given.names ELSE SelectSeq(given.names, LAMBDA name : name # "")

AllowlistPermitted(given) ==
    LET names == CoercedAllowlist(given)
    IN  names # <<>> /\ \A i \in DOMAIN names : names[i] \in SUPPORTED_ASSETS

(* _check_no_production_credential_in_development()                        *)
KeyPermitted(s) ==
    KeyLeft(s.key) =>
        /\ s.execution # "DEVELOPMENT"
        /\ s.key.length = PrivateKeyHexLength
        /\ s.key.hex

(* load_settings(): every validator passes, or startup is refused.         *)
Loads(s) ==
    /\ s.stalenessLimit > 0
    /\ AllowlistPermitted(s.allowlist)
    /\ s.logLevel \in LogLevels
    /\ s.execution \in PERMITTED_ENVIRONMENTS
    /\ KeyPermitted(s)

(* may_submit_orders                                                       *)
MaySubmitOrders(s) ==
    /\ VenueEndpoint(s.execution) # None
    /\ KeyGiven(s.key)
    /\ s.trading

(* market_data_is_read_only                                                *)
MarketDataIsReadOnly(s) == ~ ReachesRealCapital(s.execution) /\ ~ MaySubmitOrders(s)

----------------------------------------------------------------------------
(* What the guards are for, stated without them: an order could be signed  *)
(* and sent, and a key that must not be there is there.                    *)
CouldMoveCapital(s) ==
    /\ VenueEndpoint(s.execution) # None
    /\ s.trading
    /\ s.key.length = PrivateKeyHexLength
    /\ s.key.hex

MisplacedKey(s) == s.execution = "DEVELOPMENT" /\ s.key.length > 0
=============================================================================
