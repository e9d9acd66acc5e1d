----------------------------- MODULE Deployment -----------------------------
(***************************************************************************)
(* What a node may be configured as: CordonConfig with its defaults and    *)
(* its validation (config.rs), the keys and the runtime a node is built    *)
(* with (node.rs, runtime/mod.rs), the transport it is served over         *)
(* (cordon-cli main.rs, server.rs), and the two ways a configuration is    *)
(* prepared: the templates the command line prints and the plan the        *)
(* desktop app makes from its settings (engine.rs, posture.rs,             *)
(* settings.rs).  Functions only: the module has no state.                 *)
(*                                                                         *)
(* A path or a pinned value is whether it is there; an address is whether  *)
(* it is on this host; the numbers and identifiers that are only checked   *)
(* for being in range are the one flag sane.                               *)
(***************************************************************************)
EXTENDS FiniteSets, Naturals

Modes == {"light", "sovereign_cloud", "vault", "island", "dark"}
Sources == {"software", "tpm2", "sev_snp", "nitro_enclave"}
Pins == {"pcr_values", "mrenclave", "amd_root", "nitro_root", "nitro_pcr0"}

(* A key file the configuration names, or the environment. *)
KeyFiles == {"unset", "readable", "unreadable"}
Backends == {"none", "external", "supervised"}
Addresses == {"none", "loopback", "routable"}

TimingModes == {"none", "bucket", "fixed_floor"}

Config ==
  [mode : Modes, sane : BOOLEAN,
   local_key : BOOLEAN, cmk_path : KeyFiles, env_cmk : KeyFiles,
   hatches : BOOLEAN,          \* CORDON_INSECURE_ADMIN, ..._UNREGISTERED_...
   fips_level : 1 .. 4, multi_tenant : BOOLEAN,
   simulation : BOOLEAN,       \* tee.preferred
   measurement_source : Sources, tpm_required : BOOLEAN,
   expected : SUBSET Pins,
   egress : BOOLEAN,           \* network.outbound_policy is not zero_egress
   backend : Backends, endpoint : Addresses,
   require_mtls : BOOLEAN, client_ca : BOOLEAN,
   console : Addresses,        \* ui: off, or the address it binds
   timing : TimingModes]       \* side_channel.timing_normalization

(* CordonConfig::default_light *)
DefaultLight ==
  [mode |-> "light", sane |-> TRUE,
   local_key |-> FALSE, cmk_path |-> "unset", env_cmk |-> "unset",
   hatches |-> FALSE, fips_level |-> 1, multi_tenant |-> TRUE,
   simulation |-> TRUE, measurement_source |-> "software",
   tpm_required |-> FALSE, expected |-> {}, egress |-> TRUE,
   backend |-> "none", endpoint |-> "none",
   require_mtls |-> FALSE, client_ca |-> FALSE, console |-> "none",
   timing |-> "none"]

Light(c) == c.mode = "light"
AirGapped(mode) == mode \in {"vault", "island", "dark"}

-----------------------------------------------------------------------------
(* CordonConfig::validate *)

KeyCustody(c) == ~Light(c) => ~c.local_key

DarkCustody(c) == c.mode = "dark" => c.fips_level >= 4 /\ ~c.multi_tenant

(* ExpectedMeasurementsConfig::is_empty *)
Pinned(c) == c.expected \cap {"pcr_values", "mrenclave"} # {}

RootOfTrust(c) ==
  ~Light(c) =>
    /\ ~c.simulation
    /\ c.measurement_source # "software"
    /\ c.measurement_source = "tpm2" => c.tpm_required
    /\ Pinned(c)
    /\ c.measurement_source = "sev_snp" => "amd_root" \in c.expected
    /\ c.measurement_source = "nitro_enclave" =>
         {"nitro_root", "nitro_pcr0"} \subseteq c.expected

Egress(c) ==
  /\ AirGapped(c.mode) => ~c.egress
  /\ ~(~c.egress /\ c.backend = "external" /\ c.endpoint = "routable")

Transport(c) ==
  /\ ~Light(c) => c.require_mtls
  /\ ~Light(c) \/ c.require_mtls => c.client_ca

Console(c) == c.console # "none" => Light(c) /\ c.console = "loopback"

Runtime(c) ==
  /\ c.backend = "none" => Light(c)
  /\ c.backend = "external" => c.endpoint # "none"

(* The identifiers that are not empty and the limits that are not zero. *)
Limits(c) == c.sane

Validate(c) ==
  /\ KeyCustody(c) /\ Limits(c) /\ DarkCustody(c) /\ RootOfTrust(c)
  /\ Egress(c) /\ Transport(c) /\ Console(c) /\ Runtime(c)

-----------------------------------------------------------------------------
(* CordonNode::build: keys and runtime *)

(* load_cmk_hex: a file the configuration names must be readable, one the  *)
(* environment names is skipped when it is not.                            *)
Cmk(c) ==
  IF c.cmk_path # "unset"
    THEN IF c.cmk_path = "readable" THEN "cmk" ELSE "refused"
    ELSE IF c.env_cmk = "readable" THEN "cmk" ELSE "none"

(* provision_keys: the provenance of the node's keys, or "refused". *)
ProvisionKeys(c) ==
  IF ~Light(c) /\ c.hatches THEN "refused"
  ELSE IF Cmk(c) # "none" THEN Cmk(c)
  ELSE IF ~Light(c) THEN "refused"
  ELSE IF c.local_key THEN "local" ELSE "ephemeral"

BuildSupervised(c) == TRUE     \* a binary and a model: whether it starts is
                               \* the environment's

BuildExternal(c) ==
  c.endpoint # "none" /\ (c.endpoint = "routable" => Light(c))

BuildNone(c) == Light(c)

(* build_backend *)
BuildBackend(c) ==
  CASE c.backend = "supervised" -> BuildSupervised(c)
    [] c.backend = "external" -> BuildExternal(c)
    [] c.backend = "none" -> BuildNone(c)

(* AttestationService::new, on a machine on which these roots of trust     *)
(* answer: no node produces the evidence of a Nitro enclave.               *)
Measures(c, machine) ==
  c.measurement_source \in {"software"} \cup (machine \ {"nitro_enclave"})

Builds(c, machine) ==
  /\ Validate(c) /\ ProvisionKeys(c) # "refused" /\ BuildBackend(c)
  /\ Measures(c, machine)

-----------------------------------------------------------------------------
(* The command line: cordon serve, with the flag --no-tls *)

TlsMode(c, noTls) ==
  IF noTls THEN "plain" ELSE IF c.require_mtls THEN "mutual" ELSE "server"

(* build_rustls_server_config: mutual TLS needs a CA. *)
Acceptor(c, tls) == tls = "mutual" => c.client_ca

(* spawn_console looks at the address once more. *)
SpawnConsole(c) == c.console # "none" => c.console = "loopback"

Serves(c, noTls, machine) ==
  /\ Builds(c, machine) /\ SpawnConsole(c)
  /\ noTls => Light(c)
  /\ Acceptor(c, TlsMode(c, noTls))

(* The timing the templates and harden give a hardened mode. *)
TimingOf(mode) == CASE mode = "sovereign_cloud" -> "none"
                    [] mode = "dark" -> "fixed_floor"
                    [] OTHER -> "bucket"

(* cordon run *)
RunConfig(ui) ==
  [DefaultLight EXCEPT !.local_key = TRUE, !.backend = "supervised",
                       !.console = IF ui THEN "loopback" ELSE "none"]

(* cordon default-config *)
Template(mode) ==
  IF mode = "light" THEN [DefaultLight EXCEPT !.backend = "supervised"]
  ELSE [DefaultLight EXCEPT
          !.mode = mode, !.backend = "supervised",
          !.simulation = FALSE, !.measurement_source = "tpm2",
          !.tpm_required = TRUE, !.require_mtls = TRUE, !.client_ca = TRUE,
          !.multi_tenant = mode # "dark",
          !.fips_level = IF mode = "dark" THEN 4 ELSE 3,
          !.egress = mode = "sovereign_cloud", !.timing = TimingOf(mode)]

(* The template with what it tells the operator to add: measurements. *)
Completed(mode) ==
  IF mode = "light" THEN Template(mode)
  ELSE [Template(mode) EXCEPT !.expected = {"pcr_values"}]

-----------------------------------------------------------------------------
(* The desktop app: settings, the plan made from them, readiness *)

Hardware == {"none", "tpm2", "sev_snp"}

(* The files are whether they are chosen and there. *)
Settings ==
  [model : {"none", "plain", "bundle"}, start_on_launch : BOOLEAN,
   mode : Modes, remote : BOOLEAN, sane : BOOLEAN,
   source : Hardware, ak : BOOLEAN, amd_root : BOOLEAN,
   pcrs : BOOLEAN, measurement : BOOLEAN, fips_level_4 : BOOLEAN]

DefaultSettings ==
  [model |-> "none", start_on_launch |-> TRUE, mode |-> "light",
   remote |-> FALSE, sane |-> TRUE, source |-> "none", ak |-> FALSE,
   amd_root |-> FALSE, pcrs |-> FALSE, measurement |-> FALSE,
   fips_level_4 |-> FALSE]

Hardened(s) == s.mode # "light"
Sealed(s) == s.model = "bundle"
UsesCmk(s) == Hardened(s) \/ Sealed(s)
UsesTls(s) == Hardened(s) \/ s.remote

PermitsDownloads(mode) == mode \in {"light", "sovereign_cloud"}

(* harden: what it refuses, and what it sets. *)
CanHarden(s) ==
  \/ s.source = "tpm2" /\ s.pcrs
  \/ s.source = "sev_snp" /\ s.amd_root /\ s.measurement

(* Settings::validate: what a person typed is in range. *)
SettingsValid(s) == s.sane

(* Mutation: the template's level, whatever the operator declared. *)
HardenUndeclared(c, s) ==
  [c EXCEPT !.fips_level = 3, !.multi_tenant = s.mode # "dark",
            !.egress = PermitsDownloads(s.mode), !.simulation = FALSE,
            !.measurement_source = s.source,
            !.tpm_required = s.source = "tpm2",
            !.expected = IF s.source = "tpm2" THEN {"pcr_values"}
                         ELSE {"mrenclave", "amd_root"},
            !.timing = TimingOf(s.mode)]

Harden(c, s) ==
  [c EXCEPT !.fips_level = IF s.mode = "dark" /\ s.fips_level_4 THEN 4 ELSE 3,
            !.multi_tenant = s.mode # "dark",
            !.egress = PermitsDownloads(s.mode), !.simulation = FALSE,
            !.measurement_source = s.source,
            !.tpm_required = s.source = "tpm2",
            !.expected = IF s.source = "tpm2" THEN {"pcr_values"}
                         ELSE {"mrenclave", "amd_root"},
            !.timing = TimingOf(s.mode)]

PlannedConfig(s) ==
  LET c == [DefaultLight EXCEPT
              !.mode = s.mode, !.sane = s.sane, !.backend = "supervised",
              !.cmk_path = IF UsesCmk(s) THEN "readable" ELSE "unset",
              !.local_key = ~UsesCmk(s), !.client_ca = UsesTls(s),
              !.require_mtls = Hardened(s),
              !.console = IF Hardened(s) THEN "none" ELSE "loopback"]
  IN  IF Hardened(s) THEN Harden(c, s) ELSE c

(* Engine::plan, on a machine with these models on disk and this key. *)
CanPlan(s, disk, hasKey) ==
  /\ SettingsValid(s) /\ s.model \in disk
  /\ Hardened(s) => Sealed(s) /\ CanHarden(s)
  /\ UsesCmk(s) => hasKey
  /\ Validate(PlannedConfig(s))

(* posture::readiness: every check of the mode is met. *)
RootIsMet(s, probe) ==
  /\ s.source \in probe
  /\ IF s.source = "tpm2" THEN s.ak ELSE s.amd_root

PinsAreMet(s) == IF s.source = "tpm2" THEN s.pcrs ELSE s.measurement

Ready(mode, s, disk, hasKey, probe) ==
  \/ mode = "light"
  \/ /\ hasKey
     /\ Sealed(s) /\ "bundle" \in disk
     /\ RootIsMet(s, probe)
     /\ PinsAreMet(s)
     /\ mode = "dark" => s.fips_level_4

-----------------------------------------------------------------------------
(* What a mode is documented to deliver. *)
Claims(c, tls) ==
  /\ ~Light(c) =>
       /\ tls = "mutual" /\ ProvisionKeys(c) = "cmk" /\ c.console = "none"
       /\ c.backend = "external" => c.endpoint = "loopback"
       /\ c.measurement_source # "software" /\ Pinned(c)
  /\ AirGapped(c.mode) => ~c.egress /\ c.timing # "none"

(* A completed template is valid; with a Client Master Key, in Light mode  *)
(* without one too, it is served, and delivers what its mode claims.       *)
TemplateStarts(mode) ==
  LET c == Completed(mode) IN
  /\ Validate(c)
  /\ Light(c) => Serves(c, FALSE, {})
  /\ \A named \in {"cmk_path", "env_cmk"} :
       LET k == [c EXCEPT ![named] = "readable"]
       IN  Serves(k, FALSE, {"tpm2"}) /\ Claims(k, TlsMode(k, FALSE))
=============================================================================
