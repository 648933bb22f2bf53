--------------------------- MODULE RdmParameters ---------------------------
(***************************************************************************)
(* The parameters of an RDM responder of lib/esp_dmx, as the functions     *)
(* rdm_register_... of rdm/responder/ declare them and in the order in     *)
(* which dmx_driver_install (dmx/driver.c) registers them.                 *)
(*                                                                         *)
(* A registration is what the code keeps of it that matters here: how the  *)
(* parameter is stored, the command classes it takes, the handlers of GET  *)
(* and SET, its first value, and whether it is looked up in the flash      *)
(* before.  Labels, sizes, units and formats are left out.                 *)
(***************************************************************************)
EXTENDS Naturals, Sequences

Parameter(pid, type, cc, get, set, init, loads) ==
  [pid |-> pid, type |-> type, cc |-> cc, get |-> get, set |-> set,
   init |-> init, loads |-> loads]

rdm_register_disc_unique_branch ==
  Parameter("DISC_UNIQUE_BRANCH", "STATIC", "DISC", "discovery", "none", 0, FALSE)
rdm_register_disc_mute ==
  Parameter("DISC_MUTE", "DYNAMIC", "DISC", "discovery", "none", 0, FALSE)
\* an alias of the byte of DISC_MUTE, which is registered first
rdm_register_disc_un_mute ==
  Parameter("DISC_UN_MUTE", "STATIC", "DISC", "discovery", "none", 0, FALSE)

rdm_register_device_info ==
  Parameter("DEVICE_INFO", "DYNAMIC", "GET", "device_info", "none", 0, FALSE)
rdm_register_software_version_label ==
  Parameter("SOFTWARE_VERSION_LABEL", "DYNAMIC", "GET", "simple", "none", 0, FALSE)
rdm_register_manufacturer_label ==
  Parameter("MANUFACTURER_LABEL", "STATIC", "GET", "simple", "none", 0, FALSE)
rdm_register_device_model_description ==
  Parameter("DEVICE_MODEL_DESCRIPTION", "DYNAMIC", "GET", "simple", "none", 0, FALSE)
rdm_register_device_label ==
  Parameter("DEVICE_LABEL", "NON_VOLATILE", "GET_SET", "simple", "simple", 0, FALSE)

rdm_register_identify_device ==
  Parameter("IDENTIFY_DEVICE", "NON_VOLATILE", "GET_SET", "simple", "simple", 0, FALSE)
rdm_register_reset_device ==
  Parameter("RESET_DEVICE", "NON_VOLATILE", "SET", "none", "reset", 0, FALSE)

rdm_register_dmx_start_address ==
  Parameter("DMX_START_ADDRESS", "NON_VOLATILE", "GET_SET", "simple", "simple", 1, TRUE)
rdm_register_dmx_personality ==
  Parameter("DMX_PERSONALITY", "NON_VOLATILE", "GET_SET", "simple", "personality", 1, TRUE)
rdm_register_dmx_personality_description ==
  Parameter("DMX_PERSONALITY_DESCRIPTION", "DYNAMIC", "GET", "description", "none", 0, FALSE)

rdm_register_device_hours ==
  Parameter("DEVICE_HOURS", "NON_VOLATILE", "GET_SET", "simple", "simple", 0, TRUE)
rdm_register_lamp_hours ==
  Parameter("LAMP_HOURS", "NON_VOLATILE", "GET_SET", "simple", "simple", 0, TRUE)

rdm_register_queued_message ==
  Parameter("QUEUED_MESSAGE", "DYNAMIC", "GET", "queued", "none", 0, FALSE)
rdm_register_supported_parameters ==
  Parameter("SUPPORTED_PARAMETERS", "STATIC", "GET", "supported", "none", 0, FALSE)
rdm_register_parameter_description ==
  Parameter("PARAMETER_DESCRIPTION", "STATIC", "GET", "parameter_description", "none", 0, FALSE)

\* dmx_driver_install, for a device that uses DMX and has a queue
Installs ==
  <<rdm_register_disc_unique_branch, rdm_register_disc_mute, rdm_register_disc_un_mute,
    rdm_register_device_info, rdm_register_software_version_label,
    rdm_register_identify_device, rdm_register_dmx_start_address,
    rdm_register_queued_message, rdm_register_manufacturer_label,
    rdm_register_dmx_personality, rdm_register_dmx_personality_description,
    rdm_register_device_label, rdm_register_supported_parameters,
    rdm_register_parameter_description>>

\* what an application may register when the driver is installed: the ones of extras
Optional(extras) ==
  LET Wanted(p) == IF p.pid \in extras THEN <<p>> ELSE << >>
  IN  Wanted(rdm_register_device_model_description) \o Wanted(rdm_register_device_hours)
      \o Wanted(rdm_register_lamp_hours) \o Wanted(rdm_register_reset_device)

(***************************************************************************)
(* dmx_parameter_add takes the first free entry of a table of capacity     *)
(* entries, and fails, unnoticed, when there is none.                      *)
(***************************************************************************)
Table(capacity, extras) ==
  LET wanted == Installs \o Optional(extras)
  IN  SubSeq(wanted, 1, IF capacity < Len(wanted) THEN capacity ELSE Len(wanted))
=============================================================================
