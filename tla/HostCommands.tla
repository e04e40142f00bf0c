----------------------------- MODULE HostCommands ----------------------------
(***************************************************************************)
(* The commands of host_comm.c, one record per API function, with what the *)
(* rest of the models need of each:                                        *)
(*                                                                         *)
(*   kind   "read"   one two-phase transaction that reads the answer       *)
(*          "async"  a write that starts the board's single asynchronous   *)
(*                   operation, then host_comm_poll_async_result           *)
(*          "fire"   a write nobody polls for                              *)
(*          "reset"  PANEL_CMD_RESET                                       *)
(*   ms     the timeout given to the poll loop (0 where there is no loop)  *)
(*   check  what the function does with the answer before it returns       *)
(*          ESP_OK:                                                        *)
(*          "void"    no data is read (expected_size 0)                    *)
(*          "dropped" the data is read and thrown away                     *)
(*          "lax"     copies the whole struct, whatever size was reported  *)
(*          "exact"   refuses a size that is not the expected one          *)
(*          "counted" copies exactly the bytes that were reported          *)
(*          "raw" / "magic" / "probe"  for reads: no validation, the alive *)
(*                    magic only, or the whole of host_comm_probe_alive    *)
(***************************************************************************)
EXTENDS Integers, TLC

Async(ms, check) == [kind |-> "async", ms |-> ms, check |-> check]
Read(check)      == [kind |-> "read",  ms |-> 0,  check |-> check]
Unpolled(kind)   == [kind |-> kind,    ms |-> 0,  check |-> "void"]

BrowseCommands ==
  [get_entry_count  |-> Async(1000, "lax"),
   get_entry_info   |-> Async(1000, "lax"),
   select_entry     |-> Async(2000, "dropped"),
   get_current_path |-> Async(1000, "counted")]

ImageCommands ==
  [select_prev_image       |-> Async(2000, "void"),
   select_next_image       |-> Async(2000, "void"),
   eject_image             |-> Async(1000, "void"),
   get_loaded_image_status |-> Async(1000, "lax")]

StatusCommands ==
  [get_device_status     |-> Read("raw"),
   get_playback_status   |-> Read("raw"),
   get_initiator_summary |-> Read("magic"),
   probe_alive           |-> Read("probe")]

FirmwareCommands ==
  [check_firmware      |-> Async(5000, "lax"),
   read_firmware_chunk |-> Async(5000, "exact")]

UploadCommands ==
  [start_file_upload  |-> Async(5000, "void"),
   write_file_chunk   |-> Async(5000, "void"),
   finish_file_upload |-> Async(30000, "exact")]

DownloadCommands ==
  [start_file_download |-> Async(5000, "exact"),
   read_file_chunk     |-> Async(5000, "counted")]

(* delete_file, rename_file, touch_file and mkdir share one helper.        *)
PathCommands == [path_op |-> Async(5000, "exact")]

MainBoardCommands ==
  [get_rp2350_fw_status |-> Async(2000, "lax"),
   start_rp2350_update  |-> Unpolled("fire")]

DeviceCommands ==
  [get_device_list      |-> Async(2000, "counted"),
   get_initiator_status |-> Async(2000, "counted")]

ControlCommands ==
  [get_command_status |-> Read("raw"),
   reset              |-> Unpolled("reset")]

Groups  == {BrowseCommands, ImageCommands, StatusCommands, FirmwareCommands,
            UploadCommands, DownloadCommands, PathCommands,
            MainBoardCommands, DeviceCommands, ControlCommands}
Command == [c \in UNION {DOMAIN g : g \in Groups} |->
              (CHOOSE g \in Groups : c \in DOMAIN g)[c]]

Kind(c)    == Command[c].kind
Check(c)   == Command[c].check
Timeout(c) == Command[c].ms

(* The checks of the asynchronous functions that copy the answer out.      *)
Copying == {"lax", "exact", "counted"}

(* get_entry_info refuses an index above 65534 once it holds the mutex.    *)
ChecksLate(c) == c = "get_entry_info"
=============================================================================
