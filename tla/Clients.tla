------------------------------ MODULE Clients ------------------------------
(***************************************************************************)
(* Who the server serves: the accounts and their devices, by the hashes    *)
(* the requests name them with.  Devices and Subscriptions share them.     *)
(***************************************************************************)
CONSTANTS
  Accounts,  \* account hashes
  Hashes     \* device hashes

None == "none"
=============================================================================
