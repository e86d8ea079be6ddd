------------------------------ MODULE ApiMethods ------------------------------
(***************************************************************************)
(* The methods of the Google services whose reads are cached, as data.     *)
(*                                                                         *)
(* Each method follows the same skeleton: look up its cache key; call the  *)
(* methods it is built on; talk to the service; then Set its key, or, for  *)
(* a write, InvalidatePrefix its service.  A record says which of these    *)
(* steps the method takes:                                                 *)
(*   service  prefix of the cache keys and name of the remote state        *)
(*   looks    keys looked up first (none: the method is not cached)        *)
(*   fills    keys Set at the end                                          *)
(*   ttl      minutes passed to Set                                        *)
(*   inner    methods called, in order                                     *)
(*   remote   what its own call of the service does, after the inner ones  *)
(*   clears   InvalidatePrefix(service + ":") after the write              *)
(* A key stands for one choice of the method's arguments.  looks and fills *)
(* differ where the code normalises an argument between the two.           *)
(***************************************************************************)
EXTENDS Integers, Sequences

Read(service) ==
    [service |-> service, looks |-> {}, fills |-> {}, ttl |-> 0,
     inner |-> <<>>, remote |-> "read", clears |-> FALSE]

\* A method that reads only through the methods it calls.
Composed(service, inner) ==
    [Read(service) EXCEPT !.inner = inner, !.remote = "none"]

Caching(method, key, ttl) ==
    [method EXCEPT !.looks = {key}, !.fills = {key}, !.ttl = ttl]

Write(service) == [Read(service) EXCEPT !.remote = "write"]

Clearing(method) == [method EXCEPT !.clears = TRUE]

-----------------------------------------------------------------------------
(* sheets                                                                  *)

ReadRange         == Caching(Read("sheets"), "sheets:ReadRange", 10)
GetInfo           == Caching(Read("sheets"), "sheets:GetInfo", 10)
AppendValues      == Clearing(Write("sheets"))
UpdateValues      == Clearing(Write("sheets"))
ClearRange        == Clearing(Write("sheets"))
CreateSpreadsheet == Write("sheets")
SearchValues      == Composed("sheets", <<"ReadRange">>)
FilterRows        == Composed("sheets", <<"ReadRange">>)
ExportCSV         == Composed("sheets", <<"ReadRange">>)
ExportJSON        == Composed("sheets", <<"ReadRange">>)
ImportCSV         == Composed("sheets", <<"AppendValues">>)
ImportJSON        == Composed("sheets", <<"AppendValues">>)

\* With a range; without one the first tab is found first, and the entry is
\* set under the name found, not under the empty name that was looked up.
DescribeSheet ==
    Caching(Composed("sheets", <<"ReadRange">>), "sheets:DescribeSheet", 10)

DescribeFirstSheet ==
    [DescribeSheet EXCEPT !.inner = <<"GetInfo", "ReadRange">>,
                          !.looks = {"sheets:DescribeSheet:default"}]

StatsRange      == Composed("sheets", <<"ReadRange">>)
StatsFirstSheet == Composed("sheets", <<"GetInfo", "ReadRange">>)

\* CopyTab reads the source tab, adds the new one, then writes its values.
AddSheet == Write("sheets")
CopyTab  == [Write("sheets") EXCEPT !.inner = <<"ReadRange", "AddSheet">>]

SheetsMethods ==
    [ReadRange |-> ReadRange, GetInfo |-> GetInfo, AppendValues |-> AppendValues,
     UpdateValues |-> UpdateValues, ClearRange |-> ClearRange,
     CreateSpreadsheet |-> CreateSpreadsheet, SearchValues |-> SearchValues,
     FilterRows |-> FilterRows, ExportCSV |-> ExportCSV, ExportJSON |-> ExportJSON,
     ImportCSV |-> ImportCSV, ImportJSON |-> ImportJSON,
     DescribeSheet |-> DescribeSheet, DescribeFirstSheet |-> DescribeFirstSheet,
     StatsRange |-> StatsRange, StatsFirstSheet |-> StatsFirstSheet,
     AddSheet |-> AddSheet, CopyTab |-> CopyTab]

-----------------------------------------------------------------------------
(* drive                                                                   *)

ListFiles         == Caching(Read("drive"), "drive:ListFiles", 5)
SearchFiles       == Caching(Read("drive"), "drive:SearchFiles", 5)
UploadFile        == Clearing(Write("drive"))
CreateFolder      == Clearing(Write("drive"))
ShareFile         == Write("drive")
CheckDownloadSize == Read("drive")
DownloadFile      == Read("drive")

DriveMethods ==
    [ListFiles |-> ListFiles, SearchFiles |-> SearchFiles, UploadFile |-> UploadFile,
     CreateFolder |-> CreateFolder, ShareFile |-> ShareFile,
     CheckDownloadSize |-> CheckDownloadSize, DownloadFile |-> DownloadFile]

-----------------------------------------------------------------------------
(* calendar                                                                *)

\* ListEvents of a named calendar; of the empty name, looked up as it is and
\* set as "primary"; and the events of the days Agenda asks for.
ListEvents        == Caching(Read("calendar"), "calendar:ListEvents", 2)
ListDefaultEvents == [ListEvents EXCEPT !.looks = {"calendar:ListEvents:default"}]
Agenda            == Caching(Composed("calendar", <<"ListEvents">>), "calendar:Agenda", 2)
CheckConflicts    == Composed("calendar", <<"ListEvents">>)
FindSlot          == Read("calendar")
CreateEvent       == Clearing(Write("calendar"))
GetEvent          == Read("calendar")
UpdateEvent       == Clearing([Write("calendar") EXCEPT !.inner = <<"GetEvent">>])
DeleteEvent       == Clearing(Write("calendar"))

CalendarMethods ==
    [ListEvents |-> ListEvents, ListDefaultEvents |-> ListDefaultEvents,
     Agenda |-> Agenda, CheckConflicts |-> CheckConflicts, FindSlot |-> FindSlot,
     CreateEvent |-> CreateEvent, GetEvent |-> GetEvent, UpdateEvent |-> UpdateEvent,
     DeleteEvent |-> DeleteEvent]

-----------------------------------------------------------------------------
(* tasks                                                                   *)

\* ListTasks of a named list, and of the empty name, looked up as it is and
\* set as "@default".
ListTasks        == Caching(Read("tasks"), "tasks:ListTasks", 5)
ListDefaultTasks == [ListTasks EXCEPT !.looks = {"tasks:ListTasks:default"}]
ListTaskLists    == Read("tasks")
CreateTask       == Write("tasks")
GetTask          == Read("tasks")
CompleteTask     == [Write("tasks") EXCEPT !.inner = <<"GetTask">>]
DeleteTask       == Write("tasks")

TasksMethods ==
    [ListTasks |-> ListTasks, ListDefaultTasks |-> ListDefaultTasks,
     ListTaskLists |-> ListTaskLists, CreateTask |-> CreateTask, GetTask |-> GetTask,
     CompleteTask |-> CompleteTask, DeleteTask |-> DeleteTask]

-----------------------------------------------------------------------------
(* contacts and chat, which no method of the client changes in a way its   *)
(* cached reads would show                                                 *)

ListContacts   == Caching(Read("contacts"), "contacts:ListContacts", 15)
SearchContacts == Caching(Read("contacts"), "contacts:SearchContacts", 15)
GetContact     == Read("contacts")
ListSpaces     == Caching(Read("chat"), "chat:ListSpaces", 5)
ListMessages   == Read("chat")

DirectoryMethods ==
    [ListContacts |-> ListContacts, SearchContacts |-> SearchContacts,
     GetContact |-> GetContact, ListSpaces |-> ListSpaces, ListMessages |-> ListMessages]

=============================================================================
