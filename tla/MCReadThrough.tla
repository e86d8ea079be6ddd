---------------------------- MODULE MCReadThrough ----------------------------
(* ReadThrough with the methods of the services, on small instances.        *)
EXTENDS ReadThrough, ApiMethods, TLC

Symmetry == Permutations(Callers)

KeysOf(methods) ==
    UNION {methods[m].looks \cup methods[m].fills : m \in DOMAIN methods}

\* One client serves several services from one cache.
SharedMethods == SheetsMethods @@ DriveMethods @@ TasksMethods
                   @@ DirectoryMethods

SharedKeys   == KeysOf(SharedMethods)
CalendarKeys == KeysOf(CalendarMethods)

\* One call of each shape; the others take the same steps.
SharedCalls ==
    {"DescribeSheet", "DescribeFirstSheet", "ImportCSV", "CopyTab", "ListFiles",
     "UploadFile", "ListTasks"}

CalendarCalls == {"Agenda", "UpdateEvent"}

=============================================================================
