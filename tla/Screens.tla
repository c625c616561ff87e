-------------------------------- MODULE Screens --------------------------------
(***************************************************************************)
(* What each page of the browser asks for and what it changes: the urls    *)
(* that it loads as its list and loads again after a change, those that it *)
(* loads once when it is opened, and those of its buttons.                 *)
(*                                                                         *)
(* A url is the sequence of its segments; "id" stands for any id.  A query *)
(* string is no segment: that of a list is the filter, see ApiClient.      *)
(* A page is a list of one subject.  Texts, dialogs and toasts are left    *)
(* out, and so are the buttons that change no list (passwords, exports).   *)
(***************************************************************************)
EXTENDS Naturals, Sequences

(* The url contains another one as a part, at a boundary of segments.      *)
Contains(url, part) ==
  \E i \in 0..(Len(url) - Len(part)) :
    SubSeq(url, i + 1, i + Len(part)) = part

Steps(root, steps) == {<<root, "id", s>> : s \in steps}

RequirementsPage ==
  [subject  |-> "openings",
   list     |-> {<<"requirements">>},
   filtered |-> {<<"requirements">>},
   once     |-> {<<"clients">>, <<"users">>},
   change   |-> {<<"requirements">>, <<"requirements", "id">>}
                  \cup Steps("requirements", {"done", "reopen", "archive"})]

TargetsPage ==
  [subject  |-> "targets",
   list     |-> {<<"targets">>},
   filtered |-> {},
   once     |-> {<<"employees">>, <<"clients">>},
   change   |-> {<<"targets">>, <<"targets", "id">>}
                  \cup Steps("targets", {"pause", "resume", "end"})]

ClientsPage ==
  [subject  |-> "clients",
   list     |-> {<<"clients">>},
   filtered |-> {<<"clients">>},
   once     |-> {<<"employees">>},
   change   |-> {<<"clients">>, <<"clients", "id">>}
                  \cup Steps("clients", {"deactivate", "activate", "archive", "employees"})]

RecruitersPage ==
  [subject  |-> "people",
   list     |-> {<<"employees">>, <<"clients">>},
   filtered |-> {<<"employees">>},
   once     |-> {},
   change   |-> {<<"employees">>, <<"employees", "id">>, <<"users", "id">>, <<"targets">>}
                  \cup Steps("users", {"deactivate", "activate", "archive"})]

SubAdminsPage ==
  [subject  |-> "subadmins",
   list     |-> {<<"sub-admins">>, <<"clients">>, <<"users">>},
   filtered |-> {},
   once     |-> {},
   change   |-> {<<"sub-admins">>, <<"sub-admins", "id">>}
                  \cup Steps("sub-admins", {"assignments", "deactivate", "activate"})]

ResumesPage ==
  [subject  |-> "resumes",
   list     |-> {<<"resumes">>},
   filtered |-> {<<"resumes">>},
   once     |-> {<<"clients">>, <<"resumes", "companies">>},
   change   |-> {<<"resumes", "id">>}]

InboxPage ==
  [subject  |-> "applications",
   list     |-> {<<"ai", "inbox">>},
   filtered |-> {<<"ai", "inbox">>},
   once     |-> {<<"clients">>},
   change   |-> {<<"ai", "confirm-save">>, <<"applications", "id">>}
                  \cup Steps("applications", {"close", "archive"})]

(* The dashboards change nothing; they load again when the window gets the *)
(* focus, with the filter of that moment.                                  *)
Dashboard(url) ==
  [subject |-> "all", list |-> {url}, filtered |-> {url}, once |-> {}, change |-> {}]

AdminDashboard == Dashboard(<<"dashboard", "admin", "home">>)
EmployeeDashboard == Dashboard(<<"dashboard", "employee">>)
ClientDashboard == Dashboard(<<"dashboard", "client", "home">>)

Screen ==
  [requirements |-> RequirementsPage, targets |-> TargetsPage, clients |-> ClientsPage,
   recruiters |-> RecruitersPage, subadmins |-> SubAdminsPage, resumes |-> ResumesPage,
   inbox |-> InboxPage, admin |-> AdminDashboard, employee |-> EmployeeDashboard,
   client |-> ClientDashboard]

Subjects == {Screen[p].subject : p \in DOMAIN Screen} \ {"all"}

(* The subjects that an answer tells of, as far as the pages are concerned *)
(* that load it: the dashboards count everything.                          *)
Tells(url) ==
  CASE url[1] = "dashboard" -> Subjects
    [] url[1] = "requirements" -> {"openings"}
    [] url[1] \in {"employees", "users"} -> {"people"}
    [] url[1] = "sub-admins" -> {"subadmins"}
    [] url[1] = "ai" -> {"applications"}
    [] OTHER -> {url[1]}
=============================================================================
