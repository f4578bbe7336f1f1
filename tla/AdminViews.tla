----------------------------- MODULE AdminViews -----------------------------
(***************************************************************************)
(* The list views of the admin console, as descriptors for ListView.  Each *)
(* view has one definition per handler (what it sends, the flag it holds   *)
(* while it waits, what it does with the answer) and one per part of the   *)
(* markup (where a control is and which flags disable it).                 *)
(***************************************************************************)

\* A handler: the kind of request, the flag it holds, what it does with a
\* good answer, and whether it closes the open edit then.
Handler(kind, flag, done, closes) ==
  [kind |-> kind, flag |-> flag, done |-> done, closes |-> closes, perRow |-> FALSE]

\* A handler whose flag is the id of the row it works on.
RowHandler(kind, flag, done) == [Handler(kind, flag, done, FALSE) EXCEPT !.perRow = TRUE]

\* Where a control is rendered and the flags that disable it.
Control(place, off) == [control |-> place, off |-> off]

At(handler, control) ==
  [kind |-> handler.kind, flag |-> handler.flag, done |-> handler.done, closes |-> handler.closes,
   perRow |-> handler.perRow, control |-> control.control, off |-> control.off]

\* How a view comes by its rows: on mount (page) or for a selected owner
\* (scoped); what a failed load leaves; whether the array is a shared resource.
Page(empties) == [scoped |-> FALSE, closable |-> FALSE, refreshes |-> FALSE, picks |-> FALSE,
                  empties |-> empties, shared |-> FALSE, fixed |-> FALSE]
Scoped == [Page(TRUE) EXCEPT !.scoped = TRUE]

View(table, editable, patches, handlers) ==
  [scoped |-> table.scoped, closable |-> table.closable, refreshes |-> table.refreshes,
   picks |-> table.picks, empties |-> table.empties, shared |-> table.shared, fixed |-> table.fixed,
   editable |-> editable, patches |-> patches, ops |-> handlers]

-----------------------------------------------------------------------------
\* SchedulesView: every change reloads the user's order; a drag answers with it.

SchedulesRows == Scoped
SchedulesCreate == Handler("create", "creating", "reload", FALSE)
SchedulesForm == Control("form", {"creating"})
SchedulesSave == Handler("update", "saving", "reload", TRUE)
SchedulesDelete == Handler("remove", "none", "reload", FALSE)
SchedulesReorder == Handler("reorder", "reordering", "replace", FALSE)
SchedulesRow == [edit |-> Control("edit", {"saving"}), row |-> Control("row", {}),
                 order |-> Control("list", {"reordering"})]
SchedulesView ==
  View(SchedulesRows, TRUE, FALSE,
       [create |-> At(SchedulesCreate, SchedulesForm), save |-> At(SchedulesSave, SchedulesRow.edit),
        remove |-> At(SchedulesDelete, SchedulesRow.row),
        reorder |-> At(SchedulesReorder, SchedulesRow.order)])

-----------------------------------------------------------------------------
\* GroupSchedulesView: the same for a user group.

GroupSchedulesRows == Scoped
GroupSchedulesCreate == Handler("create", "creating", "reload", FALSE)
GroupSchedulesForm == Control("form", {"creating"})
GroupSchedulesSave == Handler("update", "saving", "reload", TRUE)
GroupSchedulesDelete == Handler("remove", "none", "reload", FALSE)
GroupSchedulesReorder == Handler("reorder", "reordering", "replace", FALSE)
GroupSchedulesRow == [edit |-> Control("edit", {"saving"}), row |-> Control("row", {}),
                      order |-> Control("list", {"reordering"})]
GroupSchedulesView ==
  View(GroupSchedulesRows, TRUE, FALSE,
       [create |-> At(GroupSchedulesCreate, GroupSchedulesForm),
        save |-> At(GroupSchedulesSave, GroupSchedulesRow.edit),
        remove |-> At(GroupSchedulesDelete, GroupSchedulesRow.row),
        reorder |-> At(GroupSchedulesReorder, GroupSchedulesRow.order)])

-----------------------------------------------------------------------------
\* BudgetsView: one load of budgets and catalogues together, so the form has
\* no user to offer before the rows are there; the handlers patch the array.

BudgetsRows == Page(FALSE)
BudgetsCreate == Handler("create", "creating", "patch", FALSE)
BudgetsForm == Control("loaded form", {"creating"})
BudgetsSave == Handler("update", "saving", "patch", TRUE)
BudgetsDelete == Handler("remove", "none", "patch", FALSE)
BudgetsRow == [edit |-> Control("edit", {"saving"}), row |-> Control("row", {})]
BudgetsView ==
  View(BudgetsRows, TRUE, TRUE,
       [create |-> At(BudgetsCreate, BudgetsForm), save |-> At(BudgetsSave, BudgetsRow.edit),
        remove |-> At(BudgetsDelete, BudgetsRow.row)])

-----------------------------------------------------------------------------
\* GroupBudgetsView.

GroupBudgetsRows == Scoped
GroupBudgetsCreate == Handler("create", "creating", "patch", FALSE)
GroupBudgetsForm == Control("form", {"creating"})
GroupBudgetsSave == Handler("update", "saving", "patch", TRUE)
GroupBudgetsDelete == Handler("remove", "none", "patch", FALSE)
GroupBudgetsRow == [edit |-> Control("edit", {"saving"}), row |-> Control("row", {})]
GroupBudgetsView ==
  View(GroupBudgetsRows, TRUE, TRUE,
       [create |-> At(GroupBudgetsCreate, GroupBudgetsForm),
        save |-> At(GroupBudgetsSave, GroupBudgetsRow.edit),
        remove |-> At(GroupBudgetsDelete, GroupBudgetsRow.row)])

-----------------------------------------------------------------------------
\* ExceptionsView.

ExceptionsRows == Page(FALSE)
ExceptionsCreate == Handler("create", "creating", "patch", FALSE)
ExceptionsForm == Control("loaded form", {"creating"})
ExceptionsSave == Handler("update", "saving", "patch", TRUE)
ExceptionsDelete == Handler("remove", "none", "patch", FALSE)
ExceptionsRow == [edit |-> Control("edit", {"saving"}), row |-> Control("row", {})]
ExceptionsView ==
  View(ExceptionsRows, TRUE, TRUE,
       [create |-> At(ExceptionsCreate, ExceptionsForm), save |-> At(ExceptionsSave, ExceptionsRow.edit),
        remove |-> At(ExceptionsDelete, ExceptionsRow.row)])

-----------------------------------------------------------------------------
\* GroupExceptionsView.

GroupExceptionsRows == Scoped
GroupExceptionsCreate == Handler("create", "creating", "patch", FALSE)
GroupExceptionsForm == Control("form", {"creating"})
GroupExceptionsSave == Handler("update", "saving", "patch", TRUE)
GroupExceptionsDelete == Handler("remove", "none", "patch", FALSE)
GroupExceptionsRow == [edit |-> Control("edit", {"saving"}), row |-> Control("row", {})]
GroupExceptionsView ==
  View(GroupExceptionsRows, TRUE, TRUE,
       [create |-> At(GroupExceptionsCreate, GroupExceptionsForm),
        save |-> At(GroupExceptionsSave, GroupExceptionsRow.edit),
        remove |-> At(GroupExceptionsDelete, GroupExceptionsRow.row)])

-----------------------------------------------------------------------------
\* UsersView and ActivitiesView patch a shared resource: set() also ends its
\* loading state, and the form is there while the first load is under way.

UsersRows == [Page(FALSE) EXCEPT !.shared = TRUE]
UsersCreate == Handler("create", "creating", "patch", FALSE)
UsersForm == Control("form", {"creating"})
UsersSave == Handler("update", "saving", "patch", TRUE)
UsersDelete == Handler("remove", "none", "patch", FALSE)
UsersRow == [edit |-> Control("edit", {"saving"}), row |-> Control("row", {})]
UsersView ==
  View(UsersRows, TRUE, TRUE,
       [create |-> At(UsersCreate, UsersForm), save |-> At(UsersSave, UsersRow.edit),
        remove |-> At(UsersDelete, UsersRow.row)])

ActivitiesRows == [Page(FALSE) EXCEPT !.shared = TRUE]
ActivitiesCreate == Handler("create", "creating", "patch", FALSE)
ActivitiesForm == Control("form", {"creating"})
ActivitiesSave == Handler("update", "saving", "patch", TRUE)
ActivitiesDelete == Handler("remove", "none", "patch", FALSE)
ActivitiesRow == [edit |-> Control("edit", {"saving"}), row |-> Control("row", {})]
ActivitiesView ==
  View(ActivitiesRows, TRUE, TRUE,
       [create |-> At(ActivitiesCreate, ActivitiesForm), save |-> At(ActivitiesSave, ActivitiesRow.edit),
        remove |-> At(ActivitiesDelete, ActivitiesRow.row)])

-----------------------------------------------------------------------------
\* LinksView: the form creates or overwrites the link to one client.

LinksRows == Scoped
LinksSubmit == Handler("upsert", "saving", "patch", FALSE)
LinksForm == Control("form", {"saving"})
LinksDelete == Handler("remove", "none", "patch", FALSE)
LinksRow == Control("row", {})
LinksView ==
  View(LinksRows, FALSE, TRUE,
       [save |-> At(LinksSubmit, LinksForm), remove |-> At(LinksDelete, LinksRow)])

-----------------------------------------------------------------------------
\* UserGroupsView and ActivityGroupsView: the groups, and the members panel of
\* the one that is open, whose two handlers share one flag.

UserGroupsRows == Page(FALSE)
UserGroupsCreate == Handler("create", "creating", "patch", FALSE)
UserGroupsForm == Control("form", {"creating"})
UserGroupsSave == Handler("update", "saving", "patch", TRUE)
UserGroupsDelete == Handler("remove", "none", "patch", FALSE)
UserGroupsRow == [edit |-> Control("edit", {"saving"}), row |-> Control("row", {})]
UserGroupsView ==
  View(UserGroupsRows, TRUE, TRUE,
       [create |-> At(UserGroupsCreate, UserGroupsForm), save |-> At(UserGroupsSave, UserGroupsRow.edit),
        remove |-> At(UserGroupsDelete, UserGroupsRow.row)])

UserMembersRows == [Scoped EXCEPT !.closable = TRUE, !.picks = TRUE]
UserMembersAdd == Handler("upsert", "saving", "patch", FALSE)
UserMembersRemove == Handler("remove", "saving", "patch", FALSE)
UserMembersPanel == [form |-> Control("form", {"saving"}), row |-> Control("row", {"saving"})]
UserMembersView ==
  View(UserMembersRows, FALSE, TRUE,
       [add |-> At(UserMembersAdd, UserMembersPanel.form),
        remove |-> At(UserMembersRemove, UserMembersPanel.row)])

ActivityGroupsRows == Page(FALSE)
ActivityGroupsCreate == Handler("create", "creating", "patch", FALSE)
ActivityGroupsForm == Control("form", {"creating"})
ActivityGroupsSave == Handler("update", "saving", "patch", TRUE)
ActivityGroupsDelete == Handler("remove", "none", "patch", FALSE)
ActivityGroupsRow == [edit |-> Control("edit", {"saving"}), row |-> Control("row", {})]
ActivityGroupsView ==
  View(ActivityGroupsRows, TRUE, TRUE,
       [create |-> At(ActivityGroupsCreate, ActivityGroupsForm),
        save |-> At(ActivityGroupsSave, ActivityGroupsRow.edit),
        remove |-> At(ActivityGroupsDelete, ActivityGroupsRow.row)])

ActivityMembersRows == [Scoped EXCEPT !.closable = TRUE, !.picks = TRUE]
ActivityMembersAdd == Handler("upsert", "saving", "patch", FALSE)
ActivityMembersRemove == Handler("remove", "saving", "patch", FALSE)
ActivityMembersPanel == [form |-> Control("form", {"saving"}), row |-> Control("row", {"saving"})]
ActivityMembersView ==
  View(ActivityMembersRows, FALSE, TRUE,
       [add |-> At(ActivityMembersAdd, ActivityMembersPanel.form),
        remove |-> At(ActivityMembersRemove, ActivityMembersPanel.row)])

-----------------------------------------------------------------------------
\* ClientsView: a refresh button; clients come by enrolment, so the form only
\* mints a token and leaves the rows alone.

ClientsRows == [Page(FALSE) EXCEPT !.refreshes = TRUE]
ClientsMint == Handler("side", "creating", "patch", FALSE)
ClientsEnrolForm == Control("form", {"creating"})
ClientsSave == Handler("update", "saving", "patch", TRUE)
ClientsDelete == Handler("remove", "none", "patch", FALSE)
ClientsEdit == Control("edit", {"saving"})
ClientsRow == Control("row", {})
ClientsView ==
  View(ClientsRows, TRUE, TRUE,
       [mint |-> At(ClientsMint, ClientsEnrolForm), save |-> At(ClientsSave, ClientsEdit),
        remove |-> At(ClientsDelete, ClientsRow)])

-----------------------------------------------------------------------------
\* IntegrationTokensView: a token is revoked in place; the row being revoked
\* is remembered by its id.

TokensRows == Page(FALSE)
TokensCreate == Handler("create", "creating", "patch", FALSE)
TokensForm == Control("form", {"creating"})
TokensRevoke == RowHandler("update", "saving", "patch")
TokensRow == Control("row", {"saving"})
TokensView ==
  View(TokensRows, FALSE, TRUE,
       [create |-> At(TokensCreate, TokensForm), revoke |-> At(TokensRevoke, TokensRow)])

-----------------------------------------------------------------------------
\* RetentionView: the categories are fixed; a window is set or cleared in
\* place, and the two flags hold the category last clicked.

RetentionRows == [Page(FALSE) EXCEPT !.fixed = TRUE]
RetentionSave == RowHandler("update", "saving", "patch")
RetentionClear == RowHandler("update", "clearing", "patch")
RetentionRow == Control("row", {"saving", "clearing"})
RetentionView ==
  View(RetentionRows, FALSE, TRUE,
       [save |-> At(RetentionSave, RetentionRow), clear |-> At(RetentionClear, RetentionRow)])

-----------------------------------------------------------------------------

\* The views of the console that list and edit rows, by their files.
AllViews ==
  [schedules |-> SchedulesView, groupSchedules |-> GroupSchedulesView, budgets |-> BudgetsView,
   groupBudgets |-> GroupBudgetsView, exceptions |-> ExceptionsView,
   groupExceptions |-> GroupExceptionsView, users |-> UsersView, activities |-> ActivitiesView,
   links |-> LinksView, userGroups |-> UserGroupsView, userMembers |-> UserMembersView,
   activityGroups |-> ActivityGroupsView, activityMembers |-> ActivityMembersView,
   clients |-> ClientsView, tokens |-> TokensView, retention |-> RetentionView]

=============================================================================
