SPECIFICATION Spec
SYMMETRY Symmetry
VIEW ExceptAuthor
CONSTRAINT Calm
CONSTANTS
  NoUser = NoUser
  Keep = Keep
  None = None
  Users = {adm, wri, pub}
  Admins = {adm, pub}
  Churn = {pub}
  Assignees = {wri}
  Sessions = {s1}
  Times = {t1, t2, t3}
  WriterMoves = {"in_progress", "pending_review", "needs_revision", "completed"}
  PublisherMoves = {"pending_review", "publisher_approved", "completed"}
  Together = {{"writer"}, {"publisher"}, {"writer_status", "publisher_status"}}
  start_writing = {wri}
  start_publishing = {pub}
  submit_draft = {wri, pub}
  request_revision = {wri}
  complete_publishing = {pub}
  change_assignment = {adm}
  edit_publish_timestamp = {adm}
  override_status = {adm}
  repair_workflow_state = {adm}
INVARIANTS
  TypeOK
  VersionNamesRow
  SteadyAdminsAreAsked
PROPERTIES
  ActsAsDesk
  StagesFollowRules
  HandoffStartsPublishing
