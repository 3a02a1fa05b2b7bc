SPECIFICATION Spec
SYMMETRY Symmetry
CONSTANTS
  NoUser = NoUser
  Keep = Keep
  None = None
  Users = {adm, ad2, wri, pub}
  Admins = {adm, ad2}
  Churn = {ad2}
  Assignees = {wri}
  Sessions = {}
  Times = {t1, t2}
  WriterMoves = {"not_started", "in_progress", "pending_review", "needs_revision", "completed"}
  PublisherMoves = {"not_started", "in_progress", "pending_review", "publisher_approved", "completed"}
  Together = {{"writer"}, {"publisher", "writer_status"}, {"writer_status", "publisher_status"}}
  start_writing = {wri}
  start_publishing = {pub}
  submit_draft = {wri, pub}
  request_revision = {wri}
  complete_publishing = {pub}
  change_assignment = {adm}
  edit_publish_timestamp = {adm}
  override_status = {adm}
  repair_workflow_state = {adm}
PROPERTIES
  EveryActiveAdminIsAsked
