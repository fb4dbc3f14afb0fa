\* Whole, nested, empty, malformed and client-made messages and the pushes of a
\* subscription, cut everywhere.
SPECIFICATION Spec
CONSTANTS MaxLong = 2147483647 Conversations <- AllConversations
INVARIANTS TypeOK MembersAgree RepliesFaithful RepliesPrompt ErrorsFound InspectFaithful PushesRecognised
CHECK_DEADLOCK FALSE
