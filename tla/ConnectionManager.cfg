SPECIFICATION Spec
CONSTANTS
  Clients <- RobotClients
  Servers = {}
  Friend <- McFriend
INVARIANTS FriendFollows
PROPERTIES Repaired
